------------------------- MODULE StreamAndNamesProofs -------------------------
(***************************************************************************)
(* What is true of where descriptors are stored and of how they are found. *)
(*                                                                         *)
(* First, the stream of a set of descriptors, a block array in a segment   *)
(* (SegmentBlockArray), for any sizes of both arrays, whatever the         *)
(* allocator gives. The argument is one about places: a segment of extents *)
(* that are apart has as many places as it has space, and no two are the   *)
(* same; a grow, a cut or a split keeps those at the start. StreamInv says *)
(* so, and that the array counts the space of its segment.                 *)
(*                                                                         *)
(* Then, the ids, find and the names (Names), for any number of            *)
(* descriptors, sets, ids and names, whatever the user does. NamesInv is   *)
(* about Given, the ids that were given since the file was opened: those   *)
(* of the tree and of the cache are among them, and a new one is not, but  *)
(* for those in reused; what the cache has of an id, the tree has, or the  *)
(* id is in left. It needs nothing of what is stored: an open refuses the  *)
(* files where two descriptors have the same id. StoreTypes adds what is   *)
(* stored, and NamesHold that each name, in the index or stored, is the    *)
(* name of a descriptor of the tree or of one that was erased.             *)
(***************************************************************************)
EXTENDS SegmentBlockArray, Names, ExtentLemmas

(* Extents of bg, and the segments of extents apart *)

\* The extents that a segment may have: none is empty or past the end of bg.
SegmExtents ==
  BgExtents \cup {SubExtent(x[1], x[2]) : x \in (0 .. BgBlkCnt - 1) \X (Bitmaps \ {{}})}

\* No two extents of a segment share a subblock.
Scattered(exts) ==
  \A i, j \in DOMAIN exts : i # j => UnitsOf(exts[i]) \cap UnitsOf(exts[j]) = {}

\* The sizes are not zero, and a block is of whole subblocks.
LEMMA Consts ==
  /\ SubblkCntPerBlk \in Nat \ {0} /\ FgPerSubblk \in Nat \ {0}
  /\ FgPerBlk \in Nat \ {0} /\ FgPerBlk = SubblkCntPerBlk * FgPerSubblk
  /\ BgBlkCnt \in Nat \ {0} /\ BgBlkCnt <= MaxBlkNr + 1 /\ MaxBlkNr \in Nat
  /\ BeginBlkNr = 0
<1>1. /\ SubblkCntPerBlk \in Nat \ {0} /\ FgPerSubblk \in Nat \ {0}
      /\ BgBlkCnt \in Nat \ {0} /\ BgBlkCnt <= MaxBlkNr + 1 /\ MaxBlkNr \in Nat
      /\ BeginBlkNr = 0
  BY ExtentAssumption, SegmentBlockArrayAssumption
<1>2. \A a, b \in Nat \ {0} : a * b \in Nat \ {0}
  <2>1. ASSUME NEW a \in Nat \ {0}, NEW b \in Nat \ {0} PROVE a * b \in Nat \ {0}
    <3>1. PICK c \in Nat : b = c + 1
      <4>1. b - 1 \in Nat /\ b = (b - 1) + 1
        OBVIOUS
      <4> QED
        BY <4>1
    <3>2. a * b = a * c + a /\ a * c \in Nat
      BY <3>1
    <3> QED
      BY <3>2
  <2> QED
    BY <2>1
<1> QED
  BY <1>1, <1>2 DEF FgPerBlk

\* An extent of blocks: its fields, its subblocks and its size.
LEMMA FullIsOf ==
  ASSUME NEW e \in BgExtents
  PROVE  /\ e = FullExtent(e.blk_nr, e.blk_cnt)
         /\ e.is_suballoc = FALSE
         /\ e.blk_nr \in Nat /\ e.blk_cnt \in Nat \ {0} /\ e.blk_cnt <= MaxBlkCnt
         /\ BlkSpan(e) = e.blk_cnt
         /\ PastEndBlkNr(e) = e.blk_nr + e.blk_cnt
         /\ e.blk_nr + e.blk_cnt <= BgBlkCnt
         /\ UnitsOf(e) = (e.blk_nr .. e.blk_nr + e.blk_cnt - 1) \X Subblks
         /\ SizeOf(e) = e.blk_cnt * FgPerBlk
<1>1. e \in FullExtents /\ PastEndBlkNr(e) <= BgBlkCnt
  BY DEF BgExtents
<1>2. /\ e = FullExtent(e.blk_nr, e.blk_cnt)
      /\ e.is_suballoc = FALSE
      /\ e.blk_nr \in BlkNrs /\ e.blk_cnt \in BlkCnts /\ e.blk_cnt # 0
      /\ BlkSpan(e) = e.blk_cnt
      /\ PastEndBlkNr(e) = e.blk_nr + e.blk_cnt
  BY <1>1, FullExtentFacts
<1>3. e.blk_nr \in Nat /\ e.blk_cnt \in Nat \ {0} /\ e.blk_cnt <= MaxBlkCnt
  BY <1>2, ExtentAssumption DEF BlkNrs, BlkCnts
<1> QED
  BY <1>1, <1>2, <1>3 DEF UnitsOf, SizeOf

\* An extent of some subblocks of a block, in the same way.
LEMMA SubIsOf ==
  ASSUME NEW b \in 0 .. BgBlkCnt - 1, NEW bits \in Bitmaps, bits # {}
  PROVE  LET e == SubExtent(b, bits)
         IN  /\ e \in SegmExtents
             /\ e.is_suballoc /\ e.blk_nr = b /\ e.blk_bitmap = bits
             /\ BlkSpan(e) = 1 /\ PastEndBlkNr(e) = b + 1
             /\ UnitsOf(e) = {b} \X bits
             /\ SizeOf(e) = Cardinality(bits) * FgPerSubblk
<1> DEFINE e == SubExtent(b, bits)
<1>1. e.is_suballoc /\ e.blk_nr = b /\ e.blk_bitmap = bits
  BY DEF SubExtent
<1>2. e \in SegmExtents
  <2>1. <<b, bits>> \in (0 .. BgBlkCnt - 1) \X (Bitmaps \ {{}})
    OBVIOUS
  <2>2. SubExtent(<<b, bits>>[1], <<b, bits>>[2]) = SubExtent(b, bits)
    OBVIOUS
  <2> QED
    BY <2>1, <2>2 DEF SegmExtents
<1>3. BlkSpan(e) = 1 /\ PastEndBlkNr(e) = b + 1
  BY <1>1 DEF BlkSpan, PastEndBlkNr
<1>4. b .. b + 1 - 1 = {b}
  OBVIOUS
<1> HIDE DEF e
<1> QED
  BY <1>1, <1>2, <1>3, <1>4 DEF UnitsOf, SizeOf, SubblkCnt, e

\* An extent of a segment is of one of the two kinds.
LEMMA SegmExtentIs ==
  ASSUME NEW e \in SegmExtents
  PROVE  \/ e \in BgExtents /\ ~ e.is_suballoc
         \/ /\ e.is_suballoc
            /\ e.blk_nr \in 0 .. BgBlkCnt - 1 /\ e.blk_bitmap \in Bitmaps /\ e.blk_bitmap # {}
            /\ e = SubExtent(e.blk_nr, e.blk_bitmap)
<1>1. CASE e \in BgExtents
  BY <1>1, FullIsOf
<1>2. CASE e \notin BgExtents
  <2>1. PICK x \in (0 .. BgBlkCnt - 1) \X (Bitmaps \ {{}}) : e = SubExtent(x[1], x[2])
    BY <1>2 DEF SegmExtents
  <2>2. e.is_suballoc /\ e.blk_nr = x[1] /\ e.blk_bitmap = x[2]
    BY <2>1 DEF SubExtent
  <2> QED
    BY <2>1, <2>2
<1> QED
  BY <1>1, <1>2

-----------------------------------------------------------------------------
(* Where the blocks of an extent are *)

\* The subblock of bg that has a place.
UnitAt(p) == <<p \div FgPerBlk, SubblkCntPerBlk - 1 - ((p % FgPerBlk) \div FgPerSubblk)>>

\* The multiples of a number grow with the factor.
LEMMA TimesGrows ==
  ASSUME NEW a \in Nat, NEW b \in Nat, NEW n \in Nat, a <= b
  PROVE  a * n \in Nat /\ b * n \in Nat /\ a * n <= b * n
<1>1. PICK c \in Nat : b = a + c
  <2>1. b - a \in Nat /\ b = a + (b - a)
    OBVIOUS
  <2> QED
    BY <2>1
<1>2. b * n = a * n + c * n /\ a * n \in Nat /\ c * n \in Nat
  BY <1>1
<1> QED
  BY <1>2

\* A place is at an offset in a subblock of a block.
LEMMA PlaceOfUnit ==
  ASSUME NEW q \in 0 .. BgBlkCnt - 1, NEW bit \in Subblks, NEW r \in 0 .. FgPerSubblk - 1
  PROVE  LET p == q * FgPerBlk + OffsetOfBit(bit) + r
         IN  p \in Places /\ UnitAt(p) = <<q, bit>>
<1> DEFINE s == SubblkCntPerBlk - 1 - bit
           o == OffsetOfBit(bit) + r
           p == q * FgPerBlk + o
<1>1. /\ SubblkCntPerBlk \in Nat \ {0} /\ FgPerSubblk \in Nat \ {0}
      /\ FgPerBlk \in Nat \ {0} /\ FgPerBlk = SubblkCntPerBlk * FgPerSubblk
      /\ BgBlkCnt \in Nat \ {0}
  BY Consts
<1>2. s \in 0 .. SubblkCntPerBlk - 1 /\ bit \in Int /\ bit = SubblkCntPerBlk - 1 - s
  BY <1>1 DEF Subblks
<1>3. OffsetOfBit(bit) = s * FgPerSubblk
  BY DEF OffsetOfBit
<1> HIDE DEF s
<1>4. s * FgPerSubblk \in Nat /\ s * FgPerSubblk + FgPerSubblk <= FgPerBlk
  <2>1. s \in Nat /\ s + 1 \in Nat /\ s + 1 <= SubblkCntPerBlk
    BY <1>1, <1>2
  <2>2. (s + 1) * FgPerSubblk <= SubblkCntPerBlk * FgPerSubblk
    BY <1>1, <2>1, TimesGrows
  <2>3. (s + 1) * FgPerSubblk = s * FgPerSubblk + FgPerSubblk /\ s * FgPerSubblk \in Nat
    BY <1>1, <2>1
  <2> QED
    BY <1>1, <2>2, <2>3
<1>5. o \in 0 .. FgPerBlk - 1 /\ o = FgPerSubblk * s + r
  <2>1. FgPerSubblk * s = s * FgPerSubblk
    BY <1>1, <1>2
  <2> QED
    BY <1>1, <1>3, <1>4, <2>1
<1>6. (o \div FgPerSubblk) = s
  <2>1. s \in Nat
    BY <1>2
  <2> HIDE DEF o
  <2> QED
    BY <1>1, <1>5, <2>1, DivModUnique
<1> HIDE DEF o
<1>7. p = FgPerBlk * q + o /\ q \in Nat
  BY <1>1, <1>5
<1>8. (p \div FgPerBlk) = q /\ (p % FgPerBlk) = o
  <2>1. ((FgPerBlk * q + o) % FgPerBlk) = o /\ ((FgPerBlk * q + o) \div FgPerBlk) = q
    BY <1>1, <1>5, <1>7, DivModUnique
  <2> HIDE DEF p
  <2> QED
    BY <1>7, <2>1
<1>9. p \in Places
  <2>1. q + 1 \in Nat /\ q + 1 <= BgBlkCnt /\ q \in Nat
    BY <1>1
  <2>2. (q + 1) * FgPerBlk <= BgBlkCnt * FgPerBlk /\ BgBlkCnt * FgPerBlk \in Nat
    BY <1>1, <2>1, TimesGrows
  <2>3. (q + 1) * FgPerBlk = q * FgPerBlk + FgPerBlk /\ q * FgPerBlk \in Nat
    BY <1>1, <2>1
  <2>4. p \in Nat /\ p < BgBlkCnt * FgPerBlk
    BY <1>1, <1>5, <2>2, <2>3
  <2> HIDE DEF p
  <2> QED
    BY <2>2, <2>4 DEF Places
<1>10. UnitAt(p) = <<q, bit>>
  BY <1>2, <1>6, <1>8 DEF UnitAt
<1>11. q * FgPerBlk + OffsetOfBit(bit) + r = p
  <2>1. q * FgPerBlk \in Nat /\ OffsetOfBit(bit) \in Nat
    BY <1>1, <1>3, <1>4
  <2> QED
    BY <2>1 DEF o
<1> QED
  BY <1>9, <1>10, <1>11

\* A natural is a multiple and less than one more.
LEMMA Quotient ==
  ASSUME NEW a \in Nat, NEW n \in Nat \ {0}
  PROVE  \E q \in Nat, r \in 0 .. n - 1 : a = n * q + r
<1> DEFINE q == a \div n
           r == a % n
<1>1. q \in Nat /\ r \in 0 .. n - 1 /\ a = n * q + r
  BY DivMod
<1> HIDE DEF q, r
<1> QED
  BY <1>1

\* The n-th subblock of a bitmap, from 0, is the one with n before it.
NthBit(bitmap, n) ==
  CHOOSE i \in FirstBits(bitmap, n + 1) : i \notin FirstBits(bitmap, n)

\* A bitmap is a finite set of naturals.
LEMMA BitmapFacts ==
  ASSUME NEW bitmap \in Bitmaps
  PROVE  /\ bitmap \subseteq Subblks /\ bitmap \in SUBSET Nat
         /\ IsFiniteSet(bitmap) /\ Cardinality(bitmap) \in Nat
         /\ \A s \in SUBSET bitmap : IsFiniteSet(s) /\ Cardinality(s) \in Nat
<1>1. /\ \A i \in Subblks : i \in Nat
      /\ IsFiniteSet(Subblks)
  BY ExtentAssumption, FS_Interval DEF Subblks
<1>2. bitmap \subseteq Subblks
  BY DEF Bitmaps
<1>3. IsFiniteSet(bitmap)
  BY <1>1, <1>2, FS_Subset
<1>4. \A s \in SUBSET bitmap : IsFiniteSet(s) /\ Cardinality(s) \in Nat
  BY <1>3, FS_Subset, FS_CardinalityType
<1> QED
  BY <1>1, <1>2, <1>3, <1>4

\* The first n subblocks of a bitmap are n of its subblocks.
LEMMA FirstBitsCount ==
  ASSUME NEW bitmap \in Bitmaps, NEW n \in Nat, n <= Cardinality(bitmap)
  PROVE  /\ FirstBits(bitmap, n) \subseteq bitmap /\ FirstBits(bitmap, n) \in Bitmaps
         /\ IsFiniteSet(FirstBits(bitmap, n)) /\ Cardinality(FirstBits(bitmap, n)) = n
<1>1. FirstBits(bitmap, n) = TakenBits(bitmap, n)
  BY DEF FirstBits, TakenBits
<1>2. FirstBits(bitmap, n) \subseteq bitmap
  BY DEF FirstBits
<1> QED
  BY <1>1, <1>2, BitmapFacts, TakenBitsCount DEF Bitmaps

\* The n-th subblock is of the bitmap and has n before it.
LEMMA NthBitFacts ==
  ASSUME NEW bitmap \in Bitmaps, NEW n \in Nat, n < Cardinality(bitmap)
  PROVE  /\ NthBit(bitmap, n) \in bitmap
         /\ Cardinality({j \in bitmap : j > NthBit(bitmap, n)}) = n
<1>0. Cardinality(bitmap) \in Nat
  BY BitmapFacts
<1>1. /\ IsFiniteSet(FirstBits(bitmap, n)) /\ Cardinality(FirstBits(bitmap, n)) = n
      /\ IsFiniteSet(FirstBits(bitmap, n + 1)) /\ Cardinality(FirstBits(bitmap, n + 1)) = n + 1
  <2>1. n + 1 \in Nat /\ n <= Cardinality(bitmap) /\ n + 1 <= Cardinality(bitmap)
    BY <1>0
  <2> QED
    BY <2>1, FirstBitsCount
<1>2. \E i \in FirstBits(bitmap, n + 1) : i \notin FirstBits(bitmap, n)
  <2> SUFFICES ASSUME FirstBits(bitmap, n + 1) \subseteq FirstBits(bitmap, n) PROVE FALSE
    OBVIOUS
  <2>1. Cardinality(FirstBits(bitmap, n + 1)) <= Cardinality(FirstBits(bitmap, n))
    BY <1>1, FS_Subset
  <2> QED
    BY <1>1, <2>1
<1> DEFINE i == NthBit(bitmap, n)
<1>3. i \in FirstBits(bitmap, n + 1) /\ i \notin FirstBits(bitmap, n)
  BY <1>2 DEF NthBit
<1> HIDE DEF i
<1>4. i \in bitmap
  BY <1>3 DEF FirstBits
<1>5. /\ Cardinality({j \in bitmap : j > i}) < n + 1
      /\ ~ (Cardinality({j \in bitmap : j > i}) < n)
  BY <1>3, <1>4 DEF FirstBits
<1>6. Cardinality({j \in bitmap : j > i}) \in Nat
  BY BitmapFacts
<1>7. Cardinality({j \in bitmap : j > i}) = n
  BY <1>5, <1>6
<1> QED
  BY <1>4, <1>7 DEF i

\* The first of the first ones.
LEMMA FirstOfFirst ==
  ASSUME NEW bitmap \in Bitmaps, NEW c \in Nat, NEW n \in Nat, n <= c
  PROVE  FirstBits(FirstBits(bitmap, c), n) = FirstBits(bitmap, n)
<1> DEFINE F == FirstBits(bitmap, c)
           Above(i) == {j \in bitmap : j > i}
<1>0. \A i \in bitmap : i \in Nat
  BY BitmapFacts
<1>1. \A i : Cardinality(Above(i)) \in Nat /\ IsFiniteSet(Above(i))
  BY BitmapFacts
<1>2. ASSUME NEW i \in F PROVE {j \in F : j > i} = Above(i)
  <2>1. i \in bitmap /\ Cardinality(Above(i)) < c
    BY <1>2 DEF FirstBits
  <2>2. ASSUME NEW j \in bitmap, j > i PROVE j \in F
    <3>1. Above(j) \subseteq Above(i)
      <4>1. \A k \in bitmap : k > j => k > i
        BY <1>0, <2>1, <2>2
      <4> QED
        BY <4>1
    <3>2. Cardinality(Above(j)) <= Cardinality(Above(i))
      BY <1>1, <3>1, FS_Subset
    <3>3. PICK x, y \in Nat : x = Cardinality(Above(j)) /\ y = Cardinality(Above(i))
      BY <1>1
    <3>4. Cardinality(Above(j)) < c
      BY <2>1, <3>2, <3>3
    <3> QED
      BY <3>4 DEF FirstBits
  <2>3. F \subseteq bitmap
    BY DEF FirstBits
  <2> HIDE DEF F
  <2> QED
    BY <2>2, <2>3
<1>3. ASSUME NEW i \in bitmap, Cardinality(Above(i)) < n PROVE i \in F
  <2>1. Cardinality(Above(i)) < c
    BY <1>1, <1>3
  <2> QED
    BY <2>1 DEF FirstBits
<1>4. F \subseteq bitmap
  BY DEF FirstBits
<1>5. FirstBits(F, n) = {i \in F : Cardinality({j \in F : j > i}) < n}
  BY DEF FirstBits
<1>6. FirstBits(bitmap, n) = {i \in bitmap : Cardinality(Above(i)) < n}
  BY DEF FirstBits
<1>7. \A i \in F : Cardinality({j \in F : j > i}) = Cardinality(Above(i))
  BY <1>2
<1> HIDE DEF F, Above
<1>8. FirstBits(F, n) = {i \in F : Cardinality(Above(i)) < n}
  BY <1>5, <1>7
<1>9. {i \in F : Cardinality(Above(i)) < n} = {i \in bitmap : Cardinality(Above(i)) < n}
  BY <1>3, <1>4
<1> QED
  BY <1>6, <1>8, <1>9 DEF F

\* A block of an extent of blocks.
LEMMA FullPlaces ==
  ASSUME NEW e \in BgExtents, NEW k \in 0 .. SizeOf(e) - 1
  PROVE  /\ PlaceIn(e, k) = e.blk_nr * FgPerBlk + k
         /\ PlaceIn(e, k) \in Places /\ UnitAt(PlaceIn(e, k)) \in UnitsOf(e)
<1>1. /\ SubblkCntPerBlk \in Nat \ {0} /\ FgPerSubblk \in Nat \ {0}
      /\ FgPerBlk \in Nat \ {0} /\ FgPerBlk = SubblkCntPerBlk * FgPerSubblk
      /\ BgBlkCnt \in Nat \ {0}
  BY Consts
<1>2. /\ e.is_suballoc = FALSE
      /\ e.blk_nr \in Nat /\ e.blk_cnt \in Nat \ {0}
      /\ e.blk_nr + e.blk_cnt <= BgBlkCnt
      /\ UnitsOf(e) = (e.blk_nr .. e.blk_nr + e.blk_cnt - 1) \X Subblks
      /\ SizeOf(e) = e.blk_cnt * FgPerBlk
  BY FullIsOf
<1>3. PlaceIn(e, k) = e.blk_nr * FgPerBlk + k
  BY <1>2 DEF PlaceIn
<1>4. PICK nr \in Nat : nr = e.blk_nr
  BY <1>2
<1>5. PICK cnt \in Nat \ {0} : cnt = e.blk_cnt
  BY <1>2
<1>6. cnt * FgPerBlk \in Nat
  BY <1>1
<1>7. k \in Nat /\ k < cnt * FgPerBlk
  BY <1>2, <1>5, <1>6
<1>8. PICK q \in Nat, o \in 0 .. FgPerBlk - 1 : k = FgPerBlk * q + o
  BY <1>1, <1>7, Quotient
<1>9. PICK t \in Nat, r \in 0 .. FgPerSubblk - 1 : o = FgPerSubblk * t + r
  <2>1. o \in Nat
    BY <1>1
  <2> QED
    BY <1>1, <2>1, Quotient
<1>10. q < cnt
  <2> SUFFICES ASSUME cnt <= q PROVE FALSE
    BY <1>5, <1>8
  <2>1. cnt * FgPerBlk <= q * FgPerBlk /\ q * FgPerBlk \in Nat
    BY <1>1, TimesGrows
  <2>2. FgPerBlk * q = q * FgPerBlk
    BY <1>1
  <2> QED
    BY <1>1, <1>6, <1>7, <1>8, <2>1, <2>2
<1>11. t < SubblkCntPerBlk
  <2> SUFFICES ASSUME SubblkCntPerBlk <= t PROVE FALSE
    BY <1>1, <1>9
  <2>1. SubblkCntPerBlk * FgPerSubblk <= t * FgPerSubblk /\ t * FgPerSubblk \in Nat
    BY <1>1, TimesGrows
  <2>2. FgPerSubblk * t = t * FgPerSubblk
    BY <1>1
  <2> QED
    BY <1>1, <1>9, <2>1, <2>2
<1> DEFINE bit == SubblkCntPerBlk - 1 - t
<1>12. bit \in Subblks /\ OffsetOfBit(bit) = FgPerSubblk * t
  <2>1. bit \in Subblks /\ SubblkCntPerBlk - 1 - bit = t
    BY <1>1, <1>11 DEF Subblks
  <2>2. OffsetOfBit(bit) = t * FgPerSubblk
    BY <2>1 DEF OffsetOfBit
  <2> QED
    BY <1>1, <2>1, <2>2
<1>13. nr + q \in 0 .. BgBlkCnt - 1 /\ nr + q \in nr .. nr + cnt - 1
  BY <1>1, <1>2, <1>4, <1>5, <1>10
<1> DEFINE p == (nr + q) * FgPerBlk + OffsetOfBit(bit) + r
<1> HIDE DEF bit
<1>14. p \in Places /\ UnitAt(p) = <<nr + q, bit>>
  BY <1>12, <1>13, PlaceOfUnit
<1>15. p = nr * FgPerBlk + k
  <2>1. (nr + q) * FgPerBlk = nr * FgPerBlk + FgPerBlk * q
    BY <1>1
  <2>2. nr * FgPerBlk \in Nat /\ FgPerBlk * q \in Nat /\ FgPerSubblk * t \in Nat
    BY <1>1
  <2> QED
    BY <1>1, <1>8, <1>9, <1>12, <2>1, <2>2
<1> HIDE DEF p
<1>16. PlaceIn(e, k) = p
  BY <1>3, <1>4, <1>15
<1>17. <<nr + q, bit>> \in UnitsOf(e)
  BY <1>2, <1>4, <1>5, <1>12, <1>13
<1> QED
  BY <1>3, <1>14, <1>16, <1>17

\* A block of an extent of subblocks.
LEMMA SubPlaces ==
  ASSUME NEW e \in SegmExtents, e.is_suballoc, NEW k \in 0 .. SizeOf(e) - 1
  PROVE  \E n \in Nat, r \in 0 .. FgPerSubblk - 1 :
           /\ n < Cardinality(e.blk_bitmap)
           /\ k = FgPerSubblk * n + r
           /\ (k \div FgPerSubblk) = n /\ (k % FgPerSubblk) = r
           /\ PlaceIn(e, k) = e.blk_nr * FgPerBlk + OffsetOfBit(NthBit(e.blk_bitmap, n)) + r
<1>1. FgPerSubblk \in Nat \ {0}
  BY Consts
<1>2. /\ e.blk_bitmap \in Bitmaps
      /\ SizeOf(e) = Cardinality(e.blk_bitmap) * FgPerSubblk
  BY SegmExtentIs DEF SizeOf, SubblkCnt
<1>3. PICK c \in Nat : c = Cardinality(e.blk_bitmap)
  BY <1>2, BitmapFacts
<1>4. c * FgPerSubblk \in Nat
  BY <1>1
<1>5. k \in Nat /\ k < c * FgPerSubblk
  BY <1>2, <1>3, <1>4
<1>6. PICK n \in Nat, r \in 0 .. FgPerSubblk - 1 : k = FgPerSubblk * n + r
  BY <1>1, <1>5, Quotient
<1>7. n < c
  <2> SUFFICES ASSUME c <= n PROVE FALSE
    OBVIOUS
  <2>1. c * FgPerSubblk <= n * FgPerSubblk /\ n * FgPerSubblk \in Nat
    BY <1>1, TimesGrows
  <2>2. FgPerSubblk * n = n * FgPerSubblk
    BY <1>1
  <2> QED
    BY <1>1, <1>4, <1>5, <1>6, <2>1, <2>2
<1>8. (k \div FgPerSubblk) = n /\ (k % FgPerSubblk) = r
  <2>1. ((FgPerSubblk * n + r) % FgPerSubblk) = r /\ ((FgPerSubblk * n + r) \div FgPerSubblk) = n
    BY <1>1, DivModUnique
  <2> QED
    BY <1>6, <2>1
<1>9. PlaceIn(e, k) = e.blk_nr * FgPerBlk
                        + OffsetOfBit(NthBit(e.blk_bitmap, k \div FgPerSubblk))
                        + (k % FgPerSubblk)
  BY DEF PlaceIn, NthBit
<1> QED
  BY <1>3, <1>6, <1>7, <1>8, <1>9

\* An offset in a subblock of an extent is at a place of that subblock.
LEMMA SubPlaceIs ==
  ASSUME NEW e \in SegmExtents, e.is_suballoc, NEW n \in Nat, n < Cardinality(e.blk_bitmap),
         NEW r \in 0 .. FgPerSubblk - 1, NEW p,
         p = e.blk_nr * FgPerBlk + OffsetOfBit(NthBit(e.blk_bitmap, n)) + r
  PROVE  p \in Places /\ UnitAt(p) = <<e.blk_nr, NthBit(e.blk_bitmap, n)>>
         /\ UnitAt(p) \in UnitsOf(e)
<1>1. /\ e.blk_nr \in 0 .. BgBlkCnt - 1
      /\ e.blk_bitmap \in Bitmaps /\ e.blk_bitmap # {}
      /\ e = SubExtent(e.blk_nr, e.blk_bitmap)
  BY SegmExtentIs
<1>2. UnitsOf(e) = {e.blk_nr} \X e.blk_bitmap
  BY <1>1, SubIsOf
<1>3. NthBit(e.blk_bitmap, n) \in e.blk_bitmap
  BY <1>1, NthBitFacts
<1>4. NthBit(e.blk_bitmap, n) \in Subblks
  BY <1>1, <1>3 DEF Bitmaps
<1>5. p \in Places /\ UnitAt(p) = <<e.blk_nr, NthBit(e.blk_bitmap, n)>>
  BY <1>1, <1>4, PlaceOfUnit
<1> QED
  BY <1>2, <1>3, <1>5

\* The blocks of an extent are all apart, in the subblocks that it has.
LEMMA ExtentPlaces ==
  ASSUME NEW e \in SegmExtents
  PROVE  /\ SizeOf(e) \in Nat
         /\ \A k \in 0 .. SizeOf(e) - 1 :
              PlaceIn(e, k) \in Places /\ UnitAt(PlaceIn(e, k)) \in UnitsOf(e)
         /\ \A k, l \in 0 .. SizeOf(e) - 1 : PlaceIn(e, k) = PlaceIn(e, l) => k = l
<1>1. CASE e \in BgExtents
  <2>1. e.blk_nr \in Nat /\ e.blk_cnt \in Nat /\ FgPerBlk \in Nat /\ SizeOf(e) = e.blk_cnt * FgPerBlk
    BY <1>1, FullIsOf, Consts
  <2>2. SizeOf(e) \in Nat /\ e.blk_nr * FgPerBlk \in Nat
    BY <2>1
  <2>3. \A k \in 0 .. SizeOf(e) - 1 :
          /\ PlaceIn(e, k) = e.blk_nr * FgPerBlk + k
          /\ PlaceIn(e, k) \in Places /\ UnitAt(PlaceIn(e, k)) \in UnitsOf(e)
    BY <1>1, FullPlaces
  <2>4. ASSUME NEW k \in 0 .. SizeOf(e) - 1, NEW l \in 0 .. SizeOf(e) - 1,
               PlaceIn(e, k) = PlaceIn(e, l)
        PROVE  k = l
    <3>1. e.blk_nr * FgPerBlk + k = e.blk_nr * FgPerBlk + l
      BY <2>3, <2>4
    <3> QED
      BY <2>2, <3>1
  <2> QED
    BY <2>2, <2>3, <2>4
<1>2. CASE e.is_suballoc
  <2>1. /\ e.blk_nr \in Nat /\ e.blk_bitmap \in Bitmaps
        /\ SizeOf(e) = Cardinality(e.blk_bitmap) * FgPerSubblk
        /\ FgPerSubblk \in Nat \ {0} /\ FgPerBlk \in Nat
    BY <1>2, SegmExtentIs, Consts DEF SizeOf, SubblkCnt
  <2>2. Cardinality(e.blk_bitmap) \in Nat
    BY <2>1, BitmapFacts
  <2>3. SizeOf(e) \in Nat
    BY <2>1, <2>2
  <2>4. ASSUME NEW k \in 0 .. SizeOf(e) - 1
        PROVE  PlaceIn(e, k) \in Places /\ UnitAt(PlaceIn(e, k)) \in UnitsOf(e)
    <3>1. PICK n \in Nat, r \in 0 .. FgPerSubblk - 1 :
             /\ n < Cardinality(e.blk_bitmap)
             /\ PlaceIn(e, k) = e.blk_nr * FgPerBlk + OffsetOfBit(NthBit(e.blk_bitmap, n)) + r
      BY <1>2, SubPlaces
    <3> QED
      BY <1>2, <3>1, SubPlaceIs
  <2>5. ASSUME NEW k \in 0 .. SizeOf(e) - 1, NEW l \in 0 .. SizeOf(e) - 1,
               PlaceIn(e, k) = PlaceIn(e, l)
        PROVE  k = l
    <3>1. PICK n \in Nat, r \in 0 .. FgPerSubblk - 1 :
             /\ n < Cardinality(e.blk_bitmap) /\ k = FgPerSubblk * n + r
             /\ PlaceIn(e, k) = e.blk_nr * FgPerBlk + OffsetOfBit(NthBit(e.blk_bitmap, n)) + r
      BY <1>2, SubPlaces
    <3>2. PICK m \in Nat, s \in 0 .. FgPerSubblk - 1 :
             /\ m < Cardinality(e.blk_bitmap) /\ l = FgPerSubblk * m + s
             /\ PlaceIn(e, l) = e.blk_nr * FgPerBlk + OffsetOfBit(NthBit(e.blk_bitmap, m)) + s
      BY <1>2, SubPlaces
    <3>3. /\ UnitAt(PlaceIn(e, k)) = <<e.blk_nr, NthBit(e.blk_bitmap, n)>>
          /\ UnitAt(PlaceIn(e, l)) = <<e.blk_nr, NthBit(e.blk_bitmap, m)>>
      BY <1>2, <3>1, <3>2, SubPlaceIs
    <3>4. NthBit(e.blk_bitmap, n) = NthBit(e.blk_bitmap, m)
      BY <2>5, <3>3
    <3>5. /\ Cardinality({j \in e.blk_bitmap : j > NthBit(e.blk_bitmap, n)}) = n
          /\ Cardinality({j \in e.blk_bitmap : j > NthBit(e.blk_bitmap, m)}) = m
      BY <2>1, <3>1, <3>2, NthBitFacts
    <3>6. n = m
      BY <3>4, <3>5
    <3>7. PICK a : a = NthBit(e.blk_bitmap, n)
      OBVIOUS
    <3>8. a \in Subblks
      BY <2>1, <3>1, <3>7, NthBitFacts DEF Bitmaps
    <3>9. OffsetOfBit(a) \in Nat
      <4>1. SubblkCntPerBlk - 1 - a \in Nat
        BY <3>8, Consts DEF Subblks
      <4> QED
        BY <2>1, <4>1 DEF OffsetOfBit
    <3>10. e.blk_nr * FgPerBlk + OffsetOfBit(a) + r = e.blk_nr * FgPerBlk + OffsetOfBit(a) + s
      BY <2>5, <3>1, <3>2, <3>6, <3>7
    <3>11. e.blk_nr * FgPerBlk \in Nat /\ r \in Nat /\ s \in Nat
      BY <2>1
    <3>12. r = s
      BY <3>9, <3>10, <3>11
    <3> QED
      BY <3>1, <3>2, <3>6, <3>12
  <2> QED
    BY <2>3, <2>4, <2>5
<1> QED
  BY <1>1, <1>2, SegmExtentIs

-----------------------------------------------------------------------------
(* The split of an extent, and the subblocks it has *)

\* The blocks or subblocks of an extent, and the fg blocks in each of them.
CntOf(e) == IF e.is_suballoc THEN SubblkCnt(e) ELSE e.blk_cnt
PartSz(e) == IF e.is_suballoc THEN FgPerSubblk ELSE FgPerBlk

\* The size of an extent is that of so many blocks or subblocks.
LEMMA SizeIsOfParts ==
  ASSUME NEW e \in SegmExtents
  PROVE  /\ CntOf(e) \in Nat \ {0} /\ PartSz(e) \in Nat \ {0}
         /\ SizeOf(e) = CntOf(e) * PartSz(e)
<1>1. FgPerBlk \in Nat \ {0} /\ FgPerSubblk \in Nat \ {0}
  BY Consts
<1>2. CASE e \in BgExtents
  BY <1>1, <1>2, FullIsOf DEF CntOf, PartSz
<1>3. CASE e.is_suballoc
  <2>1. e.blk_bitmap \in Bitmaps /\ e.blk_bitmap # {}
    BY <1>3, SegmExtentIs
  <2>2. Cardinality(e.blk_bitmap) \in Nat \ {0}
    BY <2>1, BitmapFacts, FS_EmptySet
  <2> QED
    BY <1>1, <1>3, <2>2 DEF CntOf, PartSz, SizeOf, SubblkCnt
<1> QED
  BY <1>2, <1>3, SegmExtentIs

\* Extent::split keeps the blocks at the start of an extent where they are.
LEMMA SplitKeepsStart ==
  ASSUME NEW e \in SegmExtents, NEW c \in Nat \ {0}, c <= CntOf(e)
  PROVE  /\ Split(e, c) \in SegmExtents
         /\ SizeOf(Split(e, c)) = c * PartSz(e)
         /\ UnitsOf(Split(e, c)) \subseteq UnitsOf(e)
         /\ \A k \in 0 .. SizeOf(Split(e, c)) - 1 : PlaceIn(Split(e, c), k) = PlaceIn(e, k)
<1> DEFINE s == Split(e, c)
<1>1. CASE e \in BgExtents
  <2>1. /\ e = FullExtent(e.blk_nr, e.blk_cnt)
        /\ e.is_suballoc = FALSE
        /\ e.blk_nr \in Nat /\ e.blk_cnt \in Nat \ {0} /\ e.blk_cnt <= MaxBlkCnt
        /\ e.blk_nr + e.blk_cnt <= BgBlkCnt
        /\ UnitsOf(e) = (e.blk_nr .. e.blk_nr + e.blk_cnt - 1) \X Subblks
    BY <1>1, FullIsOf
  <2>2. s = FullExtent(e.blk_nr, c) /\ c <= e.blk_cnt
    BY <2>1 DEF Split, FullExtent, CntOf
  <2>3. s \in BgExtents
    <3>1. /\ e.blk_nr \in BlkNrs /\ c \in BlkCnts /\ c # 0 /\ e.blk_nr + c <= MaxBlkNr + 1
          /\ e.blk_nr + c <= BgBlkCnt
      BY <2>1, <2>2, Consts, ExtentAssumption DEF BlkNrs, BlkCnts
    <3>2. s \in FullExtents
      BY <2>2, <3>1, MakeFullExtent
    <3>3. PastEndBlkNr(s) = e.blk_nr + c
      BY <2>2 DEF PastEndBlkNr, BlkSpan, FullExtent
    <3> QED
      BY <3>1, <3>2, <3>3 DEF BgExtents
  <2>4. s.is_suballoc = FALSE /\ s.blk_nr = e.blk_nr /\ s.blk_cnt = c
    BY <2>2 DEF FullExtent
  <2> HIDE DEF s
  <2>5. /\ SizeOf(s) = c * FgPerBlk
        /\ UnitsOf(s) = (e.blk_nr .. e.blk_nr + c - 1) \X Subblks
    BY <2>3, <2>4, FullIsOf
  <2>6. UnitsOf(s) \subseteq UnitsOf(e)
    <3>1. e.blk_nr .. e.blk_nr + c - 1 \subseteq e.blk_nr .. e.blk_nr + e.blk_cnt - 1
      BY <2>1, <2>2
    <3> QED
      BY <2>1, <2>5, <3>1
  <2>7. \A k \in 0 .. SizeOf(s) - 1 : PlaceIn(s, k) = PlaceIn(e, k)
    BY <2>1, <2>4 DEF PlaceIn
  <2>8. PartSz(e) = FgPerBlk
    BY <2>1 DEF PartSz
  <2> QED
    BY <2>3, <2>5, <2>6, <2>7, <2>8 DEF SegmExtents, s
<1>2. CASE e.is_suballoc
  <2>1. /\ e.blk_nr \in 0 .. BgBlkCnt - 1
        /\ e.blk_bitmap \in Bitmaps /\ e.blk_bitmap # {}
        /\ e = SubExtent(e.blk_nr, e.blk_bitmap)
        /\ UnitsOf(e) = {e.blk_nr} \X e.blk_bitmap
        /\ c <= Cardinality(e.blk_bitmap)
    BY <1>2, SegmExtentIs, SubIsOf DEF CntOf, SubblkCnt
  <2> DEFINE bits == FirstBits(e.blk_bitmap, c)
  <2>2. bits \subseteq e.blk_bitmap /\ bits \in Bitmaps /\ Cardinality(bits) = c /\ bits # {}
    <3>1. bits \subseteq e.blk_bitmap /\ bits \in Bitmaps /\ Cardinality(bits) = c
      BY <2>1, FirstBitsCount
    <3>2. Cardinality({}) = 0
      BY FS_EmptySet
    <3> QED
      BY <3>1, <3>2
  <2>3. s = SubExtent(e.blk_nr, bits)
    BY <1>2, <2>1 DEF Split, SubExtent
  <2>4. /\ s \in SegmExtents
        /\ s.is_suballoc /\ s.blk_nr = e.blk_nr /\ s.blk_bitmap = bits
        /\ UnitsOf(s) = {e.blk_nr} \X bits
        /\ SizeOf(s) = c * FgPerSubblk
    <3> HIDE DEF bits, s
    <3> QED
      BY <2>1, <2>2, <2>3, SubIsOf
  <2> HIDE DEF s
  <2>5. ASSUME NEW k \in 0 .. SizeOf(s) - 1 PROVE PlaceIn(s, k) = PlaceIn(e, k)
    <3>1. PICK n \in Nat, r \in 0 .. FgPerSubblk - 1 :
            /\ n < Cardinality(s.blk_bitmap)
            /\ (k \div FgPerSubblk) = n
      BY <2>4, <2>5, SubPlaces
    <3>2. n <= c /\ n + 1 <= c /\ n \in Nat /\ n + 1 \in Nat
      BY <2>2, <2>4, <3>1
    <3>3. /\ FirstBits(s.blk_bitmap, n) = FirstBits(e.blk_bitmap, n)
          /\ FirstBits(s.blk_bitmap, n + 1) = FirstBits(e.blk_bitmap, n + 1)
      BY <2>1, <2>4, <3>2, FirstOfFirst
    <3>4. PlaceIn(s, k) = s.blk_nr * FgPerBlk + OffsetOfBit(NthBit(s.blk_bitmap, n))
                            + (k % FgPerSubblk)
      BY <2>4, <3>1 DEF PlaceIn, NthBit
    <3>5. PlaceIn(e, k) = e.blk_nr * FgPerBlk + OffsetOfBit(NthBit(e.blk_bitmap, n))
                            + (k % FgPerSubblk)
      BY <1>2, <3>1 DEF PlaceIn, NthBit
    <3>6. NthBit(s.blk_bitmap, n) = NthBit(e.blk_bitmap, n)
      BY <3>3 DEF NthBit
    <3> QED
      BY <2>4, <3>4, <3>5, <3>6
  <2>6. PartSz(e) = FgPerSubblk
    BY <1>2 DEF PartSz
  <2> QED
    BY <2>1, <2>2, <2>4, <2>5, <2>6 DEF s
<1> QED
  BY <1>1, <1>2, SegmExtentIs

\* All the subblocks of bg hold as much as all its blocks.
LEMMA UnitsAreFinite ==
  /\ IsFiniteSet(Units) /\ Cardinality(Units) \in Nat
  /\ Cardinality(Units) * FgPerSubblk = BgBlkCnt * FgPerBlk
<1>1. /\ SubblkCntPerBlk \in Nat \ {0} /\ FgPerSubblk \in Nat \ {0}
      /\ FgPerBlk = SubblkCntPerBlk * FgPerSubblk
      /\ BgBlkCnt \in Nat \ {0}
  BY Consts
<1>2. IsFiniteSet(0 .. BgBlkCnt - 1) /\ Cardinality(0 .. BgBlkCnt - 1) = BgBlkCnt
  BY <1>1, FS_Interval
<1>3. IsFiniteSet(Subblks) /\ Cardinality(Subblks) = SubblkCntPerBlk
  BY <1>1, FS_Interval DEF Subblks
<1>4. IsFiniteSet(Units) /\ Cardinality(Units) = BgBlkCnt * SubblkCntPerBlk
  BY <1>2, <1>3, FS_Product DEF Units
<1>5. (BgBlkCnt * SubblkCntPerBlk) * FgPerSubblk = BgBlkCnt * (SubblkCntPerBlk * FgPerSubblk)
  BY <1>1
<1>6. BgBlkCnt * SubblkCntPerBlk \in Nat
  BY <1>1
<1> QED
  BY <1>1, <1>4, <1>5, <1>6

\* The subblocks of an extent are some of bg, and are of its size.
LEMMA UnitsOfExtent ==
  ASSUME NEW e \in SegmExtents
  PROVE  /\ UnitsOf(e) \subseteq Units /\ UnitsOf(e) # {}
         /\ IsFiniteSet(UnitsOf(e)) /\ Cardinality(UnitsOf(e)) \in Nat
         /\ Cardinality(UnitsOf(e)) * FgPerSubblk = SizeOf(e)
<1>1. /\ SubblkCntPerBlk \in Nat \ {0} /\ FgPerSubblk \in Nat \ {0}
      /\ FgPerBlk = SubblkCntPerBlk * FgPerSubblk
      /\ BgBlkCnt \in Nat \ {0}
  BY Consts
<1>2. CASE e \in BgExtents
  <2>1. /\ e.blk_nr \in Nat /\ e.blk_cnt \in Nat \ {0}
        /\ e.blk_nr + e.blk_cnt <= BgBlkCnt
        /\ UnitsOf(e) = (e.blk_nr .. e.blk_nr + e.blk_cnt - 1) \X Subblks
        /\ SizeOf(e) = e.blk_cnt * FgPerBlk
    BY <1>2, FullIsOf
  <2>2. PICK a \in Nat, b \in Nat \ {0} : a = e.blk_nr /\ b = e.blk_cnt
    BY <2>1
  <2>3. IsFiniteSet(a .. a + b - 1) /\ Cardinality(a .. a + b - 1) = b
    <3>1. a + b - 1 \in Int /\ ~ (a > a + b - 1) /\ (a + b - 1) - a + 1 = b
      OBVIOUS
    <3> QED
      BY <3>1, FS_Interval
  <2>4. IsFiniteSet(Subblks) /\ Cardinality(Subblks) = SubblkCntPerBlk /\ 0 \in Subblks
    BY <1>1, FS_Interval DEF Subblks
  <2>5. /\ IsFiniteSet((a .. a + b - 1) \X Subblks)
        /\ Cardinality((a .. a + b - 1) \X Subblks) = b * SubblkCntPerBlk
    BY <2>3, <2>4, FS_Product
  <2>6. (b * SubblkCntPerBlk) * FgPerSubblk = b * (SubblkCntPerBlk * FgPerSubblk)
        /\ b * SubblkCntPerBlk \in Nat
    BY <1>1
  <2>7. a .. a + b - 1 \subseteq 0 .. BgBlkCnt - 1 /\ a \in a .. a + b - 1
    BY <1>1, <2>1, <2>2
  <2>8. <<a, 0>> \in (a .. a + b - 1) \X Subblks
    BY <2>4, <2>7
  <2> QED
    BY <1>1, <2>1, <2>2, <2>5, <2>6, <2>7, <2>8 DEF Units
<1>3. CASE e.is_suballoc
  <2>1. /\ e.blk_nr \in 0 .. BgBlkCnt - 1
        /\ e.blk_bitmap \in Bitmaps /\ e.blk_bitmap # {}
        /\ e = SubExtent(e.blk_nr, e.blk_bitmap)
    BY <1>3, SegmExtentIs
  <2>2. UnitsOf(e) = {e.blk_nr} \X e.blk_bitmap
        /\ SizeOf(e) = Cardinality(e.blk_bitmap) * FgPerSubblk
    BY <2>1, SubIsOf
  <2>3. e.blk_bitmap \subseteq Subblks /\ IsFiniteSet(e.blk_bitmap)
        /\ Cardinality(e.blk_bitmap) \in Nat
    BY <2>1, BitmapFacts
  <2>4. IsFiniteSet({e.blk_nr}) /\ Cardinality({e.blk_nr}) = 1
    BY FS_Singleton
  <2>5. IsFiniteSet(UnitsOf(e)) /\ Cardinality(UnitsOf(e)) = 1 * Cardinality(e.blk_bitmap)
    BY <2>2, <2>3, <2>4, FS_Product
  <2>6. UnitsOf(e) \subseteq Units
    BY <2>1, <2>2, <2>3 DEF Units
  <2>7. UnitsOf(e) # {}
    <3>1. PICK i : i \in e.blk_bitmap
      BY <2>1
    <3>2. <<e.blk_nr, i>> \in UnitsOf(e)
      BY <2>2, <3>1
    <3> QED
      BY <3>2
  <2>8. PICK c \in Nat : c = Cardinality(e.blk_bitmap)
    BY <2>3
  <2>9. Cardinality(UnitsOf(e)) = c
    BY <2>5, <2>8
  <2> QED
    BY <2>2, <2>5, <2>6, <2>7, <2>8, <2>9
<1> QED
  BY <1>2, <1>3, SegmExtentIs

-----------------------------------------------------------------------------
(* Where the blocks of a segment are *)

\* The places of an extent, in the order of its content.
RowOf(e) == [k \in 1 .. SizeOf(e) |-> PlaceIn(e, k - 1)]

\* An extent has as many places as its size.
LEMMA RowOfExtent ==
  ASSUME NEW e \in SegmExtents
  PROVE  /\ IsRow(RowOf(e)) /\ Len(RowOf(e)) = SizeOf(e)
         /\ \A k \in 1 .. SizeOf(e) : RowOf(e)[k] = PlaceIn(e, k - 1)
<1>1. SizeOf(e) \in Nat
  BY ExtentPlaces
<1>2. \A k \in 1 .. SizeOf(e) : RowOf(e)[k] = PlaceIn(e, k - 1)
  BY DEF RowOf
<1>3. RowOf(e) = [k \in 1 .. SizeOf(e) |-> RowOf(e)[k]]
  BY DEF RowOf
<1> QED
  BY <1>1, <1>2, <1>3, RowFacts

\* The rows of places of the first extents, of one more each time.
PlaceSteps(f, exts, n) ==
  /\ f[0] = << >>
  /\ \A k \in 1 .. n : f[k] = f[k - 1] \o RowOf(exts[k])

\* The definition of PlacesOfAll, for a function g.
IsPlaces(g, exts, n) ==
  g = [i \in 0 .. n |->
         IF i = 0 THEN << >>
         ELSE g[i - 1] \o [k \in 1 .. SizeOf(exts[i]) |-> PlaceIn(exts[i], k - 1)]]

\* The rows that the recursive function makes are those of any such steps.
LEMMA PlacesFound ==
  ASSUME NEW exts, NEW n \in Nat, n = Len(exts), NEW f, PlaceSteps(f, exts, n)
  PROVE  PlacesOfAll(exts) = f[n]
<1>0. f[0] = << >> /\ \A k \in 1 .. n : f[k] = f[k - 1] \o RowOf(exts[k])
  BY DEF PlaceSteps
<1> DEFINE u == [k \in 0 .. n |-> f[k]]
<1>1. IsPlaces(u, exts, n)
  <2>1. \A k \in 0 .. n : u[k] = f[k]
    OBVIOUS
  <2>2. ASSUME NEW k \in 0 .. n
        PROVE  f[k] = IF k = 0 THEN << >> ELSE u[k - 1] \o RowOf(exts[k])
    <3>1. k # 0 => k \in 1 .. n /\ k - 1 \in 0 .. n
      OBVIOUS
    <3> HIDE DEF u
    <3> QED
      BY <1>0, <2>1, <3>1
  <2>3. u = [k \in 0 .. n |-> IF k = 0 THEN << >> ELSE u[k - 1] \o RowOf(exts[k])]
    BY <2>2
  <2> HIDE DEF u
  <2> QED
    BY <2>3 DEF IsPlaces, RowOf
<1> DEFINE g == CHOOSE g : IsPlaces(g, exts, n)
<1>2. IsPlaces(g, exts, n)
  <2> HIDE DEF u
  <2> QED
    BY <1>1
<1>3. PlacesOfAll(exts) = g[n]
  BY DEF PlacesOfAll, IsPlaces
<1> HIDE DEF g
<1>4. \A k \in 0 .. n : g[k] = IF k = 0 THEN << >> ELSE g[k - 1] \o RowOf(exts[k])
  <2>1. g = [k \in 0 .. n |-> IF k = 0 THEN << >> ELSE g[k - 1] \o RowOf(exts[k])]
    BY <1>2 DEF IsPlaces, RowOf
  <2> QED
    BY <2>1
<1>5. g[0] = f[0]
  <2>1. 0 \in 0 .. n
    OBVIOUS
  <2> QED
    BY <1>0, <1>4, <2>1
<1>6. ASSUME NEW k \in 1 .. n, g[k - 1] = f[k - 1] PROVE g[k] = f[k]
  <2>1. k \in 0 .. n /\ k # 0
    OBVIOUS
  <2>2. g[k] = g[k - 1] \o RowOf(exts[k])
    BY <1>4, <2>1
  <2> QED
    BY <1>0, <1>6, <2>2
<1>7. Alike(g, f, n)
  BY <1>5, <1>6 DEF Alike
<1>8. g[n] = f[n]
  BY <1>7, SameSteps
<1> QED
  BY <1>3, <1>8

\* There are such steps for any extents.
LEMMA PlaceStepsExist ==
  ASSUME NEW exts \in Seq(SegmExtents), NEW n \in Nat, n = Len(exts)
  PROVE  \E f : PlaceSteps(f, exts, n) /\ \A k \in 0 .. n : IsRow(f[k])
<1> DEFINE ss == [k \in 1 .. n |-> RowOf(exts[k])]
<1>1. \A k \in 1 .. n : exts[k] \in SegmExtents
  BY LenProperties
<1>2. \A k \in 1 .. n : ss[k] = RowOf(exts[k]) /\ IsRow(ss[k])
  BY <1>1, RowOfExtent
<1>3. ss = [k \in 1 .. n |-> ss[k]]
  OBVIOUS
<1> HIDE DEF ss
<1>4. PICK f : Flattens(f, ss, n)
  BY <1>2, <1>3, FlattenSteps
<1> QED
  BY <1>2, <1>4 DEF Flattens, PlaceSteps

\* The size of a segment is the number of its places.
LEMMA SizeIsLen ==
  ASSUME NEW exts \in Seq(SegmExtents)
  PROVE  /\ IsRow(PlacesOfAll(exts)) /\ Len(PlacesOfAll(exts)) = SizeOfAll(exts)
         /\ SizeOfAll(exts) \in Nat
<1> DEFINE n == Len(exts)
           c == [k \in 1 .. n |-> SizeOf(exts[k])]
<1>1. n \in Nat /\ \A k \in 1 .. n : exts[k] \in SegmExtents
  BY LenProperties
<1>2. PICK f : PlaceSteps(f, exts, n) /\ \A k \in 0 .. n : IsRow(f[k])
  BY <1>1, PlaceStepsExist
<1>3. PlacesOfAll(exts) = f[n]
  BY <1>1, <1>2, PlacesFound
<1> DEFINE w == [k \in 0 .. n |-> Len(f[k])]
           h == CHOOSE h : h = [k \in 0 .. n |->
                  IF k = 0 THEN 0 ELSE h[k - 1] + SizeOf(exts[k])]
<1>4. TotalSteps(w, n, c)
  <2>1. w[0] = 0
    <3>1. 0 \in 0 .. n /\ Len(f[0]) = 0
      BY <1>1, <1>2, ShortRows DEF PlaceSteps
    <3> HIDE DEF n
    <3> QED
      BY <3>1
  <2>2. ASSUME NEW k \in 1 .. n PROVE w[k] = w[k - 1] + c[k]
    <3>1. k \in 0 .. n /\ k - 1 \in 0 .. n
      BY <1>1
    <3>2. w[k] = Len(f[k]) /\ w[k - 1] = Len(f[k - 1]) /\ c[k] = SizeOf(exts[k])
      BY <3>1
    <3>3. IsRow(RowOf(exts[k])) /\ Len(RowOf(exts[k])) = SizeOf(exts[k])
      BY <1>1, RowOfExtent
    <3>4. f[k] = f[k - 1] \o RowOf(exts[k]) /\ IsRow(f[k - 1])
      BY <1>2, <3>1 DEF PlaceSteps
    <3>5. Len(f[k]) = Len(f[k - 1]) + Len(RowOf(exts[k]))
      BY <3>3, <3>4, ConcatRows
    <3> QED
      BY <3>2, <3>3, <3>5
  <2> HIDE DEF w, c, n
  <2> QED
    BY <2>1, <2>2 DEF TotalSteps
<1>5. TotalOf(n, c, n) = h[n]
  <2>1. ASSUME NEW k \in 0 .. n, k # 0 PROVE c[k] = SizeOf(exts[k])
    <3>1. k \in 1 .. n
      BY <1>1, <2>1
    <3> QED
      BY <3>1
  <2>2. \A u : [k \in 0 .. n |-> IF k = 0 THEN 0 ELSE u[k - 1] + c[k]] =
               [k \in 0 .. n |-> IF k = 0 THEN 0 ELSE u[k - 1] + SizeOf(exts[k])]
    <3> HIDE DEF c, n
    <3> QED
      BY <2>1
  <2> HIDE DEF c, n
  <2> QED
    BY <2>2 DEF TotalOf, IsTotal
<1>6. SizeOfAll(exts) = h[n]
  BY DEF SizeOfAll
<1>7. w[n] = Len(f[n])
  BY <1>1
<1> HIDE DEF c, w, h, n
<1>8. TotalOf(n, c, n) = w[n]
  <2>1. n \in 0 .. n
    BY <1>1
  <2> QED
    BY <1>1, <1>4, <2>1, TotalFound
<1>9. IsRow(f[n])
  BY <1>1, <1>2
<1> QED
  BY <1>3, <1>5, <1>6, <1>7, <1>8, <1>9, RowLen

\* A segment without extents has no places.
LEMMA PlacesOfEmpty == PlacesOfAll(<< >>) = << >> /\ SizeOfAll(<< >>) = 0
<1>1. << >> \in Seq(SegmExtents) /\ Len(<< >>) = 0 /\ 0 \in Nat
  OBVIOUS
<1>2. PICK f : PlaceSteps(f, << >>, 0)
  BY <1>1, PlaceStepsExist
<1>3. PlacesOfAll(<< >>) = << >>
  BY <1>1, <1>2, PlacesFound DEF PlaceSteps
<1> QED
  BY <1>1, <1>3, SizeIsLen

\* An extent more has its places after those of the others.
LEMMA PlacesOfAppend ==
  ASSUME NEW s \in Seq(SegmExtents), NEW e \in SegmExtents
  PROVE  /\ PlacesOfAll(Append(s, e)) = PlacesOfAll(s) \o RowOf(e)
         /\ SizeOfAll(Append(s, e)) = SizeOfAll(s) + SizeOf(e)
<1> DEFINE t == Append(s, e)
<1>1. PICK n \in Nat : n = Len(s)
  BY LenProperties
<1>2. /\ t \in Seq(SegmExtents) /\ Len(t) = n + 1 /\ t[n + 1] = e
      /\ \A k \in 1 .. n : t[k] = s[k]
  BY <1>1, AppendProperties
<1> HIDE DEF t
<1>3. PICK f : PlaceSteps(f, t, n + 1) /\ \A k \in 0 .. n + 1 : IsRow(f[k])
  BY <1>1, <1>2, PlaceStepsExist
<1>4. PlaceSteps(f, s, n)
  <2>1. \A k \in 1 .. n : k \in 1 .. n + 1
    OBVIOUS
  <2> QED
    BY <1>2, <1>3, <2>1 DEF PlaceSteps
<1>5. PlacesOfAll(s) = f[n] /\ PlacesOfAll(t) = f[n + 1]
  BY <1>1, <1>2, <1>3, <1>4, PlacesFound
<1>6. f[n + 1] = f[n] \o RowOf(e)
  <2>1. n + 1 \in 1 .. n + 1 /\ (n + 1) - 1 = n
    OBVIOUS
  <2> QED
    BY <1>2, <1>3, <2>1 DEF PlaceSteps
<1>7. IsRow(PlacesOfAll(s)) /\ IsRow(RowOf(e)) /\ Len(RowOf(e)) = SizeOf(e)
  BY SizeIsLen, RowOfExtent
<1>8. Len(PlacesOfAll(t)) = Len(PlacesOfAll(s)) + Len(RowOf(e))
  BY <1>5, <1>6, <1>7, ConcatRows
<1> QED
  BY <1>2, <1>5, <1>6, <1>7, <1>8, SizeIsLen DEF t

\* The subblocks of a segment, extent by extent.
LEMMA UnitsOfRow ==
  ASSUME NEW s \in Seq(SegmExtents)
  PROVE  /\ UnitsOfAll(s) = UNION {UnitsOf(s[i]) : i \in 1 .. Len(s)}
         /\ DOMAIN s = 1 .. Len(s) /\ Len(s) \in Nat
         /\ \A i \in 1 .. Len(s) : s[i] \in SegmExtents
         /\ UnitsOfAll(s) \subseteq Units
<1>1. DOMAIN s = 1 .. Len(s) /\ Len(s) \in Nat /\ \A i \in 1 .. Len(s) : s[i] \in SegmExtents
  BY LenProperties
<1>2. Range(s) = {s[i] : i \in 1 .. Len(s)}
  BY <1>1 DEF Range
<1>3. UnitsOfAll(s) = UNION {UnitsOf(s[i]) : i \in 1 .. Len(s)}
  BY <1>2 DEF UnitsOfAll
<1>4. \A i \in 1 .. Len(s) : UnitsOf(s[i]) \subseteq Units
  BY <1>1, UnitsOfExtent
<1> QED
  BY <1>1, <1>3, <1>4

\* One extent more has its subblocks more.
LEMMA UnitsOfAppend ==
  ASSUME NEW s \in Seq(SegmExtents), NEW e \in SegmExtents
  PROVE  UnitsOfAll(Append(s, e)) = UnitsOfAll(s) \cup UnitsOf(e)
<1>1. PICK n \in Nat : n = Len(s)
  BY LenProperties
<1>2. PICK t : t = Append(s, e)
  OBVIOUS
<1>3. /\ t \in Seq(SegmExtents) /\ Len(t) = n + 1 /\ t[n + 1] = e
      /\ \A k \in 1 .. n : t[k] = s[k]
  BY <1>1, <1>2, AppendProperties
<1>4. /\ UnitsOfAll(t) = UNION {UnitsOf(t[i]) : i \in 1 .. n + 1}
      /\ UnitsOfAll(s) = UNION {UnitsOf(s[i]) : i \in 1 .. n}
  BY <1>1, <1>3, UnitsOfRow
<1>5. 1 .. n + 1 = (1 .. n) \cup {n + 1}
  OBVIOUS
<1>6. UNION {UnitsOf(t[i]) : i \in 1 .. n + 1} = (UNION {UnitsOf(s[i]) : i \in 1 .. n}) \cup UnitsOf(e)
  BY <1>3, <1>5
<1> QED
  BY <1>2, <1>4, <1>6

\* A segment without extents has no subblocks.
LEMMA NoUnits == UnitsOfAll(<< >>) = {}
<1>1. << >> \in Seq(SegmExtents) /\ Len(<< >>) = 0 /\ 1 .. 0 = {}
  OBVIOUS
<1>2. UnitsOfAll(<< >>) = UNION {UnitsOf(<< >>[i]) : i \in 1 .. 0}
  BY <1>1, UnitsOfRow
<1>3. {UnitsOf(<< >>[i]) : i \in 1 .. 0} = {}
  BY <1>1
<1> QED
  BY <1>2, <1>3

\* Two rows of extents: the sizes add up and the first places are the first ones.
LEMMA PlacesOfConcat ==
  ASSUME NEW s \in Seq(SegmExtents), NEW t \in Seq(SegmExtents)
  PROVE  /\ s \o t \in Seq(SegmExtents)
         /\ SizeOfAll(s \o t) = SizeOfAll(s) + SizeOfAll(t)
         /\ \A i \in 1 .. SizeOfAll(s) : PlacesOfAll(s \o t)[i] = PlacesOfAll(s)[i]
         /\ UnitsOfAll(s \o t) = UnitsOfAll(s) \cup UnitsOfAll(t)
<1> DEFINE P(k) == SubSeq(t, 1, k)
           Right(k) ==
             /\ P(k) \in Seq(SegmExtents) /\ s \o P(k) \in Seq(SegmExtents)
             /\ SizeOfAll(s \o P(k)) = SizeOfAll(s) + SizeOfAll(P(k))
             /\ \A i \in 1 .. SizeOfAll(s) : PlacesOfAll(s \o P(k))[i] = PlacesOfAll(s)[i]
             /\ UnitsOfAll(s \o P(k)) = UnitsOfAll(s) \cup UnitsOfAll(P(k))
           n == Len(t)
           S == {k \in 0 .. n : Right(k)}
<1>1. n \in Nat /\ IsRow(t) /\ \A k \in 1 .. n : t[k] \in SegmExtents
  BY SeqIsRow, UnitsOfRow
<1>2. P(0) = << >> /\ P(n) = t
  BY SubSeqFull, SubSeqEmpty
<1>3. SizeOfAll(s) \in Nat
  BY SizeIsLen
<1>4. Right(0)
  <2>1. s \o << >> = s /\ << >> \in Seq(SegmExtents)
    OBVIOUS
  <2> HIDE DEF P
  <2>2. P(0) = << >> /\ s \o P(0) = s
    BY <1>2, <2>1
  <2>3. SizeOfAll(s \o P(0)) = SizeOfAll(s) + SizeOfAll(P(0))
    <3>1. SizeOfAll(s \o P(0)) = SizeOfAll(s)
      BY <2>2
    <3>2. SizeOfAll(P(0)) = 0
      BY <2>2, PlacesOfEmpty
    <3> QED
      BY <1>3, <3>1, <3>2
  <2>4. UnitsOfAll(s \o P(0)) = UnitsOfAll(s) \cup UnitsOfAll(P(0))
    BY <2>2, NoUnits
  <2> QED
    BY <2>1, <2>2, <2>3, <2>4
<1>5. ASSUME NEW k \in 1 .. n, Right(k - 1) PROVE Right(k)
  <2>1. P(k) = Append(P(k - 1), t[k])
    BY <1>1, AppendOfSubSeq
  <2>2. PICK p, e : p = P(k - 1) /\ e = t[k]
    OBVIOUS
  <2> HIDE DEF P
  <2>3. p \in Seq(SegmExtents) /\ e \in SegmExtents /\ s \o p \in Seq(SegmExtents)
    BY <1>1, <1>5, <2>2
  <2>4. PICK a : a = s \o p
    OBVIOUS
  <2>5. s \o P(k) = Append(a, e) /\ P(k) = Append(p, e)
    <3>1. s \o Append(p, e) = Append(s \o p, e)
      BY <2>3
    <3> QED
      BY <2>1, <2>2, <2>4, <3>1
  <2>6. a \in Seq(SegmExtents)
    BY <2>3, <2>4
  <2>7. Append(a, e) \in Seq(SegmExtents) /\ Append(p, e) \in Seq(SegmExtents)
    BY <2>3, <2>6, AppendProperties
  <2>8. /\ SizeOfAll(Append(a, e)) = SizeOfAll(a) + SizeOf(e)
        /\ SizeOfAll(Append(p, e)) = SizeOfAll(p) + SizeOf(e)
        /\ PlacesOfAll(Append(a, e)) = PlacesOfAll(a) \o RowOf(e)
    BY <2>3, <2>6, PlacesOfAppend
  <2>9. SizeOfAll(a) = SizeOfAll(s) + SizeOfAll(p) /\ SizeOfAll(p) \in Nat /\ SizeOf(e) \in Nat
    BY <1>5, <2>2, <2>3, <2>4, SizeIsLen, ExtentPlaces
  <2>10. SizeOfAll(Append(a, e)) = SizeOfAll(s) + SizeOfAll(Append(p, e))
    BY <1>3, <2>8, <2>9
  <2>11. ASSUME NEW i \in 1 .. SizeOfAll(s)
         PROVE  PlacesOfAll(Append(a, e))[i] = PlacesOfAll(s)[i]
    <3>1. PICK x, y : x = PlacesOfAll(a) /\ y = RowOf(e)
      OBVIOUS
    <3>2. IsRow(x) /\ IsRow(y) /\ Len(x) = SizeOfAll(a)
      BY <2>3, <2>6, <3>1, SizeIsLen, RowOfExtent
    <3>3. i \in 1 .. Len(x)
      BY <1>3, <2>9, <3>2
    <3>4. (x \o y)[i] = x[i]
      BY <3>2, <3>3, ConcatRows
    <3>5. x[i] = PlacesOfAll(s)[i]
      BY <1>5, <2>2, <2>4, <3>1
    <3> QED
      BY <2>8, <3>1, <3>4, <3>5
  <2>12. UnitsOfAll(Append(a, e)) = UnitsOfAll(s) \cup UnitsOfAll(Append(p, e))
    <3>1. UnitsOfAll(a) = UnitsOfAll(s) \cup UnitsOfAll(p)
      BY <1>5, <2>2, <2>4
    <3>2. /\ UnitsOfAll(Append(a, e)) = UnitsOfAll(a) \cup UnitsOf(e)
          /\ UnitsOfAll(Append(p, e)) = UnitsOfAll(p) \cup UnitsOf(e)
      BY <2>3, <2>6, UnitsOfAppend
    <3> QED
      BY <3>1, <3>2
  <2> QED
    BY <2>5, <2>7, <2>10, <2>11, <2>12
<1> HIDE DEF Right, P
<1>6. 0 \in S
  BY <1>1, <1>4
<1>7. ASSUME NEW k \in 1 .. n, k - 1 \in S PROVE k \in S
  BY <1>1, <1>5, <1>7
<1> HIDE DEF S
<1>8. n \in S
  <2>1. n \in Nat /\ n \in 0 .. n
    BY <1>1
  <2> HIDE DEF n
  <2> QED
    BY <1>6, <1>7, <2>1, AllUpTo
<1>9. Right(n)
  BY <1>8 DEF S
<1> QED
  BY <1>2, <1>9 DEF Right

-----------------------------------------------------------------------------
(* A segment of extents apart *)

\* No two blocks of it are at the same place, and it has as many as fit.
PlacesApart(s) ==
  LET places == PlacesOfAll(s)
      size == SizeOfAll(s)
  IN  /\ \A i \in 1 .. size : places[i] \in Places /\ UnitAt(places[i]) \in UnitsOfAll(s)
      /\ \A i, j \in 1 .. size : places[i] = places[j] => i = j
      /\ IsFiniteSet(UnitsOfAll(s)) /\ Cardinality(UnitsOfAll(s)) \in Nat
      /\ Cardinality(UnitsOfAll(s)) * FgPerSubblk = size

\* Places are apart if those of an extent of other subblocks come after.
LEMMA AppendApart ==
  ASSUME NEW s \in Seq(SegmExtents), NEW e \in SegmExtents, PlacesApart(s),
         UnitsOf(e) \cap UnitsOfAll(s) = {}
  PROVE  PlacesApart(Append(s, e))
<1>1. PICK x, y, n, m : /\ x = PlacesOfAll(s) /\ y = RowOf(e)
                        /\ n = SizeOfAll(s) /\ m = SizeOf(e)
  OBVIOUS
<1>2. IsRow(x) /\ IsRow(y) /\ Len(x) = n /\ Len(y) = m /\ n \in Nat /\ m \in Nat
  BY <1>1, SizeIsLen, RowOfExtent, ExtentPlaces
<1>3. PICK t : t = Append(s, e)
  OBVIOUS
<1>4. PlacesOfAll(t) = x \o y /\ SizeOfAll(t) = n + m /\ UnitsOfAll(t) = UnitsOfAll(s) \cup UnitsOf(e)
  BY <1>1, <1>3, PlacesOfAppend, UnitsOfAppend
<1>5. /\ \A i \in 1 .. n : (x \o y)[i] = x[i]
      /\ \A i \in 1 .. m : (x \o y)[n + i] = y[i]
  BY <1>2, ConcatRows
<1>6. /\ \A i \in 1 .. n : x[i] \in Places /\ UnitAt(x[i]) \in UnitsOfAll(s)
      /\ \A i, j \in 1 .. n : x[i] = x[j] => i = j
      /\ IsFiniteSet(UnitsOfAll(s)) /\ Cardinality(UnitsOfAll(s)) \in Nat
      /\ Cardinality(UnitsOfAll(s)) * FgPerSubblk = n
  BY <1>1 DEF PlacesApart
<1>7. /\ \A i \in 1 .. m : y[i] = PlaceIn(e, i - 1) /\ i - 1 \in 0 .. m - 1
      /\ \A k \in 0 .. m - 1 : PlaceIn(e, k) \in Places /\ UnitAt(PlaceIn(e, k)) \in UnitsOf(e)
      /\ \A k, l \in 0 .. m - 1 : PlaceIn(e, k) = PlaceIn(e, l) => k = l
  BY <1>1, <1>2, RowOfExtent, ExtentPlaces
<1>8. /\ \A i \in 1 .. m : y[i] \in Places /\ UnitAt(y[i]) \in UnitsOf(e)
      /\ \A i, j \in 1 .. m : y[i] = y[j] => i = j
  <2>1. \A i \in 1 .. m : y[i] \in Places /\ UnitAt(y[i]) \in UnitsOf(e)
    BY <1>7
  <2>2. ASSUME NEW i \in 1 .. m, NEW j \in 1 .. m, y[i] = y[j] PROVE i = j
    <3>1. i - 1 = j - 1
      BY <1>7, <2>2
    <3> QED
      BY <3>1
  <2> QED
    BY <2>1, <2>2
<1>9. \A i \in 1 .. n + m : i \in 1 .. n \/ (i - n \in 1 .. m /\ i = n + (i - n))
  BY <1>2
<1>10. PICK z : z = x \o y
  OBVIOUS
<1>11. /\ \A i \in 1 .. n : z[i] = x[i]
       /\ \A i \in 1 .. m : z[n + i] = y[i]
  BY <1>5, <1>10
<1>12. ASSUME NEW i \in 1 .. n + m
       PROVE  /\ z[i] \in Places
              /\ i \in 1 .. n => UnitAt(z[i]) \in UnitsOfAll(s)
              /\ i \notin 1 .. n => UnitAt(z[i]) \in UnitsOf(e)
  <2>1. CASE i \in 1 .. n
    BY <1>6, <1>11, <2>1
  <2>2. CASE i \notin 1 .. n
    <3>1. i - n \in 1 .. m /\ z[n + (i - n)] = y[i - n] /\ i = n + (i - n)
      BY <1>9, <1>11, <2>2
    <3>2. z[i] = y[i - n]
      BY <3>1
    <3> QED
      BY <1>8, <2>2, <3>1, <3>2
  <2> QED
    BY <2>1, <2>2
<1>13. ASSUME NEW i \in 1 .. n + m, NEW j \in 1 .. n + m, z[i] = z[j] PROVE i = j
  <2>1. i \in 1 .. n <=> j \in 1 .. n
    <3>1. UnitAt(z[i]) = UnitAt(z[j])
      BY <1>13
    <3> QED
      BY <1>12, <3>1
  <2>2. CASE i \in 1 .. n
    BY <1>6, <1>11, <1>13, <2>1, <2>2
  <2>3. CASE i \notin 1 .. n
    <3>1. i - n \in 1 .. m /\ z[n + (i - n)] = y[i - n] /\ i = n + (i - n)
      BY <1>9, <1>11, <2>3
    <3>2. j - n \in 1 .. m /\ z[n + (j - n)] = y[j - n] /\ j = n + (j - n)
      BY <1>9, <1>11, <2>1, <2>3
    <3>3. y[i - n] = y[j - n]
      BY <1>13, <3>1, <3>2
    <3>4. i - n = j - n
      BY <1>8, <3>1, <3>2, <3>3
    <3> QED
      BY <3>1, <3>2, <3>4
  <2> QED
    BY <2>2, <2>3
<1>14. /\ IsFiniteSet(UnitsOfAll(s) \cup UnitsOf(e))
       /\ Cardinality(UnitsOfAll(s) \cup UnitsOf(e))
            = Cardinality(UnitsOfAll(s)) + Cardinality(UnitsOf(e))
  <2>1. IsFiniteSet(UnitsOf(e))
    BY UnitsOfExtent
  <2>2. UnitsOfAll(s) \cap UnitsOf(e) = {}
    OBVIOUS
  <2>3. PICK a \in Nat, b \in Nat : a = Cardinality(UnitsOfAll(s)) /\ b = Cardinality(UnitsOf(e))
    BY <1>6, UnitsOfExtent
  <2>4. Cardinality(UnitsOfAll(s) \cap UnitsOf(e)) = 0
    BY <2>2, FS_EmptySet
  <2>5. /\ IsFiniteSet(UnitsOfAll(s) \cup UnitsOf(e))
        /\ Cardinality(UnitsOfAll(s) \cup UnitsOf(e))
             = Cardinality(UnitsOfAll(s)) + Cardinality(UnitsOf(e))
                 - Cardinality(UnitsOfAll(s) \cap UnitsOf(e))
    BY <1>6, <2>1, FS_Union
  <2> QED
    BY <2>3, <2>4, <2>5
<1>15. PICK a \in Nat, b \in Nat : a = Cardinality(UnitsOfAll(s)) /\ b = Cardinality(UnitsOf(e))
  BY <1>6, UnitsOfExtent
<1>16. a * FgPerSubblk = n /\ b * FgPerSubblk = m /\ (a + b) * FgPerSubblk = n + m
  <2>1. a * FgPerSubblk = n /\ b * FgPerSubblk = m
    BY <1>1, <1>6, <1>15, UnitsOfExtent
  <2>2. (a + b) * FgPerSubblk = a * FgPerSubblk + b * FgPerSubblk
    BY Consts
  <2> QED
    BY <2>1, <2>2
<1>17. \A i \in 1 .. n + m : z[i] \in Places /\ UnitAt(z[i]) \in UnitsOfAll(t)
  BY <1>4, <1>12
<1>18. PlacesApart(t)
  <2>1. PlacesOfAll(t) = z /\ SizeOfAll(t) = n + m
    BY <1>4, <1>10
  <2>2. /\ IsFiniteSet(UnitsOfAll(t)) /\ Cardinality(UnitsOfAll(t)) = a + b
        /\ Cardinality(UnitsOfAll(t)) \in Nat
    BY <1>4, <1>14, <1>15
  <2> QED
    BY <1>13, <1>16, <1>17, <2>1, <2>2 DEF PlacesApart
<1> QED
  BY <1>3, <1>18

\* No places are apart.
LEMMA EmptyApart == PlacesApart(<< >>)
<1>1. /\ SizeOfAll(<< >>) = 0 /\ UnitsOfAll(<< >>) = {}
      /\ IsFiniteSet({}) /\ Cardinality({}) = 0
  BY PlacesOfEmpty, NoUnits, FS_EmptySet
<1>2. 0 * FgPerSubblk = 0
  BY Consts
<1>3. PICK p, n, u : p = PlacesOfAll(<< >>) /\ n = SizeOfAll(<< >>) /\ u = UnitsOfAll(<< >>)
  OBVIOUS
<1>4. n = 0 /\ u = {} /\ 1 .. n = {}
  BY <1>1, <1>3
<1>5. /\ \A i \in 1 .. n : p[i] \in Places /\ UnitAt(p[i]) \in u
      /\ \A i, j \in 1 .. n : p[i] = p[j] => i = j
  BY <1>4
<1>6. IsFiniteSet(u) /\ Cardinality(u) = 0 /\ Cardinality(u) * FgPerSubblk = n
  BY <1>1, <1>2, <1>4
<1>7. Cardinality(u) \in Nat
  BY <1>6
<1> QED
  BY <1>3, <1>5, <1>6, <1>7 DEF PlacesApart

\* The places of a segment of extents apart.
LEMMA ScatteredApart ==
  ASSUME NEW s \in Seq(SegmExtents), Scattered(s)
  PROVE  PlacesApart(s)
<1> DEFINE P(k) == SubSeq(s, 1, k)
           Right(k) == P(k) \in Seq(SegmExtents) /\ PlacesApart(P(k))
           n == Len(s)
           S == {k \in 0 .. n : Right(k)}
<1>1. n \in Nat /\ IsRow(s) /\ DOMAIN s = 1 .. n /\ \A k \in 1 .. n : s[k] \in SegmExtents
  BY SeqIsRow, UnitsOfRow
<1>2. P(0) = << >> /\ P(n) = s
  BY SubSeqFull, SubSeqEmpty
<1>3. 0 \in S
  <2>1. << >> \in Seq(SegmExtents)
    OBVIOUS
  <2> HIDE DEF P
  <2>2. Right(0)
    BY <1>2, <2>1, EmptyApart
  <2> HIDE DEF Right
  <2> QED
    BY <1>1, <2>2
<1>4. ASSUME NEW k \in 1 .. n, k - 1 \in S PROVE k \in S
  <2>1. P(k) = Append(P(k - 1), s[k])
    BY <1>1, AppendOfSubSeq
  <2>2. PICK p, e : p = P(k - 1) /\ e = s[k]
    OBVIOUS
  <2>3. k - 1 \in Nat /\ k - 1 <= n /\ k - 1 \in Int /\ 1 \in Int
    BY <1>1
  <2>4. Len(p) = k - 1 /\ \A i \in 1 .. k - 1 : p[i] = s[i]
    <3>1. /\ \A i \in 1 .. k - 1 : i \in 1 .. n
          /\ Len(SubSeq(s, 1, k - 1)) = k - 1
          /\ \A i \in 1 .. k - 1 : SubSeq(s, 1, k - 1)[i] = s[i]
      <4>1. Len(SubSeq(s, 1, k - 1)) = k - 1
        BY <1>1, AppendOfSubSeq
      <4>2. \A i \in 1 .. k - 1 : SubSeq(s, 1, k - 1)[i] = s[i]
        BY <1>1, <2>3, SubSeqProperties
      <4>3. \A i \in 1 .. k - 1 : i \in 1 .. n
        BY <1>1
      <4> QED
        BY <4>1, <4>2, <4>3
    <3> QED
      BY <2>2, <3>1
  <2> HIDE DEF P
  <2>5. p \in Seq(SegmExtents) /\ PlacesApart(p) /\ e \in SegmExtents
    BY <1>1, <1>4, <2>2
  <2>6. UnitsOf(e) \cap UnitsOfAll(p) = {}
    <3>1. UnitsOfAll(p) = UNION {UnitsOf(p[i]) : i \in 1 .. k - 1}
      BY <2>4, <2>5, UnitsOfRow
    <3>2. ASSUME NEW i \in 1 .. k - 1 PROVE UnitsOf(e) \cap UnitsOf(p[i]) = {}
      <4>1. i \in 1 .. n /\ k \in 1 .. n /\ i # k
        BY <1>1
      <4>2. UnitsOf(s[k]) \cap UnitsOf(s[i]) = {}
        BY <1>1, <4>1 DEF Scattered
      <4> QED
        BY <2>2, <2>4, <4>2
    <3> QED
      BY <3>1, <3>2
  <2>7. PlacesApart(Append(p, e)) /\ Append(p, e) \in Seq(SegmExtents)
    BY <2>5, <2>6, AppendApart, AppendProperties
  <2>8. Right(k)
    BY <2>1, <2>2, <2>7
  <2> HIDE DEF Right
  <2> QED
    BY <1>1, <2>8
<1> HIDE DEF S
<1>5. n \in S
  <2>1. n \in Nat /\ n \in 0 .. n
    BY <1>1
  <2> HIDE DEF n
  <2> QED
    BY <1>3, <1>4, <2>1, AllUpTo
<1>6. Right(n)
  BY <1>5 DEF S
<1> HIDE DEF P
<1> QED
  BY <1>2, <1>6

\* No segment has more blocks than bg.
LEMMA SizeInBg ==
  ASSUME NEW s \in Seq(SegmExtents), Scattered(s)
  PROVE  SizeOfAll(s) <= BgBlkCnt * FgPerBlk
<1>1. /\ IsFiniteSet(Units) /\ UnitsOfAll(s) \subseteq Units
      /\ Cardinality(Units) * FgPerSubblk = BgBlkCnt * FgPerBlk
      /\ Cardinality(UnitsOfAll(s)) * FgPerSubblk = SizeOfAll(s)
  BY UnitsAreFinite, UnitsOfRow, ScatteredApart DEF PlacesApart
<1>2. Cardinality(UnitsOfAll(s)) <= Cardinality(Units)
  BY <1>1, FS_Subset
<1>3. PICK a, b \in Nat : a = Cardinality(UnitsOfAll(s)) /\ b = Cardinality(Units)
  BY UnitsAreFinite, ScatteredApart DEF PlacesApart
<1>4. a * FgPerSubblk <= b * FgPerSubblk
  BY <1>2, <1>3, Consts, TimesGrows
<1> QED
  BY <1>1, <1>3, <1>4

\* One row after another, in other subblocks.
LEMMA ConcatScattered ==
  ASSUME NEW s \in Seq(SegmExtents), NEW t \in Seq(SegmExtents), Scattered(s), Scattered(t),
         UnitsOfAll(s) \cap UnitsOfAll(t) = {}
  PROVE  Scattered(s \o t)
<1>1. PICK n, m \in Nat : n = Len(s) /\ m = Len(t)
  BY UnitsOfRow
<1>2. /\ DOMAIN s = 1 .. n /\ DOMAIN t = 1 .. m
      /\ UnitsOfAll(s) = UNION {UnitsOf(s[i]) : i \in 1 .. n}
      /\ UnitsOfAll(t) = UNION {UnitsOf(t[i]) : i \in 1 .. m}
  BY <1>1, UnitsOfRow
<1>3. /\ Len(s \o t) = n + m
      /\ \A i \in 1 .. n : (s \o t)[i] = s[i]
      /\ \A i \in 1 .. m : (s \o t)[n + i] = t[i]
      /\ IsRow(s \o t)
  BY <1>1, SeqIsRow, ConcatRows
<1>4. PICK u : u = s \o t
  OBVIOUS
<1>5. DOMAIN u = 1 .. n + m
  BY <1>3, <1>4, RowLen
<1>6. ASSUME NEW i \in 1 .. n + m, i \notin 1 .. n
      PROVE  i - n \in 1 .. m /\ u[i] = t[i - n]
  <2>1. i - n \in 1 .. m /\ i = n + (i - n)
    BY <1>6
  <2>2. u[n + (i - n)] = t[i - n]
    BY <1>3, <1>4, <2>1
  <2> QED
    BY <2>1, <2>2
<1>7. \A i \in 1 .. n : u[i] = s[i] /\ UnitsOf(u[i]) \subseteq UnitsOfAll(s)
  BY <1>2, <1>3, <1>4
<1>8. ASSUME NEW i \in 1 .. n + m, i \notin 1 .. n
      PROVE  UnitsOf(u[i]) \subseteq UnitsOfAll(t)
  BY <1>2, <1>6, <1>8
<1>9. ASSUME NEW i \in 1 .. n + m, NEW j \in 1 .. n + m, i # j
      PROVE  UnitsOf(u[i]) \cap UnitsOf(u[j]) = {}
  <2>1. CASE i \in 1 .. n /\ j \in 1 .. n
    BY <1>2, <1>7, <1>9, <2>1 DEF Scattered
  <2>2. CASE i \in 1 .. n /\ j \notin 1 .. n
    BY <1>7, <1>8, <2>2
  <2>3. CASE i \notin 1 .. n /\ j \in 1 .. n
    BY <1>7, <1>8, <2>3
  <2>4. CASE i \notin 1 .. n /\ j \notin 1 .. n
    <3>1. /\ i - n \in 1 .. m /\ u[i] = t[i - n]
          /\ j - n \in 1 .. m /\ u[j] = t[j - n]
      BY <1>6, <2>4
    <3>2. i - n # j - n
      BY <1>9, <3>1
    <3> QED
      BY <1>2, <3>1, <3>2 DEF Scattered
  <2> QED
    BY <2>1, <2>2, <2>3, <2>4
<1> QED
  BY <1>4, <1>5, <1>9 DEF Scattered

-----------------------------------------------------------------------------
(* The first extents of a segment, and the last ones *)

\* The k first of s, and the others.
CutsAt(s, k, p, q) == p = SubSeq(s, 1, k) /\ q = SubSeq(s, k + 1, Len(s))

\* A segment is its first extents and then its last ones.
LEMMA CutInTwo ==
  ASSUME NEW s \in Seq(SegmExtents), NEW k \in 0 .. Len(s), NEW p, NEW q, CutsAt(s, k, p, q)
  PROVE  /\ p \in Seq(SegmExtents) /\ q \in Seq(SegmExtents)
         /\ s = p \o q
         /\ Len(p) = k /\ Len(q) = Len(s) - k
         /\ \A i \in 1 .. k : p[i] = s[i]
         /\ \A i \in 1 .. Len(s) - k : q[i] = s[k + i]
         /\ SizeOfAll(s) = SizeOfAll(p) + SizeOfAll(q)
         /\ SizeOfAll(p) \in Nat /\ SizeOfAll(q) \in Nat
         /\ \A i \in 1 .. SizeOfAll(p) : PlacesOfAll(p)[i] = PlacesOfAll(s)[i]
         /\ UnitsOfAll(s) = UnitsOfAll(p) \cup UnitsOfAll(q)
         /\ Scattered(s) => Scattered(p)
<1>0. p = SubSeq(s, 1, k) /\ q = SubSeq(s, k + 1, Len(s))
  BY DEF CutsAt
<1>1. PICK n \in Nat : n = Len(s)
  BY UnitsOfRow
<1>2. /\ DOMAIN s = 1 .. n /\ \A i \in 1 .. n : s[i] \in SegmExtents
      /\ k \in Nat /\ k <= n
  BY <1>1, UnitsOfRow
<1>3. p \in Seq(SegmExtents) /\ Len(p) = k /\ \A i \in 1 .. k : p[i] = s[i]
  <2>1. /\ 1 \in Int /\ k \in Int /\ \A i \in 1 .. k : i \in 1 .. n /\ s[i] \in SegmExtents
        /\ 1 <= k => k - 1 + 1 = k
        /\ ~ (1 <= k) => k = 0
        /\ 1 .. k - 1 + 1 = 1 .. k
        /\ \A i \in 1 .. k : 1 + i - 1 = i
    BY <1>2
  <2> QED
    BY <1>0, <2>1, SubSeqProperties
<1>4. q \in Seq(SegmExtents) /\ Len(q) = n - k /\ \A i \in 1 .. n - k : q[i] = s[k + i]
  <2>1. /\ k + 1 \in Int /\ n \in Int
        /\ \A i \in k + 1 .. n : s[i] \in SegmExtents
        /\ k + 1 <= n => n - (k + 1) + 1 = n - k
        /\ ~ (k + 1 <= n) => n - k = 0
        /\ 1 .. n - (k + 1) + 1 = 1 .. n - k
        /\ \A i \in 1 .. n - k : (k + 1) + i - 1 = k + i
    BY <1>2
  <2> QED
    BY <1>0, <1>1, <2>1, SubSeqProperties
<1>5. s = p \o q
  <2>1. /\ 1 \in 1 .. n + 1 /\ k \in 1 - 1 .. n /\ n \in k .. n
    BY <1>2
  <2>2. SubSeq(s, 1, k) \o SubSeq(s, k + 1, n) = SubSeq(s, 1, n)
    BY <1>1, <2>1, ConcatAdjacentSubSeq
  <2>3. SubSeq(s, 1, n) = s
    BY <1>1, SubSeqFull
  <2> QED
    BY <1>0, <1>1, <2>2, <2>3
<1>6. /\ SizeOfAll(s) = SizeOfAll(p) + SizeOfAll(q)
      /\ \A i \in 1 .. SizeOfAll(p) : PlacesOfAll(p)[i] = PlacesOfAll(s)[i]
      /\ UnitsOfAll(s) = UnitsOfAll(p) \cup UnitsOfAll(q)
  <2>1. PICK a, b : a = p /\ b = q
    OBVIOUS
  <2>2. a \in Seq(SegmExtents) /\ b \in Seq(SegmExtents)
    BY <1>3, <1>4, <2>1
  <2>3. /\ SizeOfAll(a \o b) = SizeOfAll(a) + SizeOfAll(b)
        /\ \A i \in 1 .. SizeOfAll(a) : PlacesOfAll(a \o b)[i] = PlacesOfAll(a)[i]
        /\ UnitsOfAll(a \o b) = UnitsOfAll(a) \cup UnitsOfAll(b)
    BY ONLY <2>2, PlacesOfConcat
  <2> QED
    BY ONLY <1>5, <2>1, <2>3
<1>7. SizeOfAll(p) \in Nat /\ SizeOfAll(q) \in Nat
  BY <1>3, <1>4, SizeIsLen
<1>8. ASSUME Scattered(s) PROVE Scattered(p)
  <2>1. DOMAIN p = 1 .. k /\ \A i \in 1 .. k : i \in 1 .. n
    BY <1>2, <1>3, UnitsOfRow
  <2> QED
    BY <1>2, <1>3, <1>8, <2>1 DEF Scattered
<1> QED
  BY <1>1, <1>3, <1>4, <1>5, <1>6, <1>7, <1>8

\* The front and the last of a segment.
LEMMA FrontAndLast ==
  ASSUME NEW s \in Seq(SegmExtents), s # << >>
  PROVE  /\ Len(s) \in Nat \ {0}
         /\ Front(s) = SubSeq(s, 1, Len(s) - 1) /\ Last(s) = s[Len(s)]
         /\ Front(s) \in Seq(SegmExtents) /\ Last(s) \in SegmExtents
         /\ s = Append(Front(s), Last(s))
         /\ SizeOfAll(s) = SizeOfAll(Front(s)) + SizeOf(Last(s))
         /\ UnitsOfAll(s) = UnitsOfAll(Front(s)) \cup UnitsOf(Last(s))
         /\ Scattered(s) => Scattered(Front(s)) /\ UnitsOfAll(Front(s)) \cap UnitsOf(Last(s)) = {}
<1>1. PICK n \in Nat : n = Len(s)
  BY UnitsOfRow
<1>2. n # 0 /\ IsRow(s) /\ DOMAIN s = 1 .. n /\ \A i \in 1 .. n : s[i] \in SegmExtents
  BY <1>1, SeqIsRow, UnitsOfRow, EmptySeq
<1>3. n \in 1 .. n /\ n - 1 \in 0 .. n
  BY <1>2
<1>4. Front(s) = SubSeq(s, 1, n - 1) /\ Last(s) = s[n]
  BY <1>1 DEF Front, Last
<1>5. Append(SubSeq(s, 1, n - 1), s[n]) = SubSeq(s, 1, n) /\ SubSeq(s, 1, n) = s
  BY <1>1, <1>2, <1>3, AppendOfSubSeq
<1>6. PICK p, e : p = Front(s) /\ e = Last(s)
  OBVIOUS
<1>7. /\ p \in Seq(SegmExtents) /\ Len(p) = n - 1
      /\ \A i \in 1 .. n - 1 : p[i] = s[i]
      /\ Scattered(s) => Scattered(p)
  <2>1. PICK k, q : k = n - 1 /\ q = SubSeq(s, k + 1, Len(s))
    OBVIOUS
  <2>2. CutsAt(s, k, p, q) /\ k \in 0 .. Len(s)
    BY <1>1, <1>3, <1>4, <1>6, <2>1 DEF CutsAt
  <2>3. /\ p \in Seq(SegmExtents) /\ Len(p) = k
        /\ \A i \in 1 .. k : p[i] = s[i]
        /\ Scattered(s) => Scattered(p)
    BY <2>2, CutInTwo
  <2> QED
    BY <2>1, <2>3
<1>8. e \in SegmExtents /\ s = Append(p, e)
  BY <1>2, <1>3, <1>4, <1>5, <1>6
<1>9. SizeOfAll(s) = SizeOfAll(p) + SizeOf(e) /\ UnitsOfAll(s) = UnitsOfAll(p) \cup UnitsOf(e)
  BY <1>7, <1>8, PlacesOfAppend, UnitsOfAppend
<1>10. ASSUME Scattered(s) PROVE UnitsOfAll(p) \cap UnitsOf(e) = {}
  <2>1. UnitsOfAll(p) = UNION {UnitsOf(p[i]) : i \in 1 .. n - 1}
    BY <1>7, UnitsOfRow
  <2>2. ASSUME NEW i \in 1 .. n - 1 PROVE UnitsOf(p[i]) \cap UnitsOf(e) = {}
    <3>1. i \in 1 .. n /\ n \in 1 .. n /\ i # n
      BY <1>3
    <3>2. UnitsOf(s[i]) \cap UnitsOf(s[n]) = {}
      BY <1>2, <1>10, <3>1 DEF Scattered
    <3> QED
      BY <1>4, <1>6, <1>7, <3>2
  <2> QED
    BY <2>1, <2>2
<1> QED
  BY <1>1, <1>2, <1>4, <1>6, <1>7, <1>8, <1>9, <1>10

\* A segment that keeps the blocks at the start of another where they are.
StartOf(t, s) ==
  /\ t \in Seq(SegmExtents)
  /\ SizeOfAll(t) \in Nat /\ SizeOfAll(t) <= SizeOfAll(s)
  /\ \A i \in 1 .. SizeOfAll(t) : PlacesOfAll(t)[i] = PlacesOfAll(s)[i]
  /\ UnitsOfAll(t) \subseteq UnitsOfAll(s)
  /\ Scattered(s) => Scattered(t)

\* The first extents of a segment are a start of it.
LEMMA FirstOnesStart ==
  ASSUME NEW s \in Seq(SegmExtents), NEW k \in 0 .. Len(s)
  PROVE  /\ StartOf(SubSeq(s, 1, k), s)
         /\ SizeOfAll(SubSeq(s, 1, k)) + SizeOfAll(SubSeq(s, k + 1, Len(s))) = SizeOfAll(s)
         /\ SizeOfAll(SubSeq(s, k + 1, Len(s))) \in Nat
<1>1. PICK p, q : p = SubSeq(s, 1, k) /\ q = SubSeq(s, k + 1, Len(s))
  OBVIOUS
<1>2. CutsAt(s, k, p, q)
  BY <1>1 DEF CutsAt
<1>3. /\ p \in Seq(SegmExtents)
      /\ SizeOfAll(s) = SizeOfAll(p) + SizeOfAll(q)
      /\ SizeOfAll(p) \in Nat /\ SizeOfAll(q) \in Nat
      /\ \A i \in 1 .. SizeOfAll(p) : PlacesOfAll(p)[i] = PlacesOfAll(s)[i]
      /\ UnitsOfAll(s) = UnitsOfAll(p) \cup UnitsOfAll(q)
      /\ Scattered(s) => Scattered(p)
  BY <1>2, CutInTwo
<1>4. SizeOfAll(p) <= SizeOfAll(s)
  <2>1. PICK a, b \in Nat : a = SizeOfAll(p) /\ b = SizeOfAll(q)
    BY <1>3
  <2> QED
    BY <1>3, <2>1
<1>5. StartOf(p, s)
  BY <1>3, <1>4 DEF StartOf
<1> QED
  BY <1>1, <1>3, <1>5

\* A start of a start is a start.
LEMMA StartOfStart ==
  ASSUME NEW s \in Seq(SegmExtents), NEW t, NEW u, StartOf(t, s), StartOf(u, t)
  PROVE  StartOf(u, s)
<1>1. SizeOfAll(s) \in Nat
  BY SizeIsLen
<1>2. PICK a, b, c \in Nat : a = SizeOfAll(s) /\ b = SizeOfAll(t) /\ c = SizeOfAll(u)
  BY <1>1 DEF StartOf
<1>3. c <= a /\ c <= b
  BY <1>2 DEF StartOf
<1>4. ASSUME NEW i \in 1 .. SizeOfAll(u) PROVE PlacesOfAll(u)[i] = PlacesOfAll(s)[i]
  <2>1. i \in 1 .. SizeOfAll(t)
    BY <1>2, <1>3
  <2> QED
    BY <2>1 DEF StartOf
<1>5. SizeOfAll(u) <= SizeOfAll(s) /\ SizeOfAll(u) \in Nat
  BY <1>2, <1>3
<1> QED
  BY <1>4, <1>5 DEF StartOf

\* What is cut of the last extent is never more than it was asked to be.
LEMMA CutStart ==
  ASSUME NEW p \in Seq(SegmExtents), NEW r \in Nat, p # << >> => r < SizeOf(Last(p))
  PROVE  StartOf(Cut(p, r), p) /\ SizeOfAll(p) <= SizeOfAll(Cut(p, r)) + r
<1>1. CASE p = << >>
  <2>1. Cut(p, r) = p
    BY <1>1 DEF Cut
  <2>2. SizeOfAll(p) \in Nat /\ SizeOfAll(p) <= SizeOfAll(p) + r
    BY SizeIsLen
  <2> QED
    BY <2>1, <2>2 DEF StartOf
<1>2. CASE p # << >>
  <2>1. PICK f, e : f = Front(p) /\ e = Last(p)
    OBVIOUS
  <2>2. /\ f \in Seq(SegmExtents) /\ e \in SegmExtents
        /\ p = Append(f, e)
        /\ SizeOfAll(p) = SizeOfAll(f) + SizeOf(e)
        /\ UnitsOfAll(p) = UnitsOfAll(f) \cup UnitsOf(e)
        /\ Scattered(p) => Scattered(f) /\ UnitsOfAll(f) \cap UnitsOf(e) = {}
    BY <1>2, <2>1, FrontAndLast
  <2>3. PICK m, z \in Nat \ {0} : m = CntOf(e) /\ z = PartSz(e)
    BY <2>2, SizeIsOfParts
  <2>4. SizeOf(e) = m * z /\ m * z \in Nat /\ r < m * z
    <3>1. SizeOf(e) = m * z
      BY <2>2, <2>3, SizeIsOfParts
    <3>2. m * z \in Nat
      OBVIOUS
    <3> QED
      BY <1>2, <2>1, <3>1, <3>2
  <2>5. PICK q, o : q = (r \div z) /\ o = (r % z)
    OBVIOUS
  <2>6. q \in Nat /\ o \in 0 .. z - 1 /\ r = z * q + o
    BY <2>5, DivMod
  <2>7. z * q \in Nat /\ q * z = z * q
    BY <2>6
  <2>8. q < m
    <3> SUFFICES ASSUME m <= q PROVE FALSE
      BY <2>6
    <3>1. m * z <= q * z
      BY <2>6, TimesGrows
    <3> QED
      BY <2>4, <2>6, <2>7, <3>1
  <2>9. PICK c \in Nat \ {0} : c = m - q
    BY <2>6, <2>8
  <2>10. c <= m /\ c * z = m * z - q * z
    <3>1. c <= m
      BY <2>6, <2>9
    <3>2. m = c + q
      BY <2>6, <2>9
    <3>3. m * z = c * z + q * z /\ c * z \in Nat
      BY <2>6, <3>2
    <3> QED
      BY <2>7, <3>1, <3>3
  <2>11. PICK u : u = Split(e, c)
    OBVIOUS
  <2>12. Cut(p, r) = Append(f, u)
    BY <1>2, <2>1, <2>3, <2>5, <2>9, <2>11 DEF Cut, CntOf, PartSz
  <2>13. /\ u \in SegmExtents
         /\ SizeOf(u) = c * z
         /\ UnitsOf(u) \subseteq UnitsOf(e)
         /\ \A k \in 0 .. SizeOf(u) - 1 : PlaceIn(u, k) = PlaceIn(e, k)
    BY <2>2, <2>3, <2>10, <2>11, SplitKeepsStart
  <2>14. PICK t : t = Append(f, u)
    OBVIOUS
  <2>15. /\ t \in Seq(SegmExtents)
         /\ PlacesOfAll(t) = PlacesOfAll(f) \o RowOf(u)
         /\ PlacesOfAll(p) = PlacesOfAll(f) \o RowOf(e)
         /\ SizeOfAll(t) = SizeOfAll(f) + SizeOf(u)
         /\ UnitsOfAll(t) = UnitsOfAll(f) \cup UnitsOf(u)
    BY <2>2, <2>13, <2>14, PlacesOfAppend, UnitsOfAppend, AppendProperties
  <2>16. PICK n \in Nat : n = SizeOfAll(f)
    BY <2>2, SizeIsLen
  <2>17. c * z \in Nat /\ c * z <= m * z /\ m * z <= c * z + r
    <3>1. c * z \in Nat
      OBVIOUS
    <3> QED
      BY <2>4, <2>6, <2>7, <2>10, <3>1
  <2>18. /\ SizeOfAll(t) \in Nat /\ SizeOfAll(t) <= SizeOfAll(p)
         /\ SizeOfAll(p) <= SizeOfAll(t) + r
    <3>1. PICK x, y \in Nat : x = c * z /\ y = m * z
      BY <2>4, <2>17
    <3>2. SizeOfAll(t) = n + x /\ SizeOfAll(p) = n + y /\ x <= y /\ y <= x + r
      BY <2>2, <2>4, <2>13, <2>15, <2>16, <2>17, <3>1
    <3> QED
      BY <3>2
  <2>19. ASSUME NEW i \in 1 .. SizeOfAll(t) PROVE PlacesOfAll(t)[i] = PlacesOfAll(p)[i]
    <3>1. PICK x, y, w : x = PlacesOfAll(f) /\ y = RowOf(u) /\ w = RowOf(e)
      OBVIOUS
    <3>2. /\ IsRow(x) /\ IsRow(y) /\ IsRow(w)
          /\ Len(x) = n /\ Len(y) = c * z /\ Len(w) = m * z
          /\ \A k \in 1 .. c * z : y[k] = PlaceIn(u, k - 1)
          /\ \A k \in 1 .. m * z : w[k] = PlaceIn(e, k - 1)
      BY <2>2, <2>4, <2>13, <2>16, <3>1, SizeIsLen, RowOfExtent
    <3>3. /\ \A k \in 1 .. n : (x \o y)[k] = x[k]
          /\ \A k \in 1 .. c * z : (x \o y)[n + k] = y[k]
      <4>1. IsRow(x) /\ IsRow(y)
        BY <3>2
      <4>2. /\ \A k \in 1 .. Len(x) : (x \o y)[k] = x[k]
            /\ \A k \in 1 .. Len(y) : (x \o y)[Len(x) + k] = y[k]
        BY ONLY <4>1, ConcatRows
      <4>3. Len(x) = n /\ Len(y) = c * z
        BY <3>2
      <4> QED
        BY ONLY <4>2, <4>3
    <3>4. /\ \A k \in 1 .. n : (x \o w)[k] = x[k]
          /\ \A k \in 1 .. m * z : (x \o w)[n + k] = w[k]
      <4>1. IsRow(x) /\ IsRow(w)
        BY <3>2
      <4>2. /\ \A k \in 1 .. Len(x) : (x \o w)[k] = x[k]
            /\ \A k \in 1 .. Len(w) : (x \o w)[Len(x) + k] = w[k]
        BY ONLY <4>1, ConcatRows
      <4>3. Len(x) = n /\ Len(w) = m * z
        BY <3>2
      <4> QED
        BY ONLY <4>2, <4>3
    <3>5. PICK l \in Nat : l = c * z
      BY <2>17
    <3>6. \A k \in 1 .. l : k \in 1 .. m * z /\ k - 1 \in 0 .. l - 1
      BY <2>4, <2>17, <3>5
    <3>7. \A k \in 1 .. l : y[k] = w[k]
      BY <2>13, <3>2, <3>5, <3>6
    <3>8. i \in 1 .. n + l
      BY <2>13, <2>15, <2>16, <3>5
    <3>9. i \in 1 .. n \/ (i - n \in 1 .. l /\ i = n + (i - n))
      BY <3>8
    <3>10. (x \o y)[i] = (x \o w)[i]
      <4>1. CASE i \in 1 .. n
        BY <3>3, <3>4, <4>1
      <4>2. CASE i - n \in 1 .. l /\ i = n + (i - n)
        <5>1. PICK j : j = i - n
          OBVIOUS
        <5>2. j \in 1 .. c * z /\ j \in 1 .. m * z /\ i = n + j
          BY <3>5, <3>6, <4>2, <5>1
        <5>3. (x \o y)[n + j] = y[j] /\ (x \o w)[n + j] = w[j] /\ y[j] = w[j]
          BY <3>3, <3>4, <3>5, <3>7, <5>2
        <5> QED
          BY <5>2, <5>3
      <4> QED
        BY <3>9, <4>1, <4>2
    <3> QED
      BY <2>15, <3>1, <3>10
  <2>20. ASSUME Scattered(p) PROVE Scattered(t)
    <3>1. PICK n1 \in Nat : n1 = Len(f)
      BY <2>2, UnitsOfRow
    <3>2. /\ Len(t) = n1 + 1 /\ t[n1 + 1] = u
          /\ \A i \in 1 .. n1 : t[i] = f[i]
          /\ DOMAIN t = 1 .. n1 + 1 /\ DOMAIN f = 1 .. n1
      BY <2>2, <2>13, <2>14, <2>15, <3>1, AppendProperties, UnitsOfRow
    <3>3. Scattered(f) /\ UnitsOfAll(f) \cap UnitsOf(e) = {}
      BY <2>2, <2>20
    <3>4. \A i \in 1 .. n1 : UnitsOf(f[i]) \subseteq UnitsOfAll(f)
      BY <2>2, <3>1, UnitsOfRow
    <3>5. \A i \in 1 .. n1 : UnitsOf(t[i]) \cap UnitsOf(u) = {}
      BY <2>13, <3>2, <3>3, <3>4
    <3>6. \A i, j \in 1 .. n1 : i # j => UnitsOf(t[i]) \cap UnitsOf(t[j]) = {}
      BY <3>2, <3>3 DEF Scattered
    <3>7. \A i \in 1 .. n1 + 1 : i \in 1 .. n1 \/ i = n1 + 1
      OBVIOUS
    <3>8. ASSUME NEW i \in 1 .. n1 + 1, NEW j \in 1 .. n1 + 1, i # j
          PROVE  UnitsOf(t[i]) \cap UnitsOf(t[j]) = {}
      <4>1. CASE i \in 1 .. n1 /\ j \in 1 .. n1
        BY <3>6, <3>8, <4>1
      <4>2. CASE i \in 1 .. n1 /\ j = n1 + 1
        BY <3>2, <3>5, <4>2
      <4>3. CASE i = n1 + 1 /\ j \in 1 .. n1
        BY <3>2, <3>5, <4>3
      <4> QED
        BY <3>7, <3>8, <4>1, <4>2, <4>3
    <3> QED
      BY <3>2, <3>8 DEF Scattered
  <2>21. UnitsOfAll(t) \subseteq UnitsOfAll(p)
    BY <2>2, <2>13, <2>15
  <2>22. StartOf(t, p)
    BY <2>15, <2>18, <2>19, <2>20, <2>21 DEF StartOf
  <2> QED
    BY <2>12, <2>14, <2>18, <2>22
<1> QED
  BY <1>1, <1>2

\* The last extents that fit in what is given back.
LEMMA PoppedFits ==
  ASSUME segm \in Seq(SegmExtents), NEW sz \in Nat
  PROVE  /\ PoppedCnt(sz) \in 0 .. Len(segm)
         /\ SizeOfAll(LastOnes(PoppedCnt(sz))) <= sz
         /\ PoppedCnt(sz) < Len(segm) => SizeOfAll(LastOnes(PoppedCnt(sz) + 1)) > sz
<1>1. PICK n \in Nat : n = Len(segm)
  BY UnitsOfRow
<1> DEFINE S == {k \in 0 .. n : SizeOfAll(LastOnes(k)) <= sz}
<1>2. ASSUME NEW k \in 0 .. n PROVE SizeOfAll(LastOnes(k)) \in Nat
  <2>1. n - k \in 0 .. Len(segm) /\ Len(segm) - k + 1 = (n - k) + 1
    BY <1>1
  <2> QED
    BY <2>1, FirstOnesStart DEF LastOnes
<1>3. 0 \in S
  <2>1. LastOnes(0) = << >>
    BY <1>1, SubSeqEmpty DEF LastOnes
  <2> QED
    BY <1>1, <2>1, PlacesOfEmpty
<1>4. S \in SUBSET Nat /\ S # {} /\ \A k \in S : k <= n
  BY <1>3
<1>5. PICK g \in S : \A k \in S : k <= g
  <2> HIDE DEF S
  <2> QED
    BY <1>4, GreatestExists
<1>6. ASSUME g < n PROVE SizeOfAll(LastOnes(g + 1)) > sz
  <2>1. g + 1 \in 0 .. n /\ ~ (g + 1 <= g)
    BY <1>6
  <2>2. ~ (SizeOfAll(LastOnes(g + 1)) <= sz)
    BY <1>5, <2>1
  <2>3. PICK x \in Nat : x = SizeOfAll(LastOnes(g + 1))
    BY <1>2, <2>1
  <2> QED
    BY <2>2, <2>3
<1>7. \E k \in 0 .. Len(segm) : /\ SizeOfAll(LastOnes(k)) <= sz
                                /\ k < Len(segm) => SizeOfAll(LastOnes(k + 1)) > sz
  BY <1>1, <1>5, <1>6
<1> QED
  BY <1>7 DEF PoppedCnt

\* The array of the segment never loses more than it gives back.
LEMMA ShrunkStart ==
  ASSUME segm \in Seq(SegmExtents), NEW sz \in Nat, NEW releases \in BOOLEAN
  PROVE  /\ StartOf(ShrunkSegm(sz, releases), segm)
         /\ SizeOfAll(segm) <= SizeOfAll(ShrunkSegm(sz, releases)) + sz
<1>1. PICK n, c : n \in Nat /\ n = Len(segm) /\ c = PoppedCnt(sz)
  BY UnitsOfRow
<1>2. /\ c \in 0 .. n /\ SizeOfAll(LastOnes(c)) <= sz
      /\ c < n => SizeOfAll(LastOnes(c + 1)) > sz
  BY <1>1, PoppedFits
<1>3. PICK k \in 0 .. n : k = n - c
  BY <1>1, <1>2
<1>4. PICK p, l : p = SubSeq(segm, 1, k) /\ l = SubSeq(segm, k + 1, Len(segm))
  OBVIOUS
<1>5. Popped(sz) = p /\ LastOnes(c) = l
  <2>1. Len(segm) - c + 1 = k + 1 /\ Len(segm) - c = k
    BY <1>1, <1>2, <1>3
  <2> QED
    BY <1>1, <1>4, <2>1 DEF Popped, LastOnes
<1>6. StartOf(p, segm) /\ SizeOfAll(p) + SizeOfAll(l) = SizeOfAll(segm) /\ SizeOfAll(l) \in Nat
  BY <1>1, <1>4, FirstOnesStart
<1>7. p \in Seq(SegmExtents) /\ SizeOfAll(p) \in Nat
  BY <1>6 DEF StartOf
<1>8. PICK a, b \in Nat : a = SizeOfAll(p) /\ b = SizeOfAll(l)
  BY <1>6, <1>7
<1>9. b <= sz /\ SizeOfAll(segm) = a + b
  BY <1>2, <1>5, <1>6, <1>8
<1>10. CASE ~ releases
  <2>1. ShrunkSegm(sz, releases) = p
    BY <1>5, <1>10 DEF ShrunkSegm
  <2> QED
    BY <1>6, <1>8, <1>9, <2>1
<1>11. CASE releases
  <2>1. PICK r \in Nat : r = sz - b
    BY <1>9
  <2>2. ShrunkSegm(sz, releases) = Cut(p, r)
    BY <1>1, <1>5, <1>8, <1>11, <2>1 DEF ShrunkSegm
  <2>3. ASSUME p # << >> PROVE r < SizeOf(Last(p))
    <3>1. PICK f, e : f = Front(p) /\ e = Last(p)
      OBVIOUS
    <3>2. /\ f = SubSeq(p, 1, Len(p) - 1) /\ e = p[Len(p)]
          /\ SizeOfAll(p) = SizeOfAll(f) + SizeOf(e)
          /\ e \in SegmExtents /\ f \in Seq(SegmExtents)
      BY <1>7, <2>3, <3>1, FrontAndLast
    <3>3. k # 0
      <4>1. k = 0 => p = << >>
        BY <1>4, SubSeqEmpty
      <4> QED
        BY <2>3, <4>1
    <3>4. k \in 1 .. n /\ c < n /\ k - 1 \in 0 .. n /\ IsRow(segm)
      BY <1>1, <1>2, <1>3, <3>3, SeqIsRow
    <3>5. PICK g : g = SubSeq(segm, 1, k - 1)
      OBVIOUS
    <3>6. Append(g, segm[k]) = p /\ segm[k] \in SegmExtents
      <4>1. Append(SubSeq(segm, 1, k - 1), segm[k]) = SubSeq(segm, 1, k)
        BY <1>1, <3>4, AppendOfSubSeq
      <4>2. segm[k] \in SegmExtents
        BY <1>1, <3>4, UnitsOfRow
      <4> QED
        BY <1>4, <3>5, <4>1, <4>2
    <3>7. /\ StartOf(g, segm)
          /\ SizeOfAll(g) + SizeOfAll(SubSeq(segm, (k - 1) + 1, Len(segm))) = SizeOfAll(segm)
          /\ SizeOfAll(SubSeq(segm, (k - 1) + 1, Len(segm))) \in Nat
      BY <1>1, <3>4, <3>5, FirstOnesStart
    <3>8. SubSeq(segm, (k - 1) + 1, Len(segm)) = LastOnes(c + 1)
      <4>1. (k - 1) + 1 = Len(segm) - (c + 1) + 1
        BY <1>1, <1>2, <1>3
      <4> QED
        BY <4>1 DEF LastOnes
    <3>9. g \in Seq(SegmExtents) /\ SizeOfAll(g) \in Nat
      BY <3>7 DEF StartOf
    <3>10. e = segm[k]
      <4>1. /\ Len(Append(g, segm[k])) = Len(g) + 1
            /\ Append(g, segm[k])[Len(g) + 1] = segm[k]
        BY <3>6, <3>9, AppendProperties
      <4> QED
        BY <3>2, <3>6, <4>1
    <3>11. SizeOfAll(p) = SizeOfAll(g) + SizeOf(e)
      <4>1. SizeOfAll(Append(g, e)) = SizeOfAll(g) + SizeOf(e)
        BY <3>2, <3>9, PlacesOfAppend
      <4> QED
        BY <3>6, <3>10, <4>1
    <3>12. PICK x, y, w \in Nat : x = SizeOfAll(g) /\ y = SizeOf(e) /\ w = SizeOfAll(LastOnes(c + 1))
      BY <3>2, <3>7, <3>8, <3>9, ExtentPlaces
    <3>13. x + w = a + b /\ a = x + y /\ w > sz
      BY <1>2, <1>8, <1>9, <3>4, <3>7, <3>8, <3>11, <3>12
    <3>14. r < y
      BY <2>1, <3>13
    <3> QED
      BY <3>1, <3>12, <3>14
  <2>4. StartOf(Cut(p, r), p) /\ SizeOfAll(p) <= SizeOfAll(Cut(p, r)) + r
    BY <1>7, <2>3, CutStart
  <2>5. StartOf(Cut(p, r), segm)
    BY <1>6, <2>4, StartOfStart
  <2>6. SizeOfAll(Cut(p, r)) \in Nat
    BY <2>4 DEF StartOf
  <2>7. PICK d \in Nat : d = SizeOfAll(Cut(p, r))
    BY <2>6
  <2>8. a + b <= d + sz
    BY <1>8, <1>9, <2>1, <2>4, <2>7
  <2> QED
    BY <1>9, <2>2, <2>5, <2>7, <2>8
<1> QED
  BY <1>10, <1>11

-----------------------------------------------------------------------------
(* What the allocator of bg gives *)

\* Fragments of different blocks are of different subblocks.
LEMMA FragmentsApart ==
  ASSUME NEW exts \in Fragments
  PROVE  exts \in Seq(SegmExtents) /\ Scattered(exts)
<1>1. PICK k \in 0 .. FragThreshold : exts \in [1 .. k -> BgExtents]
  BY DEF Fragments
<1>2. k \in Nat
  BY <1>1, SegmentBlockArrayAssumption
<1>3. exts \in Seq(SegmExtents)
  <2>1. exts \in [1 .. k -> SegmExtents]
    BY <1>1 DEF SegmExtents
  <2> QED
    BY <1>2, <2>1
<1>4. ASSUME NEW i \in DOMAIN exts, NEW j \in DOMAIN exts, i # j
      PROVE  UnitsOf(exts[i]) \cap UnitsOf(exts[j]) = {}
  <2>1. exts[i] \in BgExtents /\ exts[j] \in BgExtents
    BY <1>1
  <2>2. BlksOf(exts[i]) \cap BlksOf(exts[j]) = {}
    BY <1>4 DEF Fragments
  <2>3. ASSUME NEW e \in BgExtents, NEW u \in UnitsOf(e) PROVE u[1] \in BlksOf(e)
    <3>1. /\ UnitsOf(e) = (e.blk_nr .. e.blk_nr + e.blk_cnt - 1) \X Subblks
          /\ PastEndBlkNr(e) = e.blk_nr + e.blk_cnt
          /\ e.blk_nr \in Nat /\ e.blk_cnt \in Nat /\ e.blk_nr + e.blk_cnt <= BgBlkCnt
      BY FullIsOf
    <3>2. u[1] \in e.blk_nr .. e.blk_nr + e.blk_cnt - 1
      BY <3>1
    <3>3. BgBlkCnt \in Nat /\ BgBlkCnt <= MaxBlkNr + 1 /\ MaxBlkNr \in Nat
      BY Consts
    <3>4. u[1] \in 0 .. MaxBlkNr /\ e.blk_nr <= u[1] /\ u[1] < e.blk_nr + e.blk_cnt
      BY <3>1, <3>2, <3>3
    <3> QED
      BY <3>1, <3>4 DEF BlksOf, BlkNrs
  <2> QED
    BY <2>1, <2>2, <2>3
<1> QED
  BY <1>3, <1>4 DEF Scattered

\* What is asked in whole blocks and in subblocks is at least what is wanted.
LEMMA AskedIsEnough ==
  ASSUME NEW n \in Nat
  PROVE  /\ BlksFor(n) \in Nat /\ SubblksFor(n) \in Nat
         /\ n <= BlksFor(n) * FgPerBlk + SubblksFor(n) * FgPerSubblk
<1>1. PICK B, F, S : /\ B = FgPerBlk /\ F = FgPerSubblk /\ S = SubblkCntPerBlk
                     /\ B \in Nat \ {0} /\ F \in Nat \ {0} /\ S \in Nat \ {0} /\ B = S * F
  BY Consts
<1>2. PICK q, r : q = (n \div B) /\ r = (n % B)
  OBVIOUS
<1>3. q \in Nat /\ r \in 0 .. B - 1 /\ n = B * q + r
  BY <1>1, <1>2, DivMod
<1>4. r + F - 1 \in Nat
  BY <1>1, <1>3
<1>5. PICK s, t : s = ((r + F - 1) \div F) /\ t = ((r + F - 1) % F)
  OBVIOUS
<1>6. s \in Nat /\ t \in 0 .. F - 1 /\ r + F - 1 = F * s + t
  BY <1>1, <1>4, <1>5, DivMod
<1>7. BlksFor(n) = q + (IF s = S THEN 1 ELSE 0) /\ SubblksFor(n) = (s % S)
  BY <1>1, <1>2, <1>5 DEF BlksFor, SubblksFor
<1>8. PICK sf : sf = s * F /\ sf = F * s /\ sf \in Nat
  BY <1>1, <1>6
<1>9. r <= sf /\ sf <= B + F - 2
  BY <1>1, <1>3, <1>6, <1>8
<1>10. s <= S
  <2>1. SUFFICES ASSUME s > S PROVE FALSE
    BY <1>1, <1>6
  <2>2. (S + 1) * F <= s * F
    BY <2>1, <1>1, <1>6, TimesGrows
  <2>3. (S + 1) * F = B + F
    BY <1>1
  <2> QED
    BY <1>1, <1>8, <1>9, <2>2, <2>3
<1>11. PICK qb : qb = q * B /\ qb = B * q /\ qb \in Nat
  BY <1>1, <1>3
<1>12. CASE s = S
  <2>1. (s % S) = 0
    BY <1>1, <1>12
  <2>2. BlksFor(n) = q + 1 /\ SubblksFor(n) = 0
    BY <1>7, <1>12, <2>1
  <2>3. (q + 1) * B = qb + B /\ 0 * F = 0
    BY <1>1, <1>3, <1>11
  <2>4. n <= qb + B
    BY <1>1, <1>3, <1>11
  <2> QED
    BY <1>1, <1>3, <1>11, <2>2, <2>3, <2>4
<1>13. CASE s # S
  <2>1. s \in 0 .. S - 1
    BY <1>1, <1>6, <1>10, <1>13
  <2>2. (s % S) = s
    <3>1. S * 0 + s = s
      BY <1>1, <1>6
    <3> QED
      BY <1>1, <2>1, <3>1, DivModUnique
  <2>3. BlksFor(n) = q /\ SubblksFor(n) = s
    BY <1>3, <1>7, <1>13, <2>2
  <2>4. n <= qb + sf
    BY <1>1, <1>3, <1>8, <1>9, <1>11
  <2> QED
    BY <1>1, <1>3, <1>6, <1>8, <1>11, <2>3, <2>4
<1> QED
  BY <1>12, <1>13

\* The subblocks that are given were free, and are as many as asked.
LEMMA SubAllocsFit ==
  ASSUME NEW n \in Nat, NEW free, free \subseteq Units, NEW sub \in SubAllocs(n, free)
  PROVE  /\ sub \in Seq(SegmExtents) /\ Scattered(sub)
         /\ UnitsOfAll(sub) \subseteq free /\ SizeOfAll(sub) = n * FgPerSubblk
<1>1. CASE n = 0
  <2>1. sub = << >>
    BY <1>1 DEF SubAllocs
  <2>2. 0 * FgPerSubblk = 0
    BY Consts
  <2> QED
    BY <1>1, <2>1, <2>2, NoUnits, PlacesOfEmpty DEF Scattered
<1>2. CASE n # 0
  <2>1. PICK y \in (0 .. BgBlkCnt - 1) \X Bitmaps :
          /\ Cardinality(y[2]) = n /\ {y[1]} \X y[2] \subseteq free
          /\ sub = <<SubExtent(y[1], y[2])>>
    BY <1>2 DEF SubAllocs
  <2>2. PICK b, bits : b = y[1] /\ bits = y[2]
    OBVIOUS
  <2>3. b \in 0 .. BgBlkCnt - 1 /\ bits \in Bitmaps /\ Cardinality(bits) = n
    BY <2>1, <2>2
  <2>4. bits # {}
    BY <1>2, <2>3, FS_EmptySet
  <2>5. PICK e : e = SubExtent(b, bits)
    OBVIOUS
  <2>6. e \in SegmExtents /\ UnitsOf(e) = {b} \X bits /\ SizeOf(e) = n * FgPerSubblk
    BY <2>3, <2>4, <2>5, SubIsOf
  <2>7. sub = Append(<< >>, e) /\ << >> \in Seq(SegmExtents)
    BY <2>1, <2>2, <2>5
  <2>8. sub \in Seq(SegmExtents) /\ DOMAIN sub = {1}
    BY <2>6, <2>7
  <2>9. SizeOfAll(sub) = SizeOf(e)
    <3>1. SizeOf(e) \in Nat
      BY <2>6, ExtentPlaces
    <3>2. SizeOfAll(Append(<< >>, e)) = SizeOfAll(<< >>) + SizeOf(e)
      BY <2>6, <2>7, PlacesOfAppend
    <3>3. SizeOfAll(<< >>) = 0
      BY PlacesOfEmpty
    <3>4. SizeOfAll(sub) = 0 + SizeOf(e)
      BY <2>7, <3>2, <3>3
    <3> QED
      BY <3>1, <3>4
  <2>10. UnitsOfAll(sub) = UnitsOf(e)
    BY <2>6, <2>7, UnitsOfAppend, NoUnits
  <2>11. UnitsOf(e) \subseteq free
    BY <2>1, <2>2, <2>6
  <2> QED
    BY <2>6, <2>8, <2>9, <2>10, <2>11 DEF Scattered
<1> QED
  BY <1>1, <1>2

\* Whatever bg gives is apart, was free, and is as much as it was asked for.
LEMMA AllocsFit ==
  ASSUME NEW n \in Nat, NEW free, free \subseteq Units, NEW more \in Allocs(n, free)
  PROVE  /\ more \in Seq(SegmExtents) /\ Scattered(more)
         /\ UnitsOfAll(more) \subseteq free
         /\ SizeOfAll(more) \in Nat /\ n <= SizeOfAll(more)
<1>1. PICK exts \in FullAllocs(BlksFor(n), free) :
        \E sub \in SubAllocs(SubblksFor(n), free \ UnitsOfAll(exts)) : more = exts \o sub
  BY DEF Allocs
<1>2. PICK sub \in SubAllocs(SubblksFor(n), free \ UnitsOfAll(exts)) : more = exts \o sub
  BY <1>1
<1>3. PICK b, s : /\ b = BlksFor(n) /\ s = SubblksFor(n) /\ b \in Nat /\ s \in Nat
                  /\ n <= b * FgPerBlk + s * FgPerSubblk
  BY AskedIsEnough
<1>4. exts \in Fragments /\ SizeOfAll(exts) = b * FgPerBlk /\ UnitsOfAll(exts) \subseteq free
  BY <1>1, <1>3 DEF FullAllocs
<1>5. exts \in Seq(SegmExtents) /\ Scattered(exts)
  BY <1>4, FragmentsApart
<1>6. /\ sub \in Seq(SegmExtents) /\ Scattered(sub)
      /\ UnitsOfAll(sub) \subseteq free \ UnitsOfAll(exts)
      /\ SizeOfAll(sub) = s * FgPerSubblk
  <2>1. PICK f : f = free \ UnitsOfAll(exts)
    OBVIOUS
  <2>2. f \subseteq Units /\ sub \in SubAllocs(s, f)
    BY <1>2, <1>3, <2>1
  <2>3. /\ sub \in Seq(SegmExtents) /\ Scattered(sub)
        /\ UnitsOfAll(sub) \subseteq f /\ SizeOfAll(sub) = s * FgPerSubblk
    BY <1>3, <2>2, SubAllocsFit
  <2> QED
    BY <2>1, <2>3
<1>7. UnitsOfAll(exts) \cap UnitsOfAll(sub) = {}
  BY <1>6
<1>8. more \in Seq(SegmExtents) /\ Scattered(more)
  BY <1>2, <1>5, <1>6, <1>7, ConcatScattered, PlacesOfConcat
<1>9. /\ SizeOfAll(more) = SizeOfAll(exts) + SizeOfAll(sub)
      /\ UnitsOfAll(more) = UnitsOfAll(exts) \cup UnitsOfAll(sub)
  BY <1>2, <1>5, <1>6, PlacesOfConcat
<1>10. SizeOfAll(more) \in Nat
  BY <1>8, SizeIsLen
<1> QED
  BY <1>3, <1>4, <1>6, <1>8, <1>9, <1>10

-----------------------------------------------------------------------------
(* The invariant of a stream in a segment *)

\* What an array and its segment keep from call to call: the extents are
\* apart from each other and from others, and while it is open the array
\* counts exactly what they hold.
StreamInv ==
  /\ segm \in Seq(SegmExtents)
  /\ Scattered(segm)
  /\ UnitsOfAll(segm) \cap others = {}
  /\ data \in [Places -> Values]
  /\ others \subseteq Units
  /\ flags \in {"realloc on grow", "extend"}
  /\ mode \in {"open", "broken"}
  /\ arr \in [past_end : Nat, real_past_end : Nat]
  /\ arr.past_end <= arr.real_past_end
  /\ mode = "open" => arr.real_past_end = SizeOfAll(segm)

\* What is read of a segment is what bg has at its places.
LEMMA ReadIs ==
  ASSUME NEW s \in Seq(SegmExtents), Scattered(s), NEW d \in [Places -> Values]
  PROVE  /\ SizeOfAll(s) \in Nat
         /\ DOMAIN PlacesOfAll(s) = 1 .. SizeOfAll(s)
         /\ DOMAIN Read(d, s) = 1 .. SizeOfAll(s)
         /\ \A i \in 1 .. SizeOfAll(s) :
              /\ PlacesOfAll(s)[i] \in Places
              /\ Read(d, s)[i] = d[PlacesOfAll(s)[i]] /\ Read(d, s)[i] \in Values
         /\ \A i, j \in 1 .. SizeOfAll(s) : PlacesOfAll(s)[i] = PlacesOfAll(s)[j] => i = j
<1>1. PICK pl, n : pl = PlacesOfAll(s) /\ n = SizeOfAll(s)
  OBVIOUS
<1>2. IsRow(pl) /\ Len(pl) = n /\ n \in Nat
  BY <1>1, SizeIsLen
<1>3. DOMAIN pl = 1 .. n
  BY <1>2, RowLen
<1>4. PlacesApart(s)
  BY ScatteredApart
<1>5. /\ \A i \in 1 .. n : pl[i] \in Places
      /\ \A i, j \in 1 .. n : pl[i] = pl[j] => i = j
  BY <1>1, <1>4 DEF PlacesApart
<1>6. Read(d, s) = [i \in 1 .. n |-> d[pl[i]]]
  BY <1>1, <1>3 DEF Read
<1> QED
  BY <1>1, <1>2, <1>3, <1>5, <1>6

\* Junk is content too.
LEMMA SpoiledType ==
  ASSUME NEW d \in [Places -> Values], NEW lost
  PROVE  Spoiled(d, lost) \in [Places -> Values]
BY DEF Spoiled, Values

\* What was written is written again in the same order.
LEMMA RewrittenKeeps ==
  ASSUME segm \in Seq(SegmExtents), Scattered(segm), data \in [Places -> Values],
         NEW exts \in Seq(SegmExtents), Scattered(exts), SizeOfAll(segm) <= SizeOfAll(exts)
  PROVE  /\ RewrittenIn(exts) \in [Places -> Values]
         /\ \A i \in 1 .. SizeOfAll(segm) :
              RewrittenIn(exts)[PlacesOfAll(exts)[i]] = data[PlacesOfAll(segm)[i]]
<1>1. PICK saved, places, d, n, m :
        /\ saved = Read(data, segm) /\ places = PlacesOfAll(exts)
        /\ d = Spoiled(data, SubSeq(segm, Len(Kept) + 1, Len(segm)))
        /\ n = SizeOfAll(segm) /\ m = SizeOfAll(exts)
  OBVIOUS
<1> DEFINE From(p) == {i \in DOMAIN saved : places[i] = p}
<1>2. RewrittenIn(exts) =
        [p \in Places |-> IF From(p) # {} THEN saved[CHOOSE i \in From(p) : TRUE] ELSE d[p]]
  BY <1>1 DEF RewrittenIn
<1>3. /\ n \in Nat /\ DOMAIN saved = 1 .. n
      /\ \A i \in 1 .. n : saved[i] = data[PlacesOfAll(segm)[i]] /\ saved[i] \in Values
  BY <1>1, ReadIs
<1>4. /\ m \in Nat /\ \A i \in 1 .. m : places[i] \in Places
      /\ \A i, j \in 1 .. m : places[i] = places[j] => i = j
  BY <1>1, ReadIs
<1>5. n <= m
  BY <1>1
<1>6. d \in [Places -> Values]
  BY <1>1, SpoiledType
<1>7. \A p : From(p) # {} => (CHOOSE i \in From(p) : TRUE) \in From(p)
  OBVIOUS
<1>8. \A p : From(p) # {} => saved[CHOOSE i \in From(p) : TRUE] \in Values
  <2>1. \A p : From(p) \subseteq 1 .. n
    BY <1>3
  <2> HIDE DEF From
  <2> QED
    BY <1>3, <1>7, <2>1
<1>9. RewrittenIn(exts) \in [Places -> Values]
  <2> HIDE DEF From
  <2> QED
    BY <1>2, <1>6, <1>8
<1>10. ASSUME NEW i \in 1 .. n
       PROVE  RewrittenIn(exts)[places[i]] = saved[i]
  <2>1. places[i] \in Places /\ i \in 1 .. m
    BY <1>3, <1>4, <1>5
  <2>2. i \in From(places[i])
    BY <1>3
  <2>3. \A j \in From(places[i]) : j = i
    BY <1>3, <1>4, <1>5
  <2>4. (CHOOSE j \in From(places[i]) : TRUE) = i
    BY <2>2, <2>3
  <2>5. From(places[i]) # {}
    BY <2>2
  <2> HIDE DEF From
  <2> QED
    BY <1>2, <2>1, <2>4, <2>5
<1> QED
  BY <1>1, <1>3, <1>9, <1>10

\* Blocks that keep their content, wherever they are then.
LEMMA SameContent ==
  ASSUME NEW s \in Seq(SegmExtents), Scattered(s), NEW d \in [Places -> Values],
         NEW t \in Seq(SegmExtents), Scattered(t), NEW e \in [Places -> Values],
         NEW n \in Nat, n <= SizeOfAll(s), n <= SizeOfAll(t),
         \A i \in 1 .. n : e[PlacesOfAll(t)[i]] = d[PlacesOfAll(s)[i]]
  PROVE  \A b \in 0 .. n - 1 : Read(e, t)[b + 1] = Read(d, s)[b + 1]
<1>1. PICK a, c : a = SizeOfAll(s) /\ c = SizeOfAll(t)
  OBVIOUS
<1>2. a \in Nat /\ \A i \in 1 .. a : Read(d, s)[i] = d[PlacesOfAll(s)[i]]
  BY <1>1, ReadIs
<1>3. c \in Nat /\ \A i \in 1 .. c : Read(e, t)[i] = e[PlacesOfAll(t)[i]]
  BY <1>1, ReadIs
<1>4. ASSUME NEW b \in 0 .. n - 1 PROVE Read(e, t)[b + 1] = Read(d, s)[b + 1]
  <2>1. b + 1 \in 1 .. n /\ b + 1 \in 1 .. a /\ b + 1 \in 1 .. c
    BY <1>1, <1>2, <1>3
  <2> QED
    BY <1>2, <1>3, <2>1
<1> QED
  BY <1>4

\* The content of the first n blocks of a segment.
ContentOf(d, s, n) ==
  LET all == Read(d, s) IN [b \in 0 .. n - 1 |-> all[b + 1]]

\* It is what bg has at their places.
LEMMA ContentOfIs ==
  ASSUME NEW s \in Seq(SegmExtents), Scattered(s), NEW d \in [Places -> Values],
         NEW n \in Nat, n <= SizeOfAll(s)
  PROVE  /\ ContentOf(d, s, n) \in [0 .. n - 1 -> Values]
         /\ \A b \in 0 .. n - 1 : /\ ContentOf(d, s, n)[b] = Read(d, s)[b + 1]
                                  /\ ContentOf(d, s, n)[b] = d[PlacesOfAll(s)[b + 1]]
<1>1. PICK a, r, pl : a = SizeOfAll(s) /\ r = Read(d, s) /\ pl = PlacesOfAll(s)
  OBVIOUS
<1>2. a \in Nat /\ \A i \in 1 .. a : r[i] = d[pl[i]] /\ r[i] \in Values
  BY <1>1, ReadIs
<1>3. ContentOf(d, s, n) = [b \in 0 .. n - 1 |-> r[b + 1]]
  BY <1>1 DEF ContentOf
<1>4. \A b \in 0 .. n - 1 : b + 1 \in 1 .. a
  BY <1>1, <1>2
<1> QED
  BY <1>1, <1>2, <1>3, <1>4

\* The facts of the invariant that the content of the array rests on.
LEMMA ArrayIsHeld ==
  ASSUME NEW a, a \in [past_end : Nat, real_past_end : Nat], a.past_end <= a.real_past_end,
         NEW s \in Seq(SegmExtents), Scattered(s), a.real_past_end = SizeOfAll(s)
  PROVE  /\ a.past_end \in Nat /\ a.past_end <= SizeOfAll(s)
         /\ SizeOfAll(s) \in Nat /\ SizeOfAll(s) <= BgBlkCnt * FgPerBlk
<1>1. SizeOfAll(s) <= BgBlkCnt * FgPerBlk
  BY SizeInBg
<1>2. SizeOfAll(s) \in Nat
  BY SizeIsLen
<1> QED
  BY <1>1, <1>2

\* A step that moves the end of the array and keeps the blocks of both.
LEMMA EndMoves ==
  ASSUME StreamInv, StreamInv', mode = "open", mode' = "open",
         NEW n \in Nat, n <= arr.past_end, n <= arr'.past_end,
         n = arr.past_end \/ n = arr'.past_end,
         \A i \in 1 .. n : data'[PlacesOfAll(segm')[i]] = data[PlacesOfAll(segm)[i]]
  PROVE  UNCHANGED <<arr.past_end, Content>> \/ Space!Next
<1>1. PICK p, q, lim : p = arr.past_end /\ q = arr'.past_end /\ lim = BgBlkCnt * FgPerBlk
  OBVIOUS
<1>2. p \in Nat /\ p <= SizeOfAll(segm) /\ SizeOfAll(segm) \in Nat /\ SizeOfAll(segm) <= lim
  BY <1>1, ArrayIsHeld DEF StreamInv
<1>3. q \in Nat /\ q <= SizeOfAll(segm') /\ SizeOfAll(segm') \in Nat /\ SizeOfAll(segm') <= lim
  BY <1>1, ArrayIsHeld DEF StreamInv
<1>4. PICK c, e : c = ContentOf(data, segm, p) /\ e = ContentOf(data', segm', q)
  OBVIOUS
<1>5. Content = c /\ Content' = e
  BY <1>1, <1>4 DEF Content, ContentOf
<1>6. /\ c \in [0 .. p - 1 -> Values]
      /\ \A b \in 0 .. p - 1 : c[b] = data[PlacesOfAll(segm)[b + 1]]
  <2>1. segm \in Seq(SegmExtents) /\ Scattered(segm) /\ data \in [Places -> Values]
    BY DEF StreamInv
  <2>2. /\ ContentOf(data, segm, p) \in [0 .. p - 1 -> Values]
        /\ \A b \in 0 .. p - 1 : ContentOf(data, segm, p)[b] = data[PlacesOfAll(segm)[b + 1]]
    BY <1>2, <2>1, ContentOfIs
  <2> QED
    BY <1>4, <2>2
<1>7. /\ e \in [0 .. q - 1 -> Values]
      /\ \A b \in 0 .. q - 1 : e[b] = data'[PlacesOfAll(segm')[b + 1]]
  <2>1. segm' \in Seq(SegmExtents) /\ Scattered(segm') /\ data' \in [Places -> Values]
    BY DEF StreamInv
  <2>2. /\ ContentOf(data', segm', q) \in [0 .. q - 1 -> Values]
        /\ \A b \in 0 .. q - 1 : ContentOf(data', segm', q)[b] = data'[PlacesOfAll(segm')[b + 1]]
    BY <1>3, <2>1, ContentOfIs
  <2> QED
    BY <1>4, <2>2
<1>8. \A b \in 0 .. n - 1 : e[b] = c[b]
  <2>1. \A b \in 0 .. n - 1 : b \in 0 .. p - 1 /\ b \in 0 .. q - 1 /\ b + 1 \in 1 .. n
    BY <1>1, <1>2, <1>3
  <2> QED
    BY <1>6, <1>7, <2>1
<1>9. CASE p = q
  <2>1. n = p
    BY <1>1, <1>9
  <2>2. e = c
    BY <1>6, <1>7, <1>8, <1>9, <2>1
  <2> QED
    BY <1>1, <1>5, <1>9, <2>2
<1>10. CASE p < q
  <2>1. n = p
    BY <1>1, <1>2, <1>3, <1>10
  <2>2. q \in p + 1 .. lim
    <3>1. lim \in Nat
      BY <1>1, Consts
    <3> QED
      BY <1>2, <1>3, <1>10, <3>1
  <2>3. Space!Grow
    BY <1>1, <1>5, <1>7, <1>8, <2>1, <2>2 DEF Space!Grow, Space!Contents, Space!KeepUpTo
  <2> QED
    BY <2>3 DEF Space!Next
<1>11. CASE q < p
  <2>1. n = q
    BY <1>1, <1>2, <1>3, <1>11
  <2>2. q \in 0 .. p - 1
    BY <1>2, <1>3, <1>11
  <2>3. Space!Shrink
    BY <1>1, <1>5, <1>7, <1>8, <2>1, <2>2 DEF Space!Shrink, Space!Contents, Space!KeepUpTo
  <2> QED
    BY <2>3 DEF Space!Next
<1> QED
  BY <1>2, <1>3, <1>9, <1>10, <1>11

-----------------------------------------------------------------------------
(* What each step keeps *)

\* Until a grow throws, a step is one of a row of blocks.
StepKeeps == mode' = "open" => UNCHANGED <<arr.past_end, Content>> \/ Space!Next

\* No grow or shrink is of no blocks.
LEMMA CntsAreCounts ==
  ASSUME NEW cnt \in Cnts
  PROVE  cnt \in Nat \ {0}
<1>1. BlkNrExhaust \in Nat
  BY BlockArrayAssumption, ExtentAssumption DEF BlkNrs
<1> QED
  BY <1>1, SegmentBlockArrayAssumption

\* A grow in the slack shows blocks that the segment already has.
LEMMA GrowInSlackKeeps ==
  ASSUME StreamInv, NEW cnt \in Cnts, GrowInSlack(cnt)
  PROVE  StreamInv' /\ StepKeeps
<1>1. cnt \in Nat \ {0}
  BY CntsAreCounts
<1>2. /\ mode = "open" /\ arr.real_past_end - arr.past_end >= cnt
      /\ arr' = [arr EXCEPT !.past_end = @ + cnt]
      /\ segm' = segm /\ data' = data /\ others' = others /\ flags' = flags /\ mode' = mode
  BY DEF GrowInSlack, FitsInSlack, Slack, GrownInSlack
<1>3. arr \in [past_end : Nat, real_past_end : Nat]
  BY DEF StreamInv
<1>4. /\ arr' \in [past_end : Nat, real_past_end : Nat]
      /\ arr'.past_end = arr.past_end + cnt /\ arr'.real_past_end = arr.real_past_end
  BY <1>1, <1>2, <1>3
<1>5. arr.past_end \in Nat /\ arr'.past_end <= arr'.real_past_end
  BY <1>1, <1>2, <1>3, <1>4
<1>6. StreamInv'
  BY <1>2, <1>4, <1>5 DEF StreamInv
<1>7. arr.past_end <= arr'.past_end
  BY <1>1, <1>4, <1>5
<1>8. \A i \in 1 .. arr.past_end : data'[PlacesOfAll(segm')[i]] = data[PlacesOfAll(segm)[i]]
  BY <1>2
<1>9. UNCHANGED <<arr.past_end, Content>> \/ Space!Next
  BY <1>2, <1>5, <1>6, <1>7, <1>8, EndMoves
<1> QED
  BY <1>6, <1>9 DEF StepKeeps

\* What realloc keeps is the segment, or all but its last extent.
LEMMA KeptFacts ==
  ASSUME StreamInv
  PROVE  /\ Kept \in Seq(SegmExtents) /\ Scattered(Kept)
         /\ UnitsOfAll(Kept) \subseteq UnitsOfAll(segm)
         /\ SizeOfAll(segm) \in Nat /\ SizeOfAll(Kept) \in Nat
         /\ SizeOfAll(Kept) <= SizeOfAll(segm)
<1>1. segm \in Seq(SegmExtents) /\ Scattered(segm)
  BY DEF StreamInv
<1>2. SizeOfAll(segm) \in Nat
  BY <1>1, SizeIsLen
<1>3. CASE LastIsRealloced
  <2>1. Kept = Front(segm) /\ segm # << >>
    BY <1>3 DEF Kept, LastIsRealloced
  <2>2. PICK f, e : f = Front(segm) /\ e = Last(segm)
    OBVIOUS
  <2>3. /\ f \in Seq(SegmExtents) /\ e \in SegmExtents /\ Scattered(f)
        /\ SizeOfAll(segm) = SizeOfAll(f) + SizeOf(e)
        /\ UnitsOfAll(f) \subseteq UnitsOfAll(segm)
    BY <1>1, <2>1, <2>2, FrontAndLast
  <2>4. SizeOfAll(f) \in Nat /\ SizeOf(e) \in Nat
    BY <2>3, SizeIsLen, ExtentPlaces
  <2> QED
    BY <1>2, <2>1, <2>2, <2>3, <2>4
<1>4. CASE ~ LastIsRealloced
  BY <1>1, <1>2, <1>4 DEF Kept
<1> QED
  BY <1>3, <1>4

\* A grow gets enough of what is free, and what was written is there.
LEMMA GrowInSegmKeeps ==
  ASSUME StreamInv, NEW cnt \in Cnts, GrowInSegm(cnt)
  PROVE  StreamInv' /\ StepKeeps
<1>1. cnt \in Nat \ {0}
  BY CntsAreCounts
<1>2. PICK n, free : n = SizeToAlloc(cnt) /\ free = FreeToGrow
  OBVIOUS
<1>3. PICK more \in Allocs(n, free) :
        /\ segm' = Kept \o more /\ data' = RewrittenIn(segm')
        /\ arr' = Grown(arr, cnt, RealCnt(cnt, segm'))
  BY <1>2 DEF GrowInSegm
<1>4. /\ mode = "open" /\ ~ (arr.real_past_end - arr.past_end >= cnt)
      /\ others' = others /\ flags' = flags /\ mode' = mode
  BY DEF GrowInSegm, FitsInSlack, Slack
<1>5. /\ segm \in Seq(SegmExtents) /\ Scattered(segm) /\ data \in [Places -> Values]
      /\ arr \in [past_end : Nat, real_past_end : Nat] /\ arr.past_end <= arr.real_past_end
      /\ arr.real_past_end = SizeOfAll(segm) /\ UnitsOfAll(segm) \cap others = {}
  BY <1>4 DEF StreamInv
<1>6. PICK k, was, kept, past : /\ k = Kept /\ was = SizeOfAll(segm)
                                /\ kept = SizeOfAll(k) /\ past = arr.past_end
  OBVIOUS
<1>7. /\ k \in Seq(SegmExtents) /\ Scattered(k) /\ UnitsOfAll(k) \subseteq UnitsOfAll(segm)
      /\ was \in Nat /\ kept \in Nat /\ kept <= was
  BY <1>6, KeptFacts
<1>8. past \in Nat /\ past <= was /\ was < past + cnt
  BY <1>1, <1>4, <1>5, <1>6, <1>7
<1>9. n = cnt - (was - past) + was - kept
  BY <1>2, <1>5, <1>6 DEF SizeToAlloc, Request, Slack
<1>10. n \in Nat
  BY <1>1, <1>7, <1>8, <1>9
<1>11. free \subseteq Units /\ free \cap others = {} /\ free \cap UnitsOfAll(k) = {}
  BY <1>2, <1>6 DEF FreeToGrow
<1>12. PICK got : got = SizeOfAll(more)
  OBVIOUS
<1>13. /\ more \in Seq(SegmExtents) /\ Scattered(more) /\ UnitsOfAll(more) \subseteq free
       /\ got \in Nat /\ n <= got
  BY <1>10, <1>11, <1>12, AllocsFit
<1>14. segm' \in Seq(SegmExtents) /\ Scattered(segm')
  BY <1>3, <1>6, <1>7, <1>11, <1>13, ConcatScattered, PlacesOfConcat
<1>15. SizeOfAll(segm') = kept + got /\ UnitsOfAll(segm') = UnitsOfAll(k) \cup UnitsOfAll(more)
  BY <1>3, <1>6, <1>7, <1>12, <1>13, PlacesOfConcat
<1>16. UnitsOfAll(segm') \cap others' = {}
  BY <1>4, <1>5, <1>7, <1>11, <1>13, <1>15
<1>17. was <= SizeOfAll(segm') /\ past + cnt <= SizeOfAll(segm')
  BY <1>1, <1>7, <1>8, <1>9, <1>10, <1>13, <1>15
<1>18. /\ data' \in [Places -> Values]
       /\ \A i \in 1 .. was : data'[PlacesOfAll(segm')[i]] = data[PlacesOfAll(segm)[i]]
  BY <1>3, <1>5, <1>6, <1>14, <1>17, RewrittenKeeps
<1>19. SizeOfAll(segm') \in Nat
  BY <1>7, <1>13, <1>15
<1>20. arr' = [past_end |-> past + cnt,
               real_past_end |-> arr.real_past_end + (SizeOfAll(segm') - was)]
  BY <1>3, <1>6 DEF Grown, RealCnt
<1>21. arr'.past_end = past + cnt /\ arr'.real_past_end = SizeOfAll(segm')
  BY <1>5, <1>6, <1>7, <1>19, <1>20
<1>22. arr' \in [past_end : Nat, real_past_end : Nat]
  BY <1>1, <1>8, <1>19, <1>20, <1>21
<1>23. StreamInv'
  BY <1>4, <1>14, <1>16, <1>17, <1>18, <1>21, <1>22 DEF StreamInv
<1>24. \A i \in 1 .. past : data'[PlacesOfAll(segm')[i]] = data[PlacesOfAll(segm)[i]]
  BY <1>7, <1>8, <1>18
<1>25. past <= arr'.past_end
  BY <1>1, <1>8, <1>21
<1>26. UNCHANGED <<arr.past_end, Content>> \/ Space!Next
  BY <1>4, <1>6, <1>8, <1>23, <1>24, <1>25, EndMoves
<1> QED
  BY <1>23, <1>26 DEF StepKeeps

\* The last extent is gone, of what the array counts: nothing is open then.
LEMMA GrowThrowsKeeps ==
  ASSUME StreamInv, NEW cnt \in Cnts, GrowThrows(cnt)
  PROVE  StreamInv' /\ StepKeeps
<1>1. /\ segm' = Kept /\ data' = Spoiled(data, <<Last(segm)>>) /\ mode' = "broken"
      /\ arr' = arr /\ others' = others /\ flags' = flags
  BY DEF GrowThrows
<1>2. /\ Kept \in Seq(SegmExtents) /\ Scattered(Kept)
      /\ UnitsOfAll(Kept) \subseteq UnitsOfAll(segm)
  BY KeptFacts
<1>3. data' \in [Places -> Values]
  BY <1>1, SpoiledType DEF StreamInv
<1>4. UnitsOfAll(segm') \cap others' = {}
  BY <1>1, <1>2 DEF StreamInv
<1>5. StreamInv'
  BY <1>1, <1>2, <1>3, <1>4 DEF StreamInv
<1> QED
  BY <1>1, <1>5 DEF StepKeeps

\* What is not given back by a shrink is as it was.
LEMMA ShrinksToKeeps ==
  ASSUME StreamInv, NEW exts, StartOf(exts, segm), ShrinksTo(exts)
  PROVE  /\ segm' = exts /\ segm' \in Seq(SegmExtents) /\ Scattered(segm')
         /\ UnitsOfAll(segm') \cap others' = {}
         /\ data' \in [Places -> Values]
         /\ others' = others /\ flags' = flags /\ mode' = mode
         /\ SizeOfAll(segm) \in Nat /\ SizeOfAll(segm') \in Nat
         /\ SizeOfAll(segm') <= SizeOfAll(segm)
         /\ \A i \in 1 .. SizeOfAll(segm') :
              data'[PlacesOfAll(segm')[i]] = data[PlacesOfAll(segm)[i]]
<1>1. /\ segm \in Seq(SegmExtents) /\ Scattered(segm) /\ data \in [Places -> Values]
      /\ UnitsOfAll(segm) \cap others = {}
  BY DEF StreamInv
<1>2. segm' = exts /\ others' = others /\ flags' = flags /\ mode' = mode
  BY DEF ShrinksTo
<1>3. PICK a, c, n, m : /\ a = PlacesOfAll(segm) /\ c = PlacesOfAll(exts)
                        /\ n = SizeOfAll(segm) /\ m = SizeOfAll(exts)
  OBVIOUS
<1>4. /\ exts \in Seq(SegmExtents) /\ Scattered(exts)
      /\ m \in Nat /\ m <= n /\ \A i \in 1 .. m : c[i] = a[i]
      /\ UnitsOfAll(exts) \subseteq UnitsOfAll(segm)
  BY <1>1, <1>3 DEF StartOf
<1>5. data' = [p \in Places |-> IF p \in Range(a) \ Range(c) THEN Junk ELSE data[p]]
  BY <1>3 DEF ShrinksTo
<1>6. data' \in [Places -> Values]
  BY <1>1, <1>5 DEF Values
<1>7. n \in Nat /\ \A i \in 1 .. n : a[i] \in Places
  BY <1>1, <1>3, ReadIs
<1>8. DOMAIN c = 1 .. m /\ \A i \in 1 .. m : c[i] \in Places
  BY <1>1, <1>3, <1>4, ReadIs
<1>9. ASSUME NEW i \in 1 .. m PROVE data'[c[i]] = data[a[i]]
  <2>1. c[i] \in Range(c) /\ c[i] \in Places
    BY <1>8 DEF Range
  <2>2. data'[c[i]] = data[c[i]]
    BY <1>5, <2>1
  <2> QED
    BY <1>4, <2>2
<1> QED
  BY <1>1, <1>2, <1>3, <1>4, <1>6, <1>7, <1>9

\* A shrink gives back no block that is still of the array.
LEMMA ShrinkKeeps ==
  ASSUME StreamInv, NEW cnt \in Cnts, Shrink(cnt)
  PROVE  StreamInv' /\ StepKeeps
<1>1. cnt \in Nat \ {0}
  BY CntsAreCounts
<1>2. /\ mode = "open" /\ cnt <= arr.past_end - BeginBlkNr
      /\ ShrinksTo(ShrunkSegm(cnt + Slack(arr), FALSE))
      /\ arr' = Shrunk(arr, cnt, SizeOfAll(segm) - SizeOfAll(segm'))
  BY DEF Shrink, BlkCntOf
<1>3. /\ segm \in Seq(SegmExtents) /\ arr \in [past_end : Nat, real_past_end : Nat]
      /\ arr.past_end <= arr.real_past_end /\ arr.real_past_end = SizeOfAll(segm)
  BY <1>2 DEF StreamInv
<1>4. PICK sz, exts : sz = cnt + Slack(arr) /\ exts = ShrunkSegm(sz, FALSE)
  OBVIOUS
<1>5. PICK past, was : past = arr.past_end /\ was = arr.real_past_end
  OBVIOUS
<1>6. past \in Nat /\ was \in Nat /\ past <= was /\ was = SizeOfAll(segm) /\ cnt <= past
  BY <1>1, <1>2, <1>3, <1>5, Consts
<1>7. sz = cnt + (was - past) /\ sz \in Nat
  BY <1>1, <1>4, <1>5, <1>6 DEF Slack
<1>8. StartOf(exts, segm) /\ SizeOfAll(segm) <= SizeOfAll(exts) + sz
  BY <1>3, <1>4, <1>7, ShrunkStart
<1>9. ShrinksTo(exts)
  BY <1>2, <1>4
<1>10. PICK rest : rest = SizeOfAll(segm')
  OBVIOUS
<1>11. /\ segm' = exts /\ segm' \in Seq(SegmExtents) /\ Scattered(segm')
       /\ UnitsOfAll(segm') \cap others' = {}
       /\ data' \in [Places -> Values]
       /\ others' = others /\ flags' = flags /\ mode' = mode
       /\ rest \in Nat /\ rest <= was
       /\ \A i \in 1 .. rest : data'[PlacesOfAll(segm')[i]] = data[PlacesOfAll(segm)[i]]
  BY <1>6, <1>8, <1>9, <1>10, ShrinksToKeeps
<1>12. was <= rest + sz
  BY <1>6, <1>8, <1>10, <1>11
<1>13. arr' = [past_end |-> past - cnt, real_past_end |-> was - (was - rest)]
  BY <1>2, <1>5, <1>6, <1>10 DEF Shrunk
<1>14. /\ arr'.past_end = past - cnt /\ arr'.real_past_end = rest
       /\ past - cnt \in Nat /\ past - cnt <= rest /\ past - cnt <= past
  BY <1>1, <1>6, <1>7, <1>11, <1>12, <1>13
<1>15. arr' \in [past_end : Nat, real_past_end : Nat]
  BY <1>11, <1>13, <1>14
<1>16. StreamInv'
  BY <1>10, <1>11, <1>14, <1>15 DEF StreamInv
<1>17. \A i \in 1 .. past - cnt : data'[PlacesOfAll(segm')[i]] = data[PlacesOfAll(segm)[i]]
  BY <1>11, <1>14
<1>18. UNCHANGED <<arr.past_end, Content>> \/ Space!Next
  <2>1. PICK n : n = past - cnt
    OBVIOUS
  <2> QED
    BY <1>2, <1>5, <1>11, <1>14, <1>16, <1>17, <2>1, EndMoves
<1> QED
  BY <1>16, <1>18 DEF StepKeeps

\* Neither does a release, that may split an extent.
LEMMA ReleaseKeeps ==
  ASSUME StreamInv, ReleaseSegm
  PROVE  StreamInv' /\ StepKeeps
<1>2. /\ mode = "open" /\ Slack(arr) > 0
      /\ ShrinksTo(ShrunkSegm(Slack(arr), TRUE))
      /\ arr' = Released(arr, SizeOfAll(segm) - SizeOfAll(segm'))
  BY DEF ReleaseSegm
<1>3. /\ segm \in Seq(SegmExtents) /\ arr \in [past_end : Nat, real_past_end : Nat]
      /\ arr.past_end <= arr.real_past_end /\ arr.real_past_end = SizeOfAll(segm)
  BY <1>2 DEF StreamInv
<1>4. PICK sz, exts : sz = Slack(arr) /\ exts = ShrunkSegm(sz, TRUE)
  OBVIOUS
<1>5. PICK past, was : past = arr.past_end /\ was = arr.real_past_end
  OBVIOUS
<1>6. past \in Nat /\ was \in Nat /\ past <= was /\ was = SizeOfAll(segm)
  BY <1>3, <1>5
<1>7. sz = was - past /\ sz \in Nat
  BY <1>4, <1>5, <1>6 DEF Slack
<1>8. StartOf(exts, segm) /\ SizeOfAll(segm) <= SizeOfAll(exts) + sz
  BY <1>3, <1>4, <1>7, ShrunkStart
<1>9. ShrinksTo(exts)
  BY <1>2, <1>4
<1>10. PICK rest : rest = SizeOfAll(segm')
  OBVIOUS
<1>11. /\ segm' = exts /\ segm' \in Seq(SegmExtents) /\ Scattered(segm')
       /\ UnitsOfAll(segm') \cap others' = {}
       /\ data' \in [Places -> Values]
       /\ others' = others /\ flags' = flags /\ mode' = mode
       /\ rest \in Nat /\ rest <= was
       /\ \A i \in 1 .. rest : data'[PlacesOfAll(segm')[i]] = data[PlacesOfAll(segm)[i]]
  BY <1>6, <1>8, <1>9, <1>10, ShrinksToKeeps
<1>12. was <= rest + sz
  BY <1>6, <1>8, <1>10, <1>11
<1>13. arr' = [arr EXCEPT !.real_past_end = was - (was - rest)]
  BY <1>2, <1>5, <1>6, <1>10 DEF Released
<1>14. was - (was - rest) = rest /\ past <= rest
  BY <1>6, <1>7, <1>11, <1>12
<1>15. /\ arr' \in [past_end : Nat, real_past_end : Nat]
       /\ arr'.past_end = past /\ arr'.real_past_end = rest
  BY <1>3, <1>5, <1>11, <1>13, <1>14
<1>16. StreamInv'
  BY <1>10, <1>11, <1>14, <1>15 DEF StreamInv
<1>17. \A i \in 1 .. past : data'[PlacesOfAll(segm')[i]] = data[PlacesOfAll(segm)[i]]
  BY <1>6, <1>11, <1>14
<1>18. UNCHANGED <<arr.past_end, Content>> \/ Space!Next
  BY <1>2, <1>5, <1>6, <1>11, <1>15, <1>16, <1>17, EndMoves
<1> QED
  BY <1>16, <1>18 DEF StepKeeps

\* What is written in a block is written in no other.
LEMMA WriteKeeps ==
  ASSUME StreamInv, NEW b, NEW v \in Data, WriteBlk(b, v)
  PROVE  StreamInv' /\ StepKeeps
<1>1. /\ mode = "open" /\ b \in BeginBlkNr .. arr.past_end - 1
      /\ data' = [data EXCEPT ![PlacesOfAll(segm)[b + 1]] = v]
      /\ arr' = arr /\ segm' = segm /\ others' = others /\ flags' = flags /\ mode' = mode
  BY DEF WriteBlk, BlksOfArray
<1>2. /\ segm \in Seq(SegmExtents) /\ Scattered(segm) /\ data \in [Places -> Values]
      /\ arr \in [past_end : Nat, real_past_end : Nat]
      /\ arr.past_end <= arr.real_past_end /\ arr.real_past_end = SizeOfAll(segm)
  BY <1>1 DEF StreamInv
<1>3. PICK past, n, pl, lim : /\ past = arr.past_end /\ n = SizeOfAll(segm)
                              /\ pl = PlacesOfAll(segm) /\ lim = BgBlkCnt * FgPerBlk
  OBVIOUS
<1>4. past \in Nat /\ past <= n /\ n \in Nat /\ n <= lim /\ lim \in Nat
  <2>1. lim \in Nat
    BY <1>3, Consts
  <2> QED
    BY <1>2, <1>3, <2>1, ArrayIsHeld
<1>5. b \in 0 .. past - 1 /\ b + 1 \in 1 .. n
  BY <1>1, <1>3, <1>4, Consts
<1>6. /\ \A i \in 1 .. n : pl[i] \in Places
      /\ \A i, j \in 1 .. n : pl[i] = pl[j] => i = j
  BY <1>2, <1>3, ReadIs
<1>7. data' = [data EXCEPT ![pl[b + 1]] = v] /\ v \in Values
  BY <1>1, <1>3 DEF Values
<1>8. data' \in [Places -> Values]
  BY <1>2, <1>7
<1>9. StreamInv'
  BY <1>1, <1>8 DEF StreamInv
<1>10. PICK c, e : c = ContentOf(data, segm, past) /\ e = ContentOf(data', segm, past)
  OBVIOUS
<1>11. Content = c /\ Content' = e
  BY <1>1, <1>3, <1>10 DEF Content, ContentOf
<1>12. /\ c \in [0 .. past - 1 -> Values]
       /\ \A k \in 0 .. past - 1 : c[k] = data[pl[k + 1]]
  BY <1>2, <1>3, <1>4, <1>10, ContentOfIs
<1>13. /\ e \in [0 .. past - 1 -> Values]
       /\ \A k \in 0 .. past - 1 : e[k] = data'[pl[k + 1]]
  BY <1>2, <1>3, <1>4, <1>8, <1>10, ContentOfIs
<1>14. e = [c EXCEPT ![b] = v]
  <2>1. ASSUME NEW k \in 0 .. past - 1 PROVE e[k] = IF k = b THEN v ELSE c[k]
    <3>1. k + 1 \in 1 .. n /\ pl[k + 1] \in Places
      BY <1>4, <1>6
    <3>2. CASE k = b
      BY <1>2, <1>7, <1>13, <3>1, <3>2
    <3>3. CASE k # b
      <4>1. pl[k + 1] # pl[b + 1]
        <5>1. k + 1 # b + 1
          BY <1>5, <3>3
        <5> QED
          BY <1>5, <1>6, <3>1, <5>1
      <4> QED
        BY <1>2, <1>7, <1>12, <1>13, <3>1, <3>3, <4>1
    <3> QED
      BY <3>2, <3>3
  <2> QED
    BY <1>5, <1>12, <1>13, <2>1
<1>15. b \in 0 .. lim - 1
  BY <1>4, <1>5
<1>16. Space!Write(b, v)
  BY <1>1, <1>3, <1>5, <1>11, <1>14 DEF Space!Write
<1>17. Space!Next
  BY <1>3, <1>15, <1>16 DEF Space!Next
<1> QED
  BY <1>9, <1>17 DEF StepKeeps

-----------------------------------------------------------------------------
(* The record of a segment *)

\* What an extent spans, and that its first block has a subblock of it.
LEMMA ExtentIsClear ==
  ASSUME NEW e \in SegmExtents
  PROVE  /\ e.is_suballoc \in BOOLEAN
         /\ e.blk_nr \in Nat /\ BlkSpan(e) \in Nat
         /\ e.is_suballoc => BlkSpan(e) = 1
         /\ ~ e.is_suballoc => \A b \in Nat, s \in Subblks :
              e.blk_nr <= b /\ b < e.blk_nr + BlkSpan(e) => <<b, s>> \in UnitsOf(e)
         /\ \E s \in Subblks : <<e.blk_nr, s>> \in UnitsOf(e)
<1>1. CASE e \in BgExtents /\ ~ e.is_suballoc
  <2>1. /\ e.is_suballoc = FALSE /\ e.blk_nr \in Nat /\ e.blk_cnt \in Nat \ {0}
        /\ BlkSpan(e) = e.blk_cnt
        /\ UnitsOf(e) = (e.blk_nr .. e.blk_nr + e.blk_cnt - 1) \X Subblks
    BY <1>1, FullIsOf
  <2>2. 0 \in Subblks
    BY Consts DEF Subblks
  <2>3. ASSUME NEW b \in Nat, NEW s \in Subblks, e.blk_nr <= b, b < e.blk_nr + e.blk_cnt
        PROVE  <<b, s>> \in UnitsOf(e)
    <3>1. b \in e.blk_nr .. e.blk_nr + e.blk_cnt - 1
      BY <2>1, <2>3
    <3> QED
      BY <2>1, <3>1
  <2>4. <<e.blk_nr, 0>> \in UnitsOf(e)
    BY <2>1, <2>2, <2>3
  <2> QED
    BY <2>1, <2>2, <2>3, <2>4
<1>2. CASE e.is_suballoc
  <2>1. PICK b, bits : b = e.blk_nr /\ bits = e.blk_bitmap
    OBVIOUS
  <2>2. b \in 0 .. BgBlkCnt - 1 /\ bits \in Bitmaps /\ bits # {} /\ e = SubExtent(b, bits)
    BY <1>2, <2>1, SegmExtentIs
  <2>3. e.is_suballoc = TRUE
    BY <2>2 DEF SubExtent
  <2>4. BlkSpan(e) = 1 /\ UnitsOf(e) = {b} \X bits
    BY <2>2, SubIsOf
  <2>5. PICK s \in bits : TRUE
    BY <2>2
  <2>6. s \in Subblks /\ <<b, s>> \in UnitsOf(e)
    BY <2>2, <2>4, <2>5 DEF Bitmaps
  <2>7. b \in Nat
    BY <2>2, Consts
  <2> QED
    BY <1>2, <2>1, <2>3, <2>4, <2>6, <2>7
<1> QED
  BY <1>1, <1>2, SegmExtentIs

\* Extents of different subblocks do not overlap as ranges of blocks.
LEMMA ExtentsAreClear ==
  ASSUME NEW e \in SegmExtents, NEW f \in SegmExtents, UnitsOf(e) \cap UnitsOf(f) = {},
         e.blk_nr < f.blk_nr
  PROVE  e.blk_nr + BlkSpan(e) <= f.blk_nr
<1>1. /\ e.is_suballoc \in BOOLEAN /\ e.blk_nr \in Nat /\ BlkSpan(e) \in Nat
      /\ e.is_suballoc => BlkSpan(e) = 1
      /\ ~ e.is_suballoc => \A b \in Nat, s \in Subblks :
           e.blk_nr <= b /\ b < e.blk_nr + BlkSpan(e) => <<b, s>> \in UnitsOf(e)
  BY ExtentIsClear
<1>2. f.blk_nr \in Nat /\ \E s \in Subblks : <<f.blk_nr, s>> \in UnitsOf(f)
  BY ExtentIsClear
<1>3. PICK s \in Subblks : <<f.blk_nr, s>> \in UnitsOf(f)
  BY <1>2
<1>4. CASE e.is_suballoc
  BY <1>1, <1>2, <1>4
<1>5. CASE ~ e.is_suballoc
  <2>1. SUFFICES ASSUME f.blk_nr < e.blk_nr + BlkSpan(e) PROVE FALSE
    BY <1>1, <1>2
  <2>2. e.blk_nr <= f.blk_nr
    BY <1>1, <1>2
  <2>3. <<f.blk_nr, s>> \in UnitsOf(e)
    BY <1>1, <1>2, <1>3, <1>5, <2>1, <2>2
  <2> QED
    BY <1>3, <2>3
<1> QED
  BY <1>4, <1>5

\* The extents of a segment, so many blocks further.
Moved(s, far) == [i \in DOMAIN s |-> [s[i] EXCEPT !.blk_nr = @ + far]]

\* An extent some blocks further is the same but for its block.
LEMMA MovedExtent ==
  ASSUME NEW e \in SegmExtents, NEW far \in Nat, NEW m, m = [e EXCEPT !.blk_nr = @ + far]
  PROVE  /\ m \in AnyExtents /\ m.blk_nr = e.blk_nr + far /\ BlkSpan(m) = BlkSpan(e)
         /\ far = 0 => m = e
<1>1. CASE e \in BgExtents /\ ~ e.is_suballoc
  <2>1. PICK b, c : b = e.blk_nr /\ c = e.blk_cnt
    OBVIOUS
  <2>2. b \in Nat /\ c \in Nat /\ e = FullExtent(b, c)
    BY <1>1, <2>1, FullIsOf
  <2>3. e = [is_suballoc |-> FALSE, blk_nr |-> b, blk_cnt |-> c]
    BY <2>2 DEF FullExtent
  <2>4. m = [is_suballoc |-> FALSE, blk_nr |-> b + far, blk_cnt |-> c]
    BY <2>3
  <2>5. b + far \in Nat /\ (far = 0 => b + far = b)
    BY <2>2
  <2>6. m \in AnyExtents
    <3>1. m \in [is_suballoc : {FALSE}, blk_nr : Nat, blk_cnt : Nat]
      BY ONLY <2>2, <2>4, <2>5
    <3> QED
      BY ONLY <3>1 DEF AnyExtents
  <2>7. BlkSpan(m) = c /\ BlkSpan(e) = c
    BY <2>3, <2>4 DEF BlkSpan
  <2> QED
    BY <2>3, <2>4, <2>5, <2>6, <2>7
<1>2. CASE e.is_suballoc
  <2>1. PICK b, bits : b = e.blk_nr /\ bits = e.blk_bitmap
    OBVIOUS
  <2>2. b \in 0 .. BgBlkCnt - 1 /\ bits \in Bitmaps /\ e = SubExtent(b, bits)
    BY <1>2, <2>1, SegmExtentIs
  <2>3. e = [is_suballoc |-> TRUE, blk_nr |-> b, blk_bitmap |-> bits]
    BY <2>2 DEF SubExtent
  <2>4. m = [is_suballoc |-> TRUE, blk_nr |-> b + far, blk_bitmap |-> bits]
    BY <2>3
  <2>5. b \in Nat
    BY <2>2, Consts
  <2>6. b + far \in Nat /\ (far = 0 => b + far = b)
    BY <2>5
  <2>7. m \in AnyExtents
    <3>1. m \in [is_suballoc : {TRUE}, blk_nr : Nat, blk_bitmap : Bitmaps]
      BY ONLY <2>2, <2>4, <2>6
    <3> QED
      BY ONLY <3>1 DEF AnyExtents
  <2>8. BlkSpan(m) = 1 /\ BlkSpan(e) = 1
    BY <2>3, <2>4 DEF BlkSpan
  <2> QED
    BY <2>3, <2>4, <2>6, <2>7, <2>8
<1> QED
  BY <1>1, <1>2, SegmExtentIs

\* A segment, wherever it is in the array, is one that can be stored.
LEMMA MovedIsRow ==
  ASSUME NEW s \in Seq(SegmExtents), Scattered(s), NEW raw, IsRow(raw), NEW far \in Nat,
         NEW exts, exts = Moved(s, far)
  PROVE  SegmentRow([exts |-> exts, raw |-> raw])
<1>1. PICK n : n = Len(s)
  OBVIOUS
<1>2. n \in Nat /\ DOMAIN s = 1 .. n /\ \A i \in 1 .. n : s[i] \in SegmExtents
  BY <1>1, UnitsOfRow
<1>3. exts = [i \in 1 .. n |-> [s[i] EXCEPT !.blk_nr = @ + far]]
  BY <1>2 DEF Moved
<1>4. \A i \in 1 .. n : exts[i] = [s[i] EXCEPT !.blk_nr = @ + far]
  BY <1>3
<1>5. exts = [i \in 1 .. n |-> exts[i]]
  BY <1>3
<1>6. IsRow(exts) /\ Len(exts) = n
  BY <1>2, <1>5, RowFacts
<1>7. \A i \in 1 .. n : /\ exts[i] \in AnyExtents /\ exts[i].blk_nr = s[i].blk_nr + far
                        /\ BlkSpan(exts[i]) = BlkSpan(s[i])
  <2>1. ASSUME NEW i \in 1 .. n
        PROVE  /\ exts[i] \in AnyExtents /\ exts[i].blk_nr = s[i].blk_nr + far
               /\ BlkSpan(exts[i]) = BlkSpan(s[i])
    <3>1. PICK e, m : e = s[i] /\ m = exts[i]
      OBVIOUS
    <3>2. e \in SegmExtents /\ m = [e EXCEPT !.blk_nr = @ + far]
      BY <1>2, <1>4, <3>1
    <3>3. m \in AnyExtents /\ m.blk_nr = e.blk_nr + far /\ BlkSpan(m) = BlkSpan(e)
      BY <3>2, MovedExtent
    <3> QED
      BY <3>1, <3>3
  <2> QED
    BY <2>1
<1>8. ASSUME NEW i \in 1 .. n, NEW j \in 1 .. n, i # j
      PROVE  ClearOf(exts[i], exts[j])
  <2>1. UnitsOf(s[i]) \cap UnitsOf(s[j]) = {} /\ UnitsOf(s[j]) \cap UnitsOf(s[i]) = {}
    BY <1>2, <1>8 DEF Scattered
  <2>2. PICK a, b, c, d : /\ a = s[i].blk_nr /\ b = s[j].blk_nr
                          /\ c = BlkSpan(s[i]) /\ d = BlkSpan(s[j])
    OBVIOUS
  <2>3. a \in Nat /\ b \in Nat /\ c \in Nat /\ d \in Nat
    BY <1>2, <2>2, ExtentIsClear
  <2>4. (a < b => a + c <= b) /\ (b < a => b + d <= a)
    BY <1>2, <2>1, <2>2, ExtentsAreClear
  <2>5. /\ exts[i].blk_nr = a + far /\ exts[j].blk_nr = b + far
        /\ BlkSpan(exts[i]) = c /\ BlkSpan(exts[j]) = d
    BY <1>7, <2>2
  <2>6. /\ a + far < b + far => a + far + c <= b + far
        /\ b + far < a + far => b + far + d <= a + far
    BY <2>3, <2>4
  <2> QED
    BY <2>5, <2>6 DEF ClearOf
<1>9. ASSUME NEW k \in 1 .. n PROVE ClearOf(PrevOf(exts, k), exts[k])
  <2>1. CASE k = 1
    <3>1. PrevOf(exts, k) = NoExtent
      BY <2>1 DEF PrevOf
    <3>2. NoExtent.blk_nr = 0 /\ BlkSpan(NoExtent) = 0
      BY DEF NoExtent, FullExtent, BlkSpan
    <3>3. exts[k].blk_nr \in Nat
      BY <1>7, ExtentFacts
    <3>4. (0 < exts[k].blk_nr => 0 + 0 <= exts[k].blk_nr) /\ ~ (exts[k].blk_nr < 0)
      BY <3>3
    <3> QED
      BY <3>1, <3>2, <3>4 DEF ClearOf
  <2>2. CASE k # 1
    <3>1. k - 1 \in 1 .. n /\ k - 1 # k
      BY <1>2, <2>2
    <3>2. PrevOf(exts, k) = exts[k - 1]
      BY <2>2 DEF PrevOf
    <3> QED
      BY <1>8, <3>1, <3>2
  <2> QED
    BY <2>1, <2>2
<1> QED
  BY <1>6, <1>7, <1>9 DEF SegmentRow

\* A segment no blocks further is itself.
LEMMA NotMoved ==
  ASSUME NEW s \in Seq(SegmExtents)
  PROVE  Moved(s, 0) = s
<1>1. PICK n : n = Len(s)
  OBVIOUS
<1>2. n \in Nat /\ DOMAIN s = 1 .. n /\ \A i \in 1 .. n : s[i] \in SegmExtents
  BY <1>1, UnitsOfRow
<1>3. \A i \in 1 .. n : [s[i] EXCEPT !.blk_nr = @ + 0] = s[i]
  <2>1. ASSUME NEW i \in 1 .. n PROVE [s[i] EXCEPT !.blk_nr = @ + 0] = s[i]
    <3>1. PICK e, m : e = s[i] /\ m = [e EXCEPT !.blk_nr = @ + 0]
      OBVIOUS
    <3>2. e \in SegmExtents
      BY <1>2, <3>1
    <3>3. m = e
      BY <3>1, <3>2, MovedExtent
    <3> QED
      BY <3>1, <3>3
  <2> QED
    BY <2>1
<1>4. s = [i \in 1 .. n |-> s[i]]
  BY <1>1, <1>2
<1> QED
  BY <1>2, <1>3, <1>4 DEF Moved

\* The words of a segment after any others, and before any others.
LEMMA HeldAfter ==
  ASSUME NEW s, IsRow(s), NEW t, IsRow(t)
  PROVE  /\ IsRow(s \o t)
         /\ Holds(s \o t, Len(s) + 1, t) /\ Holds(s \o t, 1, s)
<1>1. PICK n, m : n = Len(s) /\ m = Len(t)
  OBVIOUS
<1>2. n \in Nat /\ m \in Nat
  BY <1>1, RowLen
<1>3. PICK st : st = s \o t
  OBVIOUS
<1>4. /\ IsRow(st) /\ Len(st) = n + m
      /\ \A i \in 1 .. n : st[i] = s[i]
      /\ \A i \in 1 .. m : st[n + i] = t[i]
  BY <1>1, <1>3, ConcatRows
<1>5. ASSUME NEW i \in 1 .. n
      PROVE  1 + i - 1 \in 1 .. n + m /\ st[1 + i - 1] = s[i]
  <2>1. 1 + i - 1 = i /\ i \in 1 .. n + m
    BY <1>2
  <2> QED
    BY <1>4, <2>1
<1>6. ASSUME NEW i \in 1 .. m
      PROVE  n + 1 + i - 1 \in 1 .. n + m /\ st[n + 1 + i - 1] = t[i]
  <2>1. n + 1 + i - 1 = n + i /\ n + i \in 1 .. n + m
    BY <1>2
  <2> QED
    BY <1>4, <2>1
<1> QED
  BY <1>1, <1>3, <1>4, <1>5, <1>6 DEF Holds

\* A stream that is opened has the segment that was stored.
LEMMA InitializeKeeps ==
  ASSUME StreamInv, Initialize
  PROVE  StreamInv' /\ StepKeeps
<1>1. /\ mode = "open" /\ segm' = ReadSegment(Stored(segm), 2).segm.exts
      /\ arr' = NewArray(SizeOfAll(segm'))
      /\ data' = data /\ others' = others /\ flags' = flags /\ mode' = mode
  BY DEF Initialize
<1>2. /\ segm \in Seq(SegmExtents) /\ Scattered(segm)
      /\ arr \in [past_end : Nat, real_past_end : Nat]
      /\ arr.past_end <= arr.real_past_end /\ arr.real_past_end = SizeOfAll(segm)
  BY <1>1 DEF StreamInv
<1>3. PICK st : st = [exts |-> segm, raw |-> << >>]
  OBVIOUS
<1>4. SegmentRow(st)
  <2>1. PICK exts : exts = Moved(segm, 0)
    OBVIOUS
  <2>2. exts = segm
    BY <1>2, <2>1, NotMoved
  <2>3. SegmentRow([exts |-> exts, raw |-> << >>])
    BY <1>2, <2>1, ShortRows, MovedIsRow
  <2> QED
    BY <1>3, <2>2, <2>3
<1>5. PICK head, words : head = <<[csize |-> arr.past_end]>> /\ words = SegmentWords(st)
  OBVIOUS
<1>6. Stored(segm) = head \o words
  BY <1>3, <1>5 DEF Stored
<1>7. IsRow(head) /\ Len(head) = 1
  BY <1>5, ShortRows
<1>8. IsRow(words)
  BY <1>4, <1>5, SegmentWordsRow DEF SegmentRow
<1>9. IsRow(head \o words) /\ Holds(head \o words, 2, words)
  <2>1. Holds(head \o words, Len(head) + 1, words) /\ IsRow(head \o words)
    BY <1>7, <1>8, HeldAfter
  <2>2. Len(head) + 1 = 2
    BY <1>7
  <2> QED
    BY <2>1, <2>2
<1>10. ReadSegment(head \o words, 2) = [segm |-> st, at |-> 2 + Len(words), done |-> TRUE]
  BY <1>4, <1>5, <1>9, SegmentIsReadBack
<1>11. segm' = segm
  BY <1>1, <1>3, <1>6, <1>10
<1>12. PICK n : n = SizeOfAll(segm)
  OBVIOUS
<1>13. n \in Nat /\ arr' = [past_end |-> n, real_past_end |-> n]
  BY <1>1, <1>2, <1>11, <1>12, SizeIsLen DEF NewArray
<1>14. arr' \in [past_end : Nat, real_past_end : Nat] /\ arr'.past_end = n /\ arr'.real_past_end = n
  BY <1>13
<1>15. StreamInv'
  <2>1. /\ segm \in Seq(SegmExtents) /\ Scattered(segm)
        /\ UnitsOfAll(segm) \cap others = {} /\ data \in [Places -> Values]
        /\ others \subseteq Units /\ flags \in {"realloc on grow", "extend"}
        /\ mode \in {"open", "broken"}
    BY DEF StreamInv
  <2>2. arr'.past_end <= arr'.real_past_end
    BY <1>13, <1>14
  <2>3. arr'.real_past_end = SizeOfAll(segm')
    BY <1>11, <1>12, <1>14
  <2>4. /\ data' = data /\ others' = others /\ flags' = flags /\ mode' = mode
    BY <1>1
  <2>5. arr' \in [past_end : Nat, real_past_end : Nat]
    BY <1>14
  <2> QED
    BY <1>11, <2>1, <2>2, <2>3, <2>4, <2>5 DEF StreamInv
<1>16. arr.past_end \in Nat /\ arr.past_end <= arr'.past_end
  BY <1>2, <1>12, <1>14
<1>17. \A i \in 1 .. arr.past_end : data'[PlacesOfAll(segm')[i]] = data[PlacesOfAll(segm)[i]]
  BY <1>1, <1>11
<1>18. UNCHANGED <<arr.past_end, Content>> \/ Space!Next
  BY <1>1, <1>15, <1>16, <1>17, EndMoves
<1> QED
  BY <1>15, <1>18 DEF StepKeeps

-----------------------------------------------------------------------------
(* The theorems *)

\* An array that was just made has an empty segment.
LEMMA StreamInvInitially == Init => StreamInv
<1> SUFFICES ASSUME Init PROVE StreamInv
  OBVIOUS
<1>1. /\ arr = [past_end |-> 0, real_past_end |-> 0] /\ segm = << >>
      /\ data = [p \in Places |-> Junk] /\ others \in Others
      /\ flags \in {"realloc on grow", "extend"} /\ mode = "open"
  BY DEF Init, NewArray
<1>2. segm \in Seq(SegmExtents) /\ Scattered(segm) /\ UnitsOfAll(segm) = {}
  <2>1. segm = << >>
    BY <1>1
  <2>2. << >> \in Seq(SegmExtents)
    OBVIOUS
  <2>3. Scattered(<< >>)
    BY DEF Scattered
  <2> QED
    BY <2>1, <2>2, <2>3, NoUnits
<1>3. data \in [Places -> Values]
  BY <1>1 DEF Values
<1>4. others \subseteq Units
  BY <1>1, SegmentBlockArrayAssumption DEF Units
<1>5. arr \in [past_end : Nat, real_past_end : Nat] /\ arr.past_end <= arr.real_past_end
  <2>1. arr = [past_end |-> 0, real_past_end |-> 0]
    BY <1>1
  <2>2. arr.past_end = 0 /\ arr.real_past_end = 0
    BY ONLY <2>1
  <2> QED
    BY ONLY <2>1, <2>2
<1>6. arr.real_past_end = SizeOfAll(segm)
  BY <1>1, PlacesOfEmpty
<1> QED
  BY <1>1, <1>2, <1>3, <1>4, <1>5, <1>6 DEF StreamInv

\* No call breaks the invariant.
LEMMA StreamInvKept == StreamInv /\ [Next]_vars => StreamInv' /\ StepKeeps
<1> SUFFICES ASSUME StreamInv, [Next]_vars PROVE StreamInv' /\ StepKeeps
  OBVIOUS
<1>1. ASSUME NEW cnt \in Cnts, GrowInSlack(cnt) PROVE StreamInv' /\ StepKeeps
  BY <1>1, GrowInSlackKeeps
<1>2. ASSUME NEW cnt \in Cnts, GrowInSegm(cnt) PROVE StreamInv' /\ StepKeeps
  BY <1>2, GrowInSegmKeeps
<1>3. ASSUME NEW cnt \in Cnts, GrowThrows(cnt) PROVE StreamInv' /\ StepKeeps
  BY <1>3, GrowThrowsKeeps
<1>4. ASSUME NEW cnt \in Cnts, Shrink(cnt) PROVE StreamInv' /\ StepKeeps
  BY <1>4, ShrinkKeeps
<1>5. ASSUME NEW b \in 0 .. BlkNrExhaust, NEW v \in Data, WriteBlk(b, v)
      PROVE  StreamInv' /\ StepKeeps
  BY <1>5, WriteKeeps
<1>6. CASE ReleaseSegm
  BY <1>6, ReleaseKeeps
<1>7. CASE Initialize
  BY <1>7, InitializeKeeps
<1>8. CASE UNCHANGED vars
  <2>1. /\ arr' = arr /\ segm' = segm /\ data' = data
        /\ others' = others /\ flags' = flags /\ mode' = mode
    BY <1>8 DEF vars
  <2>2. StreamInv'
    BY <2>1 DEF StreamInv
  <2>3. Content' = Content
    BY <2>1 DEF Content
  <2> QED
    BY <2>1, <2>2, <2>3 DEF StepKeeps
<1> QED
  BY <1>1, <1>2, <1>3, <1>4, <1>5, <1>6, <1>7, <1>8 DEF Next

\* The invariant is one of the specification.
LEMMA StreamInvAlways == Spec => []StreamInv
<1>1. StreamInv /\ [Next]_vars => StreamInv'
  BY StreamInvKept
<1> QED
  BY StreamInvInitially, <1>1, PTL DEF Spec

\* The invariant says how much the segment holds, and that it is apart.
LEMMA TypeOKInStreamInv == StreamInv => TypeOK
<1> SUFFICES ASSUME StreamInv PROVE TypeOK
  OBVIOUS
<1>1. /\ segm \in Seq(SegmExtents) /\ Scattered(segm) /\ UnitsOfAll(segm) \cap others = {}
      /\ data \in [Places -> Values] /\ others \subseteq Units
      /\ flags \in {"realloc on grow", "extend"} /\ mode \in {"open", "broken"}
      /\ arr \in [past_end : Nat, real_past_end : Nat] /\ arr.past_end <= arr.real_past_end
      /\ mode = "open" => arr.real_past_end = SizeOfAll(segm)
  BY DEF StreamInv
<1>2. PointersOrdered(arr)
  <2>1. arr.past_end \in Nat /\ arr.past_end <= arr.real_past_end
    BY <1>1
  <2> QED
    BY <2>1, Consts DEF PointersOrdered
<1>3. Cardinality(UnitsOfAll(segm)) * FgPerSubblk = SizeOfAll(segm)
  BY <1>1, ScatteredApart DEF PlacesApart
<1>4. ASSUME NEW i \in DOMAIN segm
      PROVE  UnitsOf(segm[i]) \subseteq Units \ others /\ UnitsOf(segm[i]) # {}
  <2>1. segm[i] \in SegmExtents
    <3>1. segm \in Seq(SegmExtents)
      BY <1>1
    <3>2. DOMAIN segm = 1 .. Len(segm) /\ \A k \in 1 .. Len(segm) : segm[k] \in SegmExtents
      BY <3>1, UnitsOfRow
    <3> QED
      BY <3>2
  <2>2. UnitsOf(segm[i]) \subseteq UnitsOfAll(segm)
    BY DEF UnitsOfAll, Range
  <2> QED
    BY <1>1, <2>1, <2>2, UnitsOfExtent
<1> QED
  BY <1>1, <1>2, <1>3, <1>4 DEF TypeOK

\* Extents that are apart can be stored and read.
LEMMA RecordInStreamInv == StreamInv => RecordIsTheSegment
<1> SUFFICES ASSUME StreamInv,
             NEW raw \in {<< >>, <<"x">>, <<"x", "y", "z">>}, NEW far \in 0 .. BgBlkCnt
    PROVE  LET stored == [exts |-> [i \in DOMAIN segm |-> [segm[i] EXCEPT !.blk_nr = @ + far]],
                          raw |-> raw]
               words == SegmentWords(stored)
               read == ReadSegment(words \o words, 1)
           IN  /\ Len(words) = SegmentFootprint(stored)
               /\ read.segm = stored
               /\ read.at = Len(words) + 1
  BY DEF RecordIsTheSegment
<1>1. segm \in Seq(SegmExtents) /\ Scattered(segm)
  BY DEF StreamInv
<1>2. far \in Nat
  BY Consts
<1>3. IsRow(raw)
  <2>1. << >> \in Seq({"x", "y", "z"}) /\ <<"x">> \in Seq({"x", "y", "z"})
        /\ <<"x", "y", "z">> \in Seq({"x", "y", "z"})
    OBVIOUS
  <2>2. raw \in Seq({"x", "y", "z"})
    BY <2>1
  <2> QED
    BY <2>2, SeqIsRow
<1>4. PICK exts, stored, words : /\ exts = Moved(segm, far)
                                 /\ stored = [exts |-> exts, raw |-> raw]
                                 /\ words = SegmentWords(stored)
  OBVIOUS
<1>5. SegmentRow(stored)
  BY <1>1, <1>2, <1>3, <1>4, MovedIsRow
<1>6. IsRow(words)
  BY <1>4, <1>5, SegmentWordsRow DEF SegmentRow
<1>7. IsRow(words \o words) /\ Holds(words \o words, 1, words)
  BY <1>6, HeldAfter
<1>8. ReadSegment(words \o words, 1) = [segm |-> stored, at |-> 1 + Len(words), done |-> TRUE]
  BY <1>4, <1>5, <1>7, SegmentIsReadBack
<1>9. Len(words) = SegmentFootprint(stored)
  BY <1>4, <1>5, SegmentFootprintIsExact
<1>10. 1 + Len(words) = Len(words) + 1
  BY <1>6, RowLen
<1>11. stored = [exts |-> [i \in DOMAIN segm |-> [segm[i] EXCEPT !.blk_nr = @ + far]],
                 raw |-> raw]
  BY <1>4 DEF Moved
<1> QED
  BY <1>4, <1>8, <1>9, <1>10, <1>11

\* Whatever is asked of it, the array in a segment counts exactly the space
\* of the segment, and no extent of it is of another user or of another
\* extent: what grow_by_blocks, shrink_by_blocks and release_blocks deduce
\* from their counters is right.
THEOREM StreamTypeCorrect == Spec => []TypeOK
  BY StreamInvAlways, TypeOKInStreamInv, PTL

\* Any segment that an array can have is written by Segment::write_struct_into
\* in as many words as calc_struct_footprint_size says and is read back as
\* the same one, however far its extents are.
THEOREM RecordAlwaysTheSegment == Spec => []RecordIsTheSegment
  BY StreamInvAlways, RecordInStreamInv, PTL

\* Until a grow throws, the array in a segment is a row of blocks that keep
\* what was written: realloc, split, shrink and release lose nothing.
THEOREM SegmentIsARowOfBlocks == Spec => ImplementsBlockSpace
<1>1. Init => Space!Init
  <2> SUFFICES ASSUME Init PROVE Space!Init
    OBVIOUS
  <2>1. StreamInv /\ arr.past_end = 0
    BY StreamInvInitially DEF Init, NewArray
  <2>2. PICK c : c = ContentOf(data, segm, 0)
    OBVIOUS
  <2>3. Content = c
    BY <2>1, <2>2 DEF Content, ContentOf
  <2>4. segm \in Seq(SegmExtents) /\ Scattered(segm) /\ data \in [Places -> Values]
    BY <2>1 DEF StreamInv
  <2>5. 0 <= SizeOfAll(segm)
    BY <2>4, SizeIsLen
  <2>6. c \in [0 .. 0 - 1 -> Values]
    BY <2>2, <2>4, <2>5, ContentOfIs
  <2> QED
    BY <2>1, <2>3, <2>6 DEF Space!Init, Space!Contents
<1>2. StreamInv /\ [Next]_vars =>
        [mode' = "open" => UNCHANGED <<arr.past_end, Content>> \/ Space!Next]_vars
  BY StreamInvKept DEF StepKeeps
<1> QED
  BY <1>1, <1>2, StreamInvAlways, PTL DEF Spec, ImplementsBlockSpace

-----------------------------------------------------------------------------
(* The ids and the names *)

Given == persistent_ids \cup (MaxId + 1 .. next_temporal_id - 1)

IdTypes ==
  /\ dscs \in [Dscs -> [owner : Sets \cup {NoSet}, id : Nat]]
  /\ persistent_ids \subseteq 1 .. MaxId
  /\ next_temporal_id \in Nat
  /\ next_temporal_id > MaxId

HistoryTypes ==
  /\ reused \subseteq persistent_ids
  /\ left \subseteq Given

\* The ids of the tree were given, and only one that the user gave twice is of
\* two, or of one and left by another.
TreeIsRight ==
  /\ \A d \in Tree : dscs[d].id \in Given
  /\ \A d, e \in Tree : d # e /\ dscs[d].id = dscs[e].id => dscs[d].id \in reused
  /\ \A d \in Tree : dscs[d].id \in left => dscs[d].id \in reused

\* What the cache has of an id, the tree has, but of those ids and of the left.
CacheIsRight ==
  /\ dsc_by_id_cache \subseteq [id : Given, dsc : Dscs \cup {Erased}]
  /\ \A e \in dsc_by_id_cache :
       e.id \in reused \cup left \/ (e.dsc \in Tree /\ dscs[e.dsc].id = e.id)

HasDsc(id) == \E d \in Tree : dscs[d].id = id

\* A registered id is of a descriptor of the tree, or was.
RegisteredIsRight == \A i \in persistent_ids : HasDsc(i) \/ i \in left

NamesInv == IdTypes /\ HistoryTypes /\ TreeIsRight /\ RegisteredIsRight /\ CacheIsRight

-----------------------------------------------------------------------------
(* New ids *)

\* The id requested is not registered.
LEMMA RequestIsNew ==
  ASSUME NEW ids \in SUBSET (1 .. MaxId)
  PROVE  request_persistent_id(ids) \in Nat \ {0} /\ request_persistent_id(ids) \notin ids
<1>1. CASE ids = {}
  BY <1>1 DEF request_persistent_id
<1>2. CASE ids # {}
  <2>1. ids \in SUBSET Nat /\ MaxId \in Nat /\ \A i \in ids : i <= MaxId
    BY NamesAssumption
  <2>2. \E x \in ids : \A y \in ids : y <= x
    BY <2>1, <1>2, GreatestExists
  <2>3. Max(ids) \in ids /\ \A y \in ids : Max(ids) >= y
    BY <2>2, <2>1 DEF Max
  <2> DEFINE m == Max(ids)
  <2>4. m \in Nat /\ m + 1 \notin ids
    <3> HIDE DEF m
    <3> SUFFICES ASSUME m \in ids, \A y \in ids : m >= y
                 PROVE  m \in Nat /\ m + 1 \notin ids
      BY <2>3 DEF m
    <3> QED
      BY <2>1
  <2>5. request_persistent_id(ids) = m + 1
    BY <1>2 DEF request_persistent_id
  <2> HIDE DEF m
  <2> QED
    BY <2>4, <2>5
<1> QED
  BY <1>1, <1>2

\* No id that may be in a tree is 0.
LEMMA GivenIds ==
  ASSUME IdTypes
  PROVE  Given \subseteq Nat \ {0}
BY NamesAssumption DEF IdTypes, Given

LEMMA WiderInterval ==
  \A m, a, b \in Nat : a <= b => \A i \in m + 1 .. a - 1 : i \in m + 1 .. b - 1
OBVIOUS

\* What the part of add_s about ids does: the descriptor keeps the id it had,
\* or has one that was not given; the others are as they were.
LEMMA GetsIdFacts ==
  ASSUME NamesInv, NEW d \in Dscs, NEW s \in Sets, NEW id \in Nat, NEW assign \in BOOLEAN,
         GetsId(d, s, id, assign),
         \/ InTree(d) /\ id = dscs[d].id
         \/ id \in 0 .. MaxId
  PROVE  /\ IdTypes'
         /\ Given \subseteq Given'
         /\ dscs'[d].id \in Given'
         /\ dscs'[d].id \notin Given \/ dscs'[d].id = id
         /\ is_temporal(id) /\ assign => dscs'[d].id \notin Given
         /\ id # 0 /\ ~assign => dscs'[d].id = id
         /\ persistent_ids \subseteq persistent_ids'
         /\ persistent_ids' \subseteq persistent_ids \cup {dscs'[d].id}
         /\ \A e \in Dscs \ {d} : dscs'[e] = dscs[e]
         /\ InTree(d)'
<1> DEFINE wants == assign /\ ~ is_persistent(id)
           new_id == IF wants THEN request_persistent_id(persistent_ids)
                     ELSE IF id = 0 THEN next_temporal_id ELSE id
<1>1. /\ wants => is_persistent(new_id)
      /\ dscs' = [dscs EXCEPT ![d] = [owner |-> s, id |-> new_id]]
      /\ persistent_ids' = persistent_ids \cup (IF is_persistent(new_id) THEN {new_id} ELSE {})
      /\ next_temporal_id' = next_temporal_id + (IF new_id = next_temporal_id THEN 1 ELSE 0)
  BY DEF GetsId
<1>2. IdTypes /\ MaxId \in Nat /\ NoSet \notin Sets
  BY NamesAssumption DEF NamesInv
<1>3. request_persistent_id(persistent_ids) \in Nat \ {0}
      /\ request_persistent_id(persistent_ids) \notin persistent_ids
  BY <1>2, RequestIsNew DEF IdTypes
<1>4. InTree(d) => dscs[d].id \in Given
  BY DEF NamesInv, TreeIsRight, Tree
<1>5. new_id \in Nat \ {0}
  BY <1>2, <1>3 DEF IdTypes
<1>6. \/ new_id \in 1 .. MaxId \ persistent_ids
      \/ new_id = next_temporal_id
      \/ new_id = id
  BY <1>1, <1>2, <1>3 DEF is_persistent
<1>15. is_temporal(id) /\ assign => new_id \in 1 .. MaxId \ persistent_ids
  BY <1>1, <1>2, <1>3 DEF is_persistent, is_temporal
<1>16. id # 0 /\ ~assign => new_id = id
  OBVIOUS
<1> HIDE DEF new_id
<1>7. /\ persistent_ids' \in SUBSET (1 .. MaxId)
      /\ next_temporal_id' \in Nat
      /\ next_temporal_id' >= next_temporal_id
      /\ persistent_ids \subseteq persistent_ids'
  <2>1. persistent_ids' \in SUBSET (1 .. MaxId) /\ persistent_ids \subseteq persistent_ids'
    BY <1>1, <1>2 DEF IdTypes, is_persistent
  <2>2. next_temporal_id' \in Nat /\ next_temporal_id' >= next_temporal_id
    BY <1>1, <1>2 DEF IdTypes
  <2> QED
    BY <2>1, <2>2
<1>8. dscs' \in [Dscs -> [owner : Sets \cup {NoSet}, id : Nat]]
  BY <1>1, <1>2, <1>5 DEF IdTypes
<1>9. dscs'[d] = [owner |-> s, id |-> new_id] /\ \A e \in Dscs \ {d} : dscs'[e] = dscs[e]
  BY <1>1, <1>2 DEF IdTypes
<1>10. IdTypes'
  BY <1>7, <1>8, <1>2 DEF IdTypes
<1>11. Given \subseteq Given'
  <2>1. \A i \in Given : i \in persistent_ids \/ i \in MaxId + 1 .. next_temporal_id - 1
    BY DEF Given
  <2>2. \A i \in MaxId + 1 .. next_temporal_id - 1 : i \in MaxId + 1 .. next_temporal_id' - 1
    BY <1>7, <1>2, WiderInterval DEF IdTypes
  <2> QED
    BY <2>1, <2>2, <1>7 DEF Given
<1>12. new_id \in Given'
  <2>1. CASE new_id \in 1 .. MaxId
    BY <2>1, <1>1 DEF Given, is_persistent
  <2>2. CASE new_id = next_temporal_id
    BY <2>2, <1>1, <1>2 DEF Given, IdTypes
  <2>3. CASE InTree(d) /\ new_id = id /\ id = dscs[d].id
    BY <2>3, <1>4, <1>11
  <2>4. CASE new_id = id /\ id \in 0 .. MaxId
    BY <2>1, <2>4, <1>2, <1>5
  <2> QED
    BY <2>1, <2>2, <2>3, <2>4, <1>6
<1>13. /\ new_id \notin Given \/ new_id = id
       /\ is_temporal(id) /\ assign => new_id \notin Given
  BY <1>6, <1>15, <1>2 DEF Given, IdTypes
<1>14. InTree(d)'
  BY <1>9, <1>2 DEF InTree
<1>17. persistent_ids' \subseteq persistent_ids \cup {new_id}
  BY <1>1
<1> QED
  BY <1>7, <1>9, <1>10, <1>11, <1>12, <1>13, <1>14, <1>16, <1>17

\* An action about the id of one descriptor keeps the invariant, if the history
\* remembers the id it left, and that it has one that was given.
LEMMA NewIdKeeps ==
  ASSUME NamesInv, NEW d \in Dscs, IdTypes', Given \subseteq Given',
         dscs'[d].id \in Given', InTree(d)',
         \A e \in Dscs \ {d} : dscs'[e] = dscs[e],
         reused \subseteq reused', left \subseteq left', HistoryTypes',
         InTree(d) => dscs'[d].id = dscs[d].id \/ dscs[d].id \in left',
         dscs'[d].id \in Given =>
           (InTree(d) /\ dscs'[d].id = dscs[d].id) \/ dscs'[d].id \in reused',
         \A i \in left' \ left : InTree(d) /\ i = dscs[d].id /\ dscs'[d].id # i,
         persistent_ids' \subseteq persistent_ids \cup {dscs'[d].id},
         UNCHANGED dsc_by_id_cache
  PROVE  NamesInv'
<1>1. /\ \A e \in Tree : dscs[e].id \in Given
      /\ \A e, f \in Tree : e # f /\ dscs[e].id = dscs[f].id => dscs[e].id \in reused
      /\ \A e \in Tree : dscs[e].id \in left => dscs[e].id \in reused
      /\ left \subseteq Given
  BY DEF NamesInv, TreeIsRight, HistoryTypes
<1>2. \A e \in Tree' \ {d} : e \in Tree /\ e \in Dscs /\ dscs'[e] = dscs[e]
  BY DEF Tree, InTree
<1>3. InTree(d) => d \in Tree
  BY DEF Tree
<1>4. \A e \in Tree' : dscs'[e].id \in Given'
  BY <1>1, <1>2
<1>5. \A e \in Tree' \ {d} : dscs'[e].id = dscs'[d].id => dscs'[d].id \in reused'
  BY <1>1, <1>2, <1>3
<1>6. \A e, f \in Tree' : e # f /\ dscs'[e].id = dscs'[f].id => dscs'[e].id \in reused'
  BY <1>1, <1>2, <1>5
<1>7. \A e \in Tree' : dscs'[e].id \in left' => dscs'[e].id \in reused'
  <2> SUFFICES ASSUME NEW e \in Tree', dscs'[e].id \in left' PROVE dscs'[e].id \in reused'
    OBVIOUS
  <2>1. CASE e = d
    <3>1. dscs'[d].id \in left
      BY <2>1
    <3> QED
      BY <2>1, <3>1, <1>1, <1>3
  <2>2. CASE e # d /\ dscs'[e].id \in left
    BY <2>2, <1>1, <1>2
  <2>3. CASE e # d /\ dscs'[e].id \notin left
    <3>1. InTree(d) /\ dscs[e].id = dscs[d].id
      BY <2>3, <1>2
    <3> QED
      BY <2>3, <3>1, <1>1, <1>2, <1>3
  <2> QED
    BY <2>1, <2>2, <2>3
<1>8. CacheIsRight'
  <2>1. dsc_by_id_cache' \subseteq [id : Given', dsc : Dscs \cup {Erased}]
    BY DEF NamesInv, CacheIsRight
  <2>2. ASSUME NEW e \in dsc_by_id_cache, e.id \notin reused' \cup left'
        PROVE  e.dsc \in Tree' /\ dscs'[e.dsc].id = e.id
    <3>1. e.dsc \in Tree /\ dscs[e.dsc].id = e.id
      BY <2>2 DEF NamesInv, CacheIsRight
    <3>2. CASE e.dsc = d
      BY <2>2, <3>1, <3>2 DEF Tree
    <3>3. CASE e.dsc # d
      BY <3>1, <3>3 DEF Tree, InTree
    <3> QED
      BY <3>2, <3>3
  <2> QED
    BY <2>1, <2>2 DEF CacheIsRight
<1>9. RegisteredIsRight'
  <2>1. d \in Tree'
    BY DEF Tree
  <2>2. ASSUME NEW i \in persistent_ids, i \notin left', i # dscs'[d].id
        PROVE  HasDsc(i)'
    <3>1. PICK e \in Tree : dscs[e].id = i
      BY <2>2 DEF NamesInv, RegisteredIsRight, HasDsc
    <3>2. e # d
      BY <2>2, <3>1 DEF Tree
    <3>3. e \in Tree' /\ dscs'[e].id = i
      BY <3>1, <3>2 DEF Tree, InTree
    <3> QED
      BY <3>3 DEF HasDsc
  <2> QED
    BY <2>1, <2>2 DEF RegisteredIsRight, HasDsc
<1> QED
  BY <1>4, <1>6, <1>7, <1>8, <1>9 DEF NamesInv, TreeIsRight

-----------------------------------------------------------------------------
(* An open *)

\* A file that opens gives each descriptor an id of its own.
LEMMA LoadKeeps ==
  ASSUME NEW f, f.dscs \in [Dscs -> [owner : Sets \cup {NoSet}, id : 0 .. MaxId]],
         NEW names, Accepts(f, names),
         NEW order \in Bijection(Unnumbered(f), 1 .. Cardinality(Unnumbered(f))),
         Load(f, names, order)
  PROVE  NamesInv'
<1> DEFINE U == Unnumbered(f)
           cnt == Cardinality(U)
<1>1. MaxId \in Nat /\ cnt \in Nat
  <2>1. U \subseteq Dscs /\ IsFiniteSet(Dscs)
    BY NamesAssumption DEF Unnumbered, StoredTree
  <2> QED
    BY <2>1, FS_Subset, FS_CardinalityType, NamesAssumption
<1>2. /\ order \in [U -> 1 .. cnt]
      /\ \A d, e \in U : order[d] = order[e] => d = e
  BY DEF Bijection, Injection, IsInjective
<1>3. \A d \in Dscs : /\ f.dscs[d] \in [owner : Sets \cup {NoSet}, id : 0 .. MaxId]
                      /\ f.dscs[d].id \in 0 .. MaxId
  OBVIOUS
<1> HIDE DEF cnt
<1>4. \A d \in U : MaxId + order[d] \in MaxId + 1 .. MaxId + cnt
  BY <1>1, <1>2
<1>5. /\ persistent_ids' = RegisteredOnLoad(f)
      /\ next_temporal_id' = MaxId + 1 + cnt
      /\ dsc_by_id_cache' = {} /\ reused' = {} /\ left' = {}
      /\ dscs' = [d \in Dscs |-> IF d \in U THEN [f.dscs[d] EXCEPT !.id = MaxId + order[d]]
                                 ELSE f.dscs[d]]
  BY DEF Load, cnt
<1> HIDE DEF U
<1>6. \A d \in Dscs : /\ dscs'[d] \in [owner : Sets \cup {NoSet}, id : Nat]
                      /\ dscs'[d].owner = f.dscs[d].owner
                      /\ dscs'[d].id = IF d \in U THEN MaxId + order[d] ELSE f.dscs[d].id
  <2> SUFFICES ASSUME NEW d \in Dscs
               PROVE  /\ dscs'[d] \in [owner : Sets \cup {NoSet}, id : Nat]
                      /\ dscs'[d].owner = f.dscs[d].owner
                      /\ dscs'[d].id = IF d \in U THEN MaxId + order[d] ELSE f.dscs[d].id
    OBVIOUS
  <2>1. CASE d \in U
    <3>1. MaxId + order[d] \in Nat
      BY <1>1, <1>4, <2>1
    <3>2. dscs'[d] = [f.dscs[d] EXCEPT !.id = MaxId + order[d]]
      BY <1>5, <2>1
    <3> QED
      BY <3>1, <3>2, <1>3, <2>1
  <2>2. CASE d \notin U
    BY <1>1, <1>3, <1>5, <2>2
  <2> QED
    BY <2>1, <2>2
<1>7. Tree' = StoredTree(f)
  BY <1>6 DEF Tree, InTree, StoredTree
<1>8. \A d \in Tree' \ U : f.dscs[d].id \in 1 .. MaxId /\ f.dscs[d].id \in persistent_ids'
  <2> SUFFICES ASSUME NEW d \in StoredTree(f), d \notin U
               PROVE  f.dscs[d].id \in 1 .. MaxId /\ f.dscs[d].id \in persistent_ids'
    BY <1>7
  <2>1. f.dscs[d].id # 0 /\ d \in Dscs
    BY DEF U, Unnumbered, StoredTree
  <2> QED
    BY <2>1, <1>1, <1>3, <1>5 DEF RegisteredOnLoad
<1>9. persistent_ids' \subseteq 1 .. MaxId
  BY <1>1, <1>3, <1>5 DEF RegisteredOnLoad, StoredTree
<1>10. IdTypes'
  <2>1. dscs' \in [Dscs -> [owner : Sets \cup {NoSet}, id : Nat]]
    BY <1>5, <1>6
  <2>2. next_temporal_id' \in Nat /\ next_temporal_id' > MaxId
    BY <1>1, <1>5
  <2> QED
    BY <2>1, <2>2, <1>9 DEF IdTypes
<1>11. TreeIsRight'
  <2>1. \A d \in Tree' : dscs'[d].id \in persistent_ids' \cup (MaxId + 1 .. next_temporal_id' - 1)
    <3> SUFFICES ASSUME NEW d \in Tree'
                 PROVE  dscs'[d].id \in persistent_ids' \cup (MaxId + 1 .. next_temporal_id' - 1)
      OBVIOUS
    <3>1. d \in Dscs
      BY DEF Tree
    <3>2. CASE d \in U
      BY <3>1, <3>2, <1>1, <1>4, <1>5, <1>6
    <3>3. CASE d \notin U
      BY <3>1, <3>3, <1>6, <1>8
    <3> QED
      BY <3>2, <3>3
  <2>2. \A d, e \in Tree' : d # e => dscs'[d].id # dscs'[e].id
    <3> SUFFICES ASSUME NEW d \in Tree', NEW e \in Tree', d # e
                 PROVE  dscs'[d].id # dscs'[e].id
      OBVIOUS
    <3>1. d \in Dscs /\ e \in Dscs
      BY DEF Tree
    <3>2. CASE d \in U /\ e \in U
      <4>1. order[d] \in Nat /\ order[e] \in Nat /\ order[d] # order[e]
        BY <3>2, <1>1, <1>2
      <4> QED
        BY <3>1, <3>2, <4>1, <1>1, <1>6
    <3>3. CASE d \in U /\ e \notin U
      BY <3>1, <3>3, <1>1, <1>4, <1>6, <1>8
    <3>4. CASE d \notin U /\ e \in U
      BY <3>1, <3>4, <1>1, <1>4, <1>6, <1>8
    <3>5. CASE d \notin U /\ e \notin U
      <4>1. f.dscs[d].id # f.dscs[e].id
        BY <3>5, <1>7 DEF Accepts, U
      <4> QED
        BY <3>1, <3>5, <4>1, <1>6
    <3> QED
      BY <3>2, <3>3, <3>4, <3>5
  <2> QED
    BY <2>1, <2>2, <1>5 DEF TreeIsRight, Given
<1>12. CacheIsRight' /\ HistoryTypes'
  BY <1>5 DEF CacheIsRight, HistoryTypes
<1>13. RegisteredIsRight'
  <2> SUFFICES ASSUME NEW i \in persistent_ids' PROVE HasDsc(i)'
    BY DEF RegisteredIsRight
  <2>1. PICK d \in StoredTree(f) : f.dscs[d].id = i /\ i # 0
    BY <1>5 DEF RegisteredOnLoad
  <2>2. d \in Dscs /\ d \notin U
    BY <2>1 DEF U, Unnumbered, StoredTree
  <2> QED
    BY <2>1, <2>2, <1>6, <1>7 DEF HasDsc
<1> QED
  BY <1>10, <1>11, <1>12, <1>13 DEF NamesInv

-----------------------------------------------------------------------------
(* The steps *)

LEMMA NamesInvInitially == NamesInit => NamesInv
<1> SUFFICES ASSUME NamesInit PROVE NamesInv
  OBVIOUS
<1>1. \A d \in Dscs : dscs[d] = [owner |-> NoSet, id |-> 0]
  BY DEF NamesInit, Absent
<1>2. Tree = {}
  BY <1>1 DEF Tree, InTree
<1>3. IdTypes
  BY <1>1, NamesAssumption DEF NamesInit, Absent, IdTypes
<1>4. TreeIsRight
  BY <1>2 DEF TreeIsRight
<1>5. CacheIsRight /\ HistoryTypes /\ RegisteredIsRight
  BY DEF NamesInit, CacheIsRight, HistoryTypes, RegisteredIsRight
<1> QED
  BY <1>3, <1>4, <1>5 DEF NamesInv

\* What the invariant is about is as it was.
LEMMA NamesInvUnchanged ==
  ASSUME NamesInv,
         UNCHANGED <<dscs, persistent_ids, next_temporal_id, dsc_by_id_cache, reused, left>>
  PROVE  NamesInv'
BY DEF NamesInv, IdTypes, HistoryTypes, TreeIsRight, RegisteredIsRight, CacheIsRight, Given, Tree,
       InTree, HasDsc

\* Who is added has a new id, or one that is remembered as given again.
LEMMA AddKeeps ==
  ASSUME NamesInv, NEW d \in Dscs, NEW s \in Sets, NEW assign \in BOOLEAN, NEW id \in 0 .. MaxId,
         Add(d, s, id, assign)
  PROVE  NamesInv'
<1>1. id \in Nat /\ MaxId \in Nat
  BY NamesAssumption
<1>2. /\ ~InTree(d) /\ GetsId(d, s, id, assign) /\ UNCHANGED <<dsc_by_id_cache, left>>
      /\ reused' = reused \cup ({id} \cap persistent_ids)
  BY DEF Add
<1>3. /\ IdTypes' /\ Given \subseteq Given'
      /\ dscs'[d].id \in Given' /\ InTree(d)'
      /\ dscs'[d].id \notin Given \/ dscs'[d].id = id
      /\ \A e \in Dscs \ {d} : dscs'[e] = dscs[e]
      /\ persistent_ids \subseteq persistent_ids'
      /\ persistent_ids' \subseteq persistent_ids \cup {dscs'[d].id}
  BY <1>1, <1>2, GetsIdFacts
<1>4. HistoryTypes'
  BY <1>2, <1>3 DEF NamesInv, HistoryTypes
<1>5. dscs'[d].id \in Given => dscs'[d].id \in reused'
  <2>1. id \in Given => id \in persistent_ids
    BY <1>1 DEF Given, NamesInv, IdTypes
  <2> QED
    BY <2>1, <1>2, <1>3
<1> QED
  BY <1>2, <1>3, <1>4, <1>5, NewIdKeeps

\* The temporal id is left for a new one.
LEMMA AssignKeeps ==
  ASSUME NamesInv, NEW d \in Dscs, AssignPersistentId(d)
  PROVE  NamesInv'
<1>1. /\ InTree(d) /\ GetsId(d, dscs[d].owner, dscs[d].id, TRUE)
      /\ UNCHANGED <<dsc_by_id_cache, reused>>
      /\ is_temporal(dscs[d].id) /\ left' = left \cup {dscs[d].id}
  BY DEF AssignPersistentId
<1>2. dscs[d].owner \in Sets /\ dscs[d].id \in Nat
  BY <1>1 DEF NamesInv, IdTypes, InTree
<1>3. /\ IdTypes' /\ Given \subseteq Given'
      /\ dscs'[d].id \in Given' /\ InTree(d)'
      /\ dscs'[d].id \notin Given
      /\ \A e \in Dscs \ {d} : dscs'[e] = dscs[e]
      /\ persistent_ids \subseteq persistent_ids'
      /\ persistent_ids' \subseteq persistent_ids \cup {dscs'[d].id}
  BY <1>1, <1>2, GetsIdFacts
<1>4. dscs[d].id \in Given
  BY <1>1 DEF NamesInv, TreeIsRight, Tree
<1>5. HistoryTypes'
  BY <1>1, <1>3, <1>4 DEF NamesInv, HistoryTypes
<1> QED
  BY <1>1, <1>3, <1>4, <1>5, NewIdKeeps

LEMMA MoveOutKeeps ==
  ASSUME NamesInv, NEW d \in Dscs, NEW s \in Sets, MoveOut(d, s)
  PROVE  NamesInv'
<1>1. /\ InTree(d) /\ GetsId(d, s, dscs[d].id, FALSE)
      /\ UNCHANGED <<dsc_by_id_cache, reused, left>>
  BY DEF MoveOut
<1>2. dscs[d].id \in Nat \ {0}
  <2>1. dscs[d].id \in Given
    BY <1>1 DEF NamesInv, TreeIsRight, Tree
  <2> QED
    BY <2>1, GivenIds DEF NamesInv
<1>3. /\ IdTypes' /\ Given \subseteq Given'
      /\ dscs'[d].id \in Given' /\ InTree(d)'
      /\ dscs'[d].id = dscs[d].id
      /\ \A e \in Dscs \ {d} : dscs'[e] = dscs[e]
      /\ persistent_ids \subseteq persistent_ids'
      /\ persistent_ids' \subseteq persistent_ids \cup {dscs'[d].id}
  BY <1>1, <1>2, GetsIdFacts
<1>4. HistoryTypes'
  BY <1>1, <1>3 DEF NamesInv, HistoryTypes
<1> QED
  BY <1>1, <1>3, <1>4, NewIdKeeps

\* The cache has the erased descriptor still, by an id that was left.
LEMMA EraseKeeps ==
  ASSUME NamesInv, NEW d \in Dscs, Erase(d)
  PROVE  NamesInv'
<1>1. /\ InTree(d)
      /\ dscs' = [dscs EXCEPT ![d] = [owner |-> NoSet, id |-> 0]]
      /\ persistent_ids' = persistent_ids
      /\ next_temporal_id' = next_temporal_id
      /\ dsc_by_id_cache' =
           {[e EXCEPT !.dsc = IF @ = d THEN Erased ELSE @] : e \in dsc_by_id_cache}
      /\ left' = left \cup {dscs[d].id} /\ reused' = reused
  BY DEF Erase, IdsAfterErase, Absent
<1>2. /\ dscs'[d] = [owner |-> NoSet, id |-> 0]
      /\ \A e \in Dscs \ {d} : dscs'[e] = dscs[e]
  BY <1>1 DEF NamesInv, IdTypes
<1>3. Tree' = Tree \ {d}
  BY <1>2 DEF Tree, InTree
<1>4. Tree \subseteq Dscs /\ d \in Tree
  BY <1>1 DEF Tree
<1>5. IdTypes'
  BY <1>1, <1>2 DEF NamesInv, IdTypes
<1>6. Given' = Given
  BY <1>1 DEF Given
<1>7. TreeIsRight' /\ HistoryTypes'
  <2>1. \A e \in Tree' : e \in Tree /\ e # d /\ dscs'[e] = dscs[e]
    BY <1>2, <1>3, <1>4
  <2>2. dscs[d].id \in Given
    BY <1>4 DEF NamesInv, TreeIsRight
  <2> QED
    BY <2>1, <2>2, <1>1, <1>4, <1>6 DEF NamesInv, TreeIsRight, HistoryTypes
<1>8. CacheIsRight'
  <2>1. ASSUME NEW e \in dsc_by_id_cache'
        PROVE  /\ e \in [id : Given, dsc : Dscs \cup {Erased}]
               /\ e.id \in reused' \cup left' \/ (e.dsc \in Tree' /\ dscs'[e.dsc].id = e.id)
    <3>1. PICK was \in dsc_by_id_cache : e = [was EXCEPT !.dsc = IF @ = d THEN Erased ELSE @]
      BY <1>1, <2>1
    <3>2. was \in [id : Given, dsc : Dscs \cup {Erased}]
      BY DEF NamesInv, CacheIsRight
    <3>3. was.id \in reused \cup left \/ (was.dsc \in Tree /\ dscs[was.dsc].id = was.id)
      BY DEF NamesInv, CacheIsRight
    <3>4. e.id = was.id /\ e.dsc = IF was.dsc = d THEN Erased ELSE was.dsc
      BY <3>1, <3>2
    <3>5. e \in [id : Given, dsc : Dscs \cup {Erased}]
      BY <3>1, <3>2
    <3>6. CASE was.dsc = d /\ was.id \notin reused \cup left
      BY <3>3, <3>4, <3>5, <3>6, <1>1
    <3>7. CASE was.dsc # d \/ was.id \in reused \cup left
      BY <3>3, <3>4, <3>5, <3>7, <1>1, <1>2, <1>3, <1>4
    <3> QED
      BY <3>6, <3>7
  <2> QED
    BY <2>1, <1>6 DEF CacheIsRight
<1>9. RegisteredIsRight'
  <2>1. \A e \in Tree : dscs[e].id # dscs[d].id => e \in Tree' /\ dscs'[e] = dscs[e]
    BY <1>2, <1>3, <1>4
  <2>2. \A i : HasDsc(i) => HasDsc(i)' \/ i \in left'
    BY <1>1, <2>1 DEF HasDsc
  <2> QED
    BY <1>1, <2>2 DEF NamesInv, RegisteredIsRight
<1> QED
  BY <1>5, <1>7, <1>8, <1>9 DEF NamesInv

LEMMA FindKeeps ==
  ASSUME NamesInv, NEW id, Find(id)
  PROVE  NamesInv'
<1>1. PICK d \in WithId(id) : dsc_by_id_cache' = dsc_by_id_cache \cup {[id |-> id, dsc |-> d]}
  BY DEF Find
<1>2. UNCHANGED <<dscs, persistent_ids, next_temporal_id, reused, left>>
  BY DEF Find
<1>3. d \in Tree /\ d \in Dscs /\ dscs[d].id = id
  BY DEF WithId, Tree
<1>4. id \in Given
  BY <1>3 DEF NamesInv, TreeIsRight
<1>5. Tree' = Tree /\ Given' = Given
  BY <1>2 DEF Tree, InTree, Given
<1>6. CacheIsRight'
  BY <1>1, <1>2, <1>3, <1>4, <1>5 DEF NamesInv, CacheIsRight
<1> QED
  BY <1>2, <1>5, <1>6 DEF NamesInv, IdTypes, HistoryTypes, TreeIsRight, RegisteredIsRight, HasDsc

LEMMA ReopenKeeps ==
  ASSUME NamesInv, NEW marks \in BOOLEAN, NEW config \in Configs, Reopen(marks, config)
  PROVE  NamesInv'
<1>1. PICK f : f = file'
  OBVIOUS
<1>2. CASE Refuses(f)
  <2>1. UNCHANGED memory
    BY <1>2 DEF Refuses
  <2> QED
    BY <2>1, NamesInvUnchanged DEF memory
<1>3. CASE Opens(f)
  <2>1. PICK names \in Readings(f), order \in Bijection(Unnumbered(f), 1 .. Cardinality(Unnumbered(f))) :
          Accepts(f, names) /\ Load(f, names, order)
    BY <1>3 DEF Opens
  <2>2. f.dscs = StoredIds
    BY <1>1 DEF Reopen, SyncFile, Synced
  <2>3. StoredIds \in [Dscs -> [owner : Sets \cup {NoSet}, id : 0 .. MaxId]]
    <3>1. \A d \in Dscs : dscs[d] \in [owner : Sets \cup {NoSet}, id : Nat]
      BY DEF NamesInv, IdTypes
    <3>2. 0 \in 0 .. MaxId /\ \A i : is_persistent(i) => i \in 0 .. MaxId
      BY NamesAssumption DEF is_persistent
    <3> QED
      BY <3>1, <3>2 DEF StoredIds
  <2> QED
    BY <2>1, <2>2, <2>3, LoadKeeps
<1> QED
  BY <1>1, <1>2, <1>3 DEF Reopen

LEMMA NamesInvKept ==
  ASSUME NamesInv, [NamesNext]_names_vars
  PROVE  NamesInv'
<1>1. CASE \E d \in Dscs, s \in Sets, assign \in BOOLEAN, id \in 0 .. MaxId : Add(d, s, id, assign)
  BY <1>1, AddKeeps
<1>2. CASE \E d \in Dscs : AssignPersistentId(d)
  BY <1>2, AssignKeeps
<1>3. CASE \E d \in Dscs : Erase(d)
  BY <1>3, EraseKeeps
<1>4. CASE \E d \in Dscs, s \in Sets : MoveOut(d, s)
  BY <1>4, MoveOutKeeps
<1>5. CASE \E d \in Dscs : Find(dscs[d].id)
  BY <1>5, FindKeeps
<1>6. CASE \E n \in AllNames, id \in 1 .. MaxId, override \in BOOLEAN : AddName(n, id, override)
  BY <1>6, NamesInvUnchanged DEF AddName
<1>7. CASE \E n \in AllNames : DeleteName(n)
  BY <1>7, NamesInvUnchanged DEF DeleteName
<1>8. CASE \E marks \in BOOLEAN : FullSync(marks)
  BY <1>8, NamesInvUnchanged DEF FullSync, memory
<1>9. CASE \E marks \in BOOLEAN : \E config \in Configs : Reopen(marks, config)
  BY <1>9, ReopenKeeps
<1>10. CASE UNCHANGED names_vars
  BY <1>10, NamesInvUnchanged DEF names_vars
<1> QED
  BY <1>1, <1>2, <1>3, <1>4, <1>5, <1>6, <1>7, <1>8, <1>9, <1>10 DEF NamesNext

-----------------------------------------------------------------------------
(* The entries *)

Entry(m, n) == [name |-> n, id |-> m[n]]

\* The loop of store: g[i] is what it has written after i names.
StoreLoop(g, m) ==
  /\ MapContent(m) = g[Len(NameList)]
  /\ g[0] = <<>>
  /\ \A i \in 1 .. Len(NameList) :
       g[i] = IF IsStored(m, NameList[i]) THEN Append(g[i - 1], Entry(m, NameList[i]))
              ELSE g[i - 1]

\* The entries are written name by name.
LEMMA StoreSteps ==
  ASSUME NEW m
  PROVE  \E g : StoreLoop(g, m)
<1> DEFINE L == Len(NameList)
           Body(i, g) == IF i = 0 THEN <<>>
                         ELSE IF IsStored(m, NameList[i])
                              THEN Append(g[i - 1], [name |-> NameList[i], id |-> m[NameList[i]]])
                              ELSE g[i - 1]
           Until(k, g) == g = [i \in 0 .. k |-> Body(i, g)]
           None == {k \in 0 .. L : ~ \E g : Until(k, g)}
<1>0. L \in Nat
  BY NamesAssumption, LenProperties
<1>1. None = {}
  <2> SUFFICES ASSUME None # {} PROVE FALSE
    OBVIOUS
  <2>1. None \in SUBSET Nat
    BY <1>0
  <2> HIDE DEF Until
  <2>2. PICK k \in None : \A j \in None : k <= j
    <3> HIDE DEF None
    <3> QED
      BY <2>1, LeastExists
  <2>3. k \in 0 .. L /\ ~ \E g : Until(k, g)
    BY <2>2
  <2>4. CASE k = 0
    <3> DEFINE g == [i \in 0 .. 0 |-> <<>>]
    <3>1. Until(0, g)
      BY DEF Until
    <3> QED
      BY <2>3, <2>4, <3>1
  <2>5. CASE k # 0
    <3>1. k - 1 \in 0 .. L /\ k - 1 \notin None
      <4>1. k - 1 \in 0 .. L /\ k \in Nat /\ ~ (k <= k - 1)
        BY <1>0, <2>3, <2>5
      <4> HIDE DEF None
      <4> QED
        BY <2>2, <4>1
    <3>2. PICK g : Until(k - 1, g)
      BY <3>1
    <3> DEFINE h == [i \in 0 .. k |-> IF i = k THEN Body(k, g) ELSE g[i]]
    <3> HIDE DEF Body
    <3>3. /\ \A i \in 0 .. k - 1 : h[i] = g[i] /\ i \in 0 .. k
          /\ h[k] = Body(k, g)
      BY <2>3
    <3>4. \A i \in 0 .. k - 1 : g[i] = Body(i, g)
      BY <3>2 DEF Until
    <3> HIDE DEF h
    <3>5. ASSUME NEW i \in 0 .. k PROVE h[i] = Body(i, h)
      <4>1. i # 0 => i - 1 \in 0 .. k - 1
        BY <2>3
      <4>2. i # 0 => h[i - 1] = g[i - 1]
        BY <3>3, <4>1
      <4>3. Body(i, h) = Body(i, g)
        BY <4>2 DEF Body
      <4>4. i = k \/ i \in 0 .. k - 1
        BY <2>3
      <4> QED
        BY <3>3, <3>4, <4>3, <4>4
    <3>6. h = [i \in 0 .. k |-> Body(i, h)]
      <4>1. h = [i \in 0 .. k |-> h[i]]
        BY DEF h
      <4> QED
        BY <3>5, <4>1
    <3>7. Until(k, h)
      BY <3>6 DEF Until
    <3> QED
      BY <2>3, <3>7
  <2> QED
    BY <2>4, <2>5
<1>2. \E g : Until(L, g)
  <2> HIDE DEF Until
  <2> QED
    BY <1>0, <1>1
<1> DEFINE f == CHOOSE g : Until(L, g)
<1>3. Until(L, f)
  <2> HIDE DEF Until
  <2> QED
    BY <1>2
<1>4. MapContent(m) = f[L]
  BY DEF MapContent
<1> HIDE DEF f
<1>5. /\ f[0] = <<>>
      /\ \A i \in 1 .. L : f[i] = IF IsStored(m, NameList[i])
                                  THEN Append(f[i - 1], Entry(m, NameList[i])) ELSE f[i - 1]
  <2>1. \A i \in 0 .. L : f[i] = Body(i, f)
    <3> HIDE DEF Body
    <3> QED
      BY <1>3
  <2>2. 0 \in 0 .. L /\ \A i \in 1 .. L : i \in 0 .. L /\ i # 0
    BY <1>0
  <2> QED
    BY <2>1, <2>2 DEF Entry
<1> QED
  BY <1>4, <1>5 DEF StoreLoop

\* The entries are those of the names of the map that are not temporal.
LEMMA EntriesOfMap ==
  ASSUME NEW m
  PROVE  /\ Len(MapContent(m)) \in Nat
         /\ {MapContent(m)[i] : i \in 1 .. Len(MapContent(m))} =
              {Entry(m, n) : n \in {n \in AllNames : IsStored(m, n)}}
<1> DEFINE L == Len(NameList)
           All == {Entry(m, n) : n \in AllNames}
           Seen(k) == {NameList[i] : i \in 1 .. k}
           Right(k, s) ==
             /\ s \in Seq(All)
             /\ {s[j] : j \in 1 .. Len(s)} = {Entry(m, n) : n \in {n \in Seen(k) : IsStored(m, n)}}
<1>1. PICK g : StoreLoop(g, m)
  BY StoreSteps
<1>2. /\ L \in Nat /\ AllNames = Seen(L)
      /\ \A i \in 1 .. L : NameList[i] \in AllNames
  <2>1. NameList \in Seq(AllNames) /\ DOMAIN NameList = 1 .. L /\ L \in Nat
    BY NamesAssumption, LenProperties
  <2> QED
    BY <2>1 DEF AllNames
<1> DEFINE Bad == {k \in 0 .. L : ~ Right(k, g[k])}
<1>3. Bad = {}
  <2> SUFFICES ASSUME Bad # {} PROVE FALSE
    OBVIOUS
  <2> HIDE DEF Right
  <2>1. Bad \in SUBSET Nat
    BY <1>2
  <2>2. PICK k \in Bad : \A j \in Bad : k <= j
    <3> HIDE DEF Bad
    <3> QED
      BY <2>1, LeastExists
  <2>3. k \in 0 .. L /\ ~ Right(k, g[k])
    BY <2>2
  <2>4. CASE k = 0
    <3>1. g[0] = <<>> /\ Seen(0) = {}
      BY <1>1 DEF StoreLoop
    <3>2. Right(0, <<>>)
      BY <3>1 DEF Right
    <3> QED
      BY <2>3, <2>4, <3>1, <3>2
  <2>5. CASE k # 0
    <3>1. k - 1 \in 0 .. L /\ k \in 1 .. L /\ ~ (k <= k - 1)
      BY <1>2, <2>3, <2>5
    <3>2. Right(k - 1, g[k - 1])
      <4>1. k - 1 \notin Bad
        <5> HIDE DEF Bad
        <5> QED
          BY <2>2, <3>1
      <4> QED
        BY <3>1, <4>1
    <3> DEFINE s == g[k - 1]
               n == NameList[k]
    <3>3. Seen(k) = Seen(k - 1) \cup {n} /\ n \in AllNames
      <4>1. \A i \in 1 .. k : i \in 1 .. k - 1 \/ i = k
        BY <3>1
      <4>2. \A i \in 1 .. k - 1 : i \in 1 .. k
        BY <3>1
      <4>3. k \in 1 .. k
        BY <3>1
      <4> QED
        BY <4>1, <4>2, <4>3, <3>1, <1>2
    <3>4. g[k] = IF IsStored(m, n) THEN Append(s, Entry(m, n)) ELSE s
      BY <1>1, <3>1 DEF StoreLoop
    <3> HIDE DEF s, n, Seen
    <3>5. /\ s \in Seq(All)
          /\ {s[j] : j \in 1 .. Len(s)} =
               {Entry(m, x) : x \in {x \in Seen(k - 1) : IsStored(m, x)}}
      BY <3>2 DEF Right, s
    <3>6. CASE IsStored(m, n)
      <4> DEFINE u == Append(s, Entry(m, n))
      <4>1. Entry(m, n) \in All
        BY <3>3
      <4> HIDE DEF All
      <4>2. /\ u \in Seq(All) /\ Len(s) \in Nat /\ Len(u) = Len(s) + 1
            /\ u[Len(s) + 1] = Entry(m, n)
            /\ \A j \in 1 .. Len(s) : u[j] = s[j]
        BY <3>5, <4>1, AppendProperties, LenProperties
      <4> HIDE DEF u
      <4>3. {u[j] : j \in 1 .. Len(u)} = {s[j] : j \in 1 .. Len(s)} \cup {Entry(m, n)}
        <5>1. \A j \in 1 .. Len(u) : j \in 1 .. Len(s) \/ j = Len(s) + 1
          BY <4>2
        <5>2. \A j \in 1 .. Len(s) : j \in 1 .. Len(u)
          BY <4>2
        <5>3. Len(s) + 1 \in 1 .. Len(u)
          BY <4>2
        <5> QED
          BY <5>1, <5>2, <5>3, <4>2
      <4>4. {x \in Seen(k) : IsStored(m, x)} = {x \in Seen(k - 1) : IsStored(m, x)} \cup {n}
        BY <3>3, <3>6
      <4>5. {Entry(m, x) : x \in {x \in Seen(k) : IsStored(m, x)}} =
              {Entry(m, x) : x \in {x \in Seen(k - 1) : IsStored(m, x)}} \cup {Entry(m, n)}
        BY <4>4
      <4>6. Right(k, u)
        BY <4>2, <4>3, <4>5, <3>5 DEF Right
      <4> QED
        BY <4>6, <3>4, <3>6, <2>3 DEF u
    <3>7. CASE ~ IsStored(m, n)
      <4>1. {x \in Seen(k) : IsStored(m, x)} = {x \in Seen(k - 1) : IsStored(m, x)}
        BY <3>3, <3>7
      <4>2. Right(k, s)
        BY <4>1, <3>5 DEF Right
      <4> QED
        BY <4>2, <3>4, <3>7, <2>3
    <3> QED
      BY <3>6, <3>7
  <2> QED
    BY <2>4, <2>5
<1>4. Right(L, g[L]) /\ MapContent(m) = g[L]
  <2>1. L \in 0 .. L
    BY <1>2
  <2> HIDE DEF Right
  <2> QED
    BY <1>1, <1>3, <2>1 DEF StoreLoop
<1>5. Len(g[L]) \in Nat
  BY <1>4, LenProperties
<1> QED
  BY <1>2, <1>4, <1>5

\* Read again, the entries are the names that are stored.
LEMMA NamesOfContent ==
  ASSUME NEW m
  PROVE  NamesIn(MapContent(m)) = [n \in AllNames |-> IF IsStored(m, n) THEN m[n] ELSE 0]
<1>1. PICK s : s = MapContent(m)
  OBVIOUS
<1>2. {s[i] : i \in 1 .. Len(s)} = {Entry(m, n) : n \in {n \in AllNames : IsStored(m, n)}}
  BY <1>1, EntriesOfMap
<1>3. ASSUME NEW n \in AllNames
      PROVE  NamesIn(s)[n] = IF IsStored(m, n) THEN m[n] ELSE 0
  <2>1. \A i \in 1 .. Len(s) : \E x \in AllNames : IsStored(m, x) /\ s[i] = Entry(m, x)
    BY <1>2
  <2>2. ASSUME NEW i \in 1 .. Len(s), s[i].name = n
        PROVE  s[i].id = m[n] /\ IsStored(m, n)
    <3>1. PICK x \in AllNames : IsStored(m, x) /\ s[i] = [name |-> x, id |-> m[x]]
      BY <2>1 DEF Entry
    <3>2. x = n
      BY <2>2, <3>1
    <3> QED
      BY <3>1, <3>2
  <2>3. NamesIn(s)[n] =
          IF \E i \in 1 .. Len(s) : s[i].name = n
          THEN s[CHOOSE i \in 1 .. Len(s) : s[i].name = n].id ELSE 0
    BY DEF NamesIn
  <2>4. CASE IsStored(m, n)
    <3>1. PICK i \in 1 .. Len(s) : s[i] = Entry(m, n)
      BY <1>2, <2>4
    <3>2. s[i].name = n
      BY <3>1 DEF Entry
    <3> DEFINE j == CHOOSE j \in 1 .. Len(s) : s[j].name = n
    <3>3. j \in 1 .. Len(s) /\ s[j].name = n
      BY <3>2
    <3>4. NamesIn(s)[n] = s[j].id
      BY <2>3, <3>2
    <3> HIDE DEF j
    <3> QED
      BY <2>2, <2>4, <3>3, <3>4
  <2>5. CASE ~ IsStored(m, n)
    <3>1. ~ \E i \in 1 .. Len(s) : s[i].name = n
      BY <2>2, <2>5
    <3> QED
      BY <2>3, <2>5, <3>1
  <2> QED
    BY <2>4, <2>5
<1>4. NamesIn(s) = [n \in AllNames |-> NamesIn(s)[n]]
  BY DEF NamesIn
<1>5. NamesIn(s) = [n \in AllNames |-> IF IsStored(m, n) THEN m[n] ELSE 0]
  BY <1>3, <1>4
<1> QED
  BY <1>1, <1>5

-----------------------------------------------------------------------------
(* What is stored, and its types *)

\* What the types say that NamesInv does not.
StoreTypes ==
  /\ id_by_name \in [AllNames -> {0} \cup persistent_ids]
  /\ keep \in Configs /\ {idmap_pending, refused, file.has_idmap} \subseteq BOOLEAN
  /\ file.dscs \in [Dscs -> [owner : Sets \cup {NoSet}, id : 0 .. MaxId]]
  /\ calls \in 0 .. MaxCalls

\* What a call does to the count of them.
LEMMA CallCounts ==
  ASSUME StoreTypes, Call
  PROVE  calls' \in 0 .. MaxCalls
BY NamesAssumption DEF StoreTypes, Call

\* No id is forgotten but by an open.
LEMMA IdsRemain ==
  ASSUME NEW d, NEW s, NEW id, NEW assign, GetsId(d, s, id, assign)
  PROVE  persistent_ids \subseteq persistent_ids'
BY DEF GetsId

\* The names have registered ids still.
LEMMA StoreTypesRemain ==
  ASSUME StoreTypes, persistent_ids \subseteq persistent_ids', calls' \in 0 .. MaxCalls,
         UNCHANGED <<id_by_name, keep, idmap_pending, file, refused>>
  PROVE  StoreTypes'
<1>1. \A n \in AllNames : id_by_name[n] \in {0} \cup persistent_ids'
  BY DEF StoreTypes
<1>2. id_by_name' \in [AllNames -> {0} \cup persistent_ids']
  BY <1>1 DEF StoreTypes
<1> QED
  BY <1>2 DEF StoreTypes

\* What a sync stores. Unless the record is outdated, the names that are read
\* are those of the index that are stored, or those that were stored before.
LEMMA SyncedTypes ==
  ASSUME NamesInv, StoreTypes, NEW marks \in BOOLEAN, SyncFile(marks)
  PROVE  /\ file'.dscs = StoredIds
         /\ file'.dscs \in [Dscs -> [owner : Sets \cup {NoSet}, id : 0 .. MaxId]]
         /\ file'.has_idmap \in BOOLEAN
         /\ keep /\ ~Outdated(file') => file'.recorded = MapContent(id_by_name)
         /\ ~keep => file'.recorded = file.recorded /\ file'.stored = file.stored
<1> DEFINE pending == idmap_pending \/ (keep /\ marks)
           entries == IF keep THEN MapContent(id_by_name) ELSE file.stored
<1>1. /\ file'.dscs = StoredIds
      /\ file'.has_idmap = (file.has_idmap \/ pending)
      /\ file'.recorded = IF keep /\ pending THEN entries ELSE file.recorded
      /\ file'.stored = entries
  BY DEF SyncFile, Synced
<1>2. StoredIds \in [Dscs -> [owner : Sets \cup {NoSet}, id : 0 .. MaxId]]
  <2>1. \A d \in Dscs : dscs[d] \in [owner : Sets \cup {NoSet}, id : Nat]
    BY DEF NamesInv, IdTypes
  <2>2. 0 \in 0 .. MaxId /\ \A i : is_persistent(i) => i \in 0 .. MaxId
    BY NamesAssumption DEF is_persistent
  <2> QED
    BY <2>1, <2>2 DEF StoredIds
<1>3. file'.has_idmap \in BOOLEAN
  BY <1>1
<1>4. keep /\ ~Outdated(file') => file'.recorded = MapContent(id_by_name)
  BY <1>1 DEF Outdated
<1>5. ~keep => file'.recorded = file.recorded /\ file'.stored = file.stored
  BY <1>1
<1> QED
  BY <1>1, <1>2, <1>3, <1>4, <1>5

\* The names that an open accepts are of registered ids.
LEMMA LoadedTypes ==
  ASSUME NEW f, Opens(f)
  PROVE  id_by_name' \in [AllNames -> {0} \cup persistent_ids'] /\ refused' = FALSE
<1>1. PICK names \in Readings(f), order \in Bijection(Unnumbered(f), 1 .. Cardinality(Unnumbered(f))) :
        Accepts(f, names) /\ Load(f, names, order)
  BY DEF Opens
<1>2. id_by_name' = names /\ persistent_ids' = RegisteredOnLoad(f)
  BY <1>1 DEF Load
<1>3. names = [n \in AllNames |-> names[n]]
  <2>1. CASE Outdated(f)
    BY <2>1, <1>1 DEF Readings
  <2>2. CASE ~Outdated(f)
    BY <2>2, <1>1 DEF Readings, NamesIn
  <2> QED
    BY <2>1, <2>2
<1>4. \A n \in AllNames : names[n] \in {0} \cup RegisteredOnLoad(f)
  BY <1>1 DEF Accepts
<1> QED
  BY <1>2, <1>3, <1>4 DEF Opens

LEMMA StoreTypesInitially == NamesInit => StoreTypes
<1> SUFFICES ASSUME NamesInit PROVE StoreTypes
  OBVIOUS
<1>1. /\ id_by_name = [n \in AllNames |-> 0] /\ persistent_ids = {} /\ keep \in Configs
      /\ idmap_pending = keep /\ refused = FALSE /\ calls = 0
      /\ file = [dscs |-> [d \in Dscs |-> [owner |-> NoSet, id |-> 0]], has_idmap |-> FALSE,
                 recorded |-> <<>>, stored |-> <<>>]
  BY DEF NamesInit, NoNames, EmptyFile, Absent
<1>2. Configs \subseteq BOOLEAN /\ MaxId \in Nat /\ MaxCalls \in Nat
  BY NamesAssumption
<1>3. /\ file.has_idmap = FALSE
      /\ file.dscs = [d \in Dscs |-> [owner |-> NoSet, id |-> 0]]
  BY <1>1
<1>4. file.dscs \in [Dscs -> [owner : Sets \cup {NoSet}, id : 0 .. MaxId]]
  BY <1>2, <1>3
<1>5. id_by_name \in [AllNames -> {0} \cup persistent_ids]
  BY <1>1
<1>6. {idmap_pending, refused, file.has_idmap} \subseteq BOOLEAN
  BY <1>1, <1>2, <1>3
<1> QED
  BY <1>1, <1>2, <1>3, <1>4, <1>5, <1>6 DEF StoreTypes

LEMMA StoreTypesKept ==
  ASSUME NamesInv, StoreTypes, [NamesNext]_names_vars
  PROVE  StoreTypes'
<1>1. CASE \E d \in Dscs, s \in Sets, assign \in BOOLEAN, id \in 0 .. MaxId : Add(d, s, id, assign)
  BY <1>1, IdsRemain, CallCounts, StoreTypesRemain DEF Add
<1>2. CASE \E d \in Dscs : AssignPersistentId(d)
  BY <1>2, IdsRemain, CallCounts, StoreTypesRemain DEF AssignPersistentId
<1>3. CASE \E d \in Dscs : Erase(d)
  BY <1>3, CallCounts, StoreTypesRemain DEF Erase, IdsAfterErase
<1>4. CASE \E d \in Dscs, s \in Sets : MoveOut(d, s)
  BY <1>4, IdsRemain, CallCounts, StoreTypesRemain DEF MoveOut
<1>5. CASE \E d \in Dscs : Find(dscs[d].id)
  BY <1>5, CallCounts, StoreTypesRemain DEF Find
<1>6. ASSUME NEW n \in AllNames, NEW id \in 1 .. MaxId, NEW override \in BOOLEAN,
             AddName(n, id, override)
      PROVE  StoreTypes'
  <2>1. Call /\ id \in persistent_ids /\ id_by_name' = [id_by_name EXCEPT ![n] = id]
        /\ UNCHANGED <<persistent_ids, keep, idmap_pending, file, refused>>
    BY <1>6 DEF AddName
  <2>2. id_by_name' \in [AllNames -> {0} \cup persistent_ids']
    BY <2>1 DEF StoreTypes
  <2> QED
    BY <2>1, <2>2, CallCounts DEF StoreTypes
<1>7. ASSUME NEW n \in AllNames, DeleteName(n)
      PROVE  StoreTypes'
  <2>1. id_by_name' = [id_by_name EXCEPT ![n] = 0]
        /\ UNCHANGED <<persistent_ids, keep, idmap_pending, file, refused, calls>>
    BY <1>7 DEF DeleteName
  <2>2. id_by_name' \in [AllNames -> {0} \cup persistent_ids']
    BY <2>1 DEF StoreTypes
  <2> QED
    BY <2>1, <2>2 DEF StoreTypes
<1>8. ASSUME NEW marks \in BOOLEAN, FullSync(marks)
      PROVE  StoreTypes'
  <2>1. /\ SyncFile(marks) /\ idmap_pending' = FALSE
        /\ UNCHANGED <<persistent_ids, id_by_name, keep, refused, calls>>
    BY <1>8 DEF FullSync, memory
  <2> QED
    BY <2>1, SyncedTypes DEF StoreTypes
<1>9. ASSUME NEW marks \in BOOLEAN, NEW config \in Configs, Reopen(marks, config)
      PROVE  StoreTypes'
  <2>1. /\ Call /\ SyncFile(marks) /\ keep' = config
        /\ idmap_pending' = (config /\ ~file'.has_idmap)
    BY <1>9 DEF Reopen
  <2>2. id_by_name' \in [AllNames -> {0} \cup persistent_ids'] /\ refused' \in BOOLEAN
    <3>1. CASE Opens(file')
      BY <3>1, LoadedTypes
    <3>2. CASE Refuses(file')
      BY <3>2 DEF Refuses, memory, StoreTypes
    <3> QED
      BY <1>9, <3>1, <3>2 DEF Reopen
  <2>3. /\ file'.dscs \in [Dscs -> [owner : Sets \cup {NoSet}, id : 0 .. MaxId]]
        /\ file'.has_idmap \in BOOLEAN
    BY <2>1, SyncedTypes
  <2>4. calls' \in 0 .. MaxCalls
    BY <2>1, CallCounts
  <2> QED
    BY <2>1, <2>2, <2>3, <2>4 DEF StoreTypes
<1>10. CASE UNCHANGED names_vars
  BY <1>10, StoreTypesRemain DEF names_vars, StoreTypes
<1> QED
  BY <1>1, <1>2, <1>3, <1>4, <1>5, <1>6, <1>7, <1>8, <1>9, <1>10 DEF NamesNext

-----------------------------------------------------------------------------
(* The names, of descriptors of the tree or of ids that were left *)

\* The names that an open reads in f, if its record is that of what is stored.
NamesHoldIn(f) ==
  ~Outdated(f) => \A n \in AllNames :
    LET id == NamesIn(f.recorded)[n]
    IN  id # 0 => id \in 1 .. MaxId /\ (HasDsc(id) \/ id \in left) /\ n \notin TempNames

\* Every name is the name of a descriptor of the tree, or was of one: those of
\* the index, and those stored ones that a sync leaves alone.
NamesHold ==
  /\ FileOpens
  /\ ~refused =>
       /\ \A n \in AllNames :
            id_by_name[n] # 0 => HasDsc(id_by_name[n]) \/ id_by_name[n] \in left
       /\ ~keep => NamesHoldIn(file)

\* The descriptors with persistent ids keep them, or leave them.
LEMMA NamesRemain ==
  ASSUME StoreTypes, NamesHold, persistent_ids \subseteq 1 .. MaxId, ~refused,
         \A i \in 1 .. MaxId : HasDsc(i) => HasDsc(i)' \/ i \in left',
         left \subseteq left', UNCHANGED <<id_by_name, keep, file, refused>>
  PROVE  NamesHold'
<1>1. \A n \in AllNames :
        id_by_name[n] # 0 => HasDsc(id_by_name[n])' \/ id_by_name[n] \in left'
  BY DEF NamesHold, StoreTypes
<1>2. NamesHoldIn(file) => NamesHoldIn(file)'
  BY DEF NamesHoldIn
<1>3. FileOpens'
  BY DEF FileOpens
<1> QED
  BY <1>1, <1>2, <1>3 DEF NamesHold

LEMMA GetsIdKeepsDscs ==
  ASSUME NamesInv, NEW d \in Dscs, NEW s \in Sets, NEW id, NEW assign, GetsId(d, s, id, assign),
         InTree(d) => id = dscs[d].id,
         NEW i \in 1 .. MaxId, HasDsc(i)
  PROVE  HasDsc(i)'
<1>1. PICK e \in Tree : dscs[e].id = i
  BY DEF HasDsc
<1>2. e \in Dscs /\ InTree(e) /\ dscs[e].owner # NoSet
  BY DEF Tree, InTree
<1>3. is_persistent(i) /\ i # 0
  BY NamesAssumption DEF is_persistent
<1>4. PICK new_id : /\ dscs' = [dscs EXCEPT ![d] = [owner |-> s, id |-> new_id]]
                    /\ is_persistent(id) /\ id # 0 => new_id = id
  BY DEF GetsId
<1>5. dscs'[e].id = i /\ dscs'[e].owner # NoSet
  <2>1. CASE e = d
    BY <2>1, <1>1, <1>2, <1>3, <1>4, NamesAssumption DEF NamesInv, IdTypes
  <2>2. CASE e # d
    BY <2>2, <1>1, <1>2, <1>4 DEF NamesInv, IdTypes
  <2> QED
    BY <2>1, <2>2
<1> QED
  BY <1>2, <1>5 DEF HasDsc, Tree, InTree

LEMMA EraseKeepsNames ==
  ASSUME NamesInv, StoreTypes, NamesHold, NEW d \in Dscs, Erase(d)
  PROVE  NamesHold'
<1>1. /\ InTree(d) /\ ~refused
      /\ dscs' = [dscs EXCEPT ![d] = Absent] /\ left' = left \cup {dscs[d].id}
      /\ UNCHANGED <<id_by_name, keep, file, refused>>
  BY DEF Erase, Call
<1>2. \A e \in Tree : dscs[e].id # dscs[d].id => e \in Tree' /\ dscs'[e] = dscs[e]
  BY <1>1 DEF Tree, InTree, NamesInv, IdTypes
<1>3. \A i : HasDsc(i) => HasDsc(i)' \/ i \in left'
  BY <1>1, <1>2 DEF HasDsc
<1>4. persistent_ids \subseteq 1 .. MaxId
  BY DEF NamesInv, IdTypes
<1> QED
  BY <1>1, <1>3, <1>4, NamesRemain

\* What a sync leaves to be read.
LEMMA SyncedNames ==
  ASSUME NamesInv, StoreTypes, NamesHold, NEW marks \in BOOLEAN, SyncFile(marks)
  PROVE  NamesHoldIn(file')
<1>1. ~refused
  BY DEF SyncFile
<1>2. CASE keep
  <2> SUFFICES ASSUME ~Outdated(file') PROVE NamesHoldIn(file')
    BY DEF NamesHoldIn
  <2>1. NamesIn(file'.recorded) =
          [n \in AllNames |-> IF IsStored(id_by_name, n) THEN id_by_name[n] ELSE 0]
    BY <1>2, SyncedTypes, NamesOfContent
  <2>2. ASSUME NEW n \in AllNames, NamesIn(file'.recorded)[n] # 0
        PROVE  /\ NamesIn(file'.recorded)[n] = id_by_name[n]
               /\ id_by_name[n] # 0 /\ n \notin TempNames
    BY <2>1, <2>2 DEF IsStored
  <2>3. \A n \in AllNames : id_by_name[n] # 0 => id_by_name[n] \in 1 .. MaxId
    BY DEF StoreTypes, NamesInv, IdTypes
  <2> QED
    BY <1>1, <2>2, <2>3 DEF NamesHoldIn, NamesHold
<1>3. CASE ~keep
  <2>1. file'.recorded = file.recorded /\ file'.stored = file.stored
    BY <1>3, SyncedTypes
  <2> QED
    BY <1>1, <1>3, <2>1 DEF NamesHold, NamesHoldIn, Outdated
<1> QED
  BY <1>2, <1>3

\* The persistent ids are stored.
LEMMA StoredDscs ==
  ASSUME NamesInv, NEW f, f.dscs = StoredIds
  PROVE  /\ StoredTree(f) = Tree
         /\ \A d \in Tree : f.dscs[d].id = IF is_persistent(dscs[d].id) THEN dscs[d].id ELSE 0
         /\ \A i \in 1 .. MaxId : HasDsc(i) <=> i \in RegisteredOnLoad(f)
<1>1. \A d \in Dscs : /\ dscs[d] \in [owner : Sets \cup {NoSet}, id : Nat]
                      /\ f.dscs[d].owner = dscs[d].owner
                      /\ f.dscs[d].id = IF is_persistent(dscs[d].id) THEN dscs[d].id ELSE 0
  BY DEF NamesInv, IdTypes, StoredIds
<1>2. StoredTree(f) = Tree
  BY <1>1 DEF StoredTree, Tree, InTree
<1>3. Tree \subseteq Dscs
  BY DEF Tree
<1>4. ASSUME NEW i \in 1 .. MaxId, HasDsc(i) PROVE i \in RegisteredOnLoad(f)
  <2>1. PICK d \in Tree : dscs[d].id = i
    BY <1>4 DEF HasDsc
  <2>2. is_persistent(i) /\ i # 0
    BY NamesAssumption DEF is_persistent
  <2>3. f.dscs[d].id = i
    BY <1>1, <1>3, <2>1, <2>2
  <2> QED
    BY <2>1, <2>2, <2>3, <1>2 DEF RegisteredOnLoad
<1>5. ASSUME NEW i \in 1 .. MaxId, i \in RegisteredOnLoad(f) PROVE HasDsc(i)
  <2>1. PICK d \in Tree : f.dscs[d].id = i /\ i # 0
    BY <1>2, <1>5 DEF RegisteredOnLoad
  <2>2. dscs[d].id = i
    BY <1>1, <1>3, <2>1
  <2> QED
    BY <2>1, <2>2 DEF HasDsc
<1> QED
  BY <1>1, <1>2, <1>3, <1>4, <1>5

\* Whatever few names an outdated record counts, one that counts none has none.
LEMMA NoneCounted ==
  ASSUME NEW f, Outdated(f), f.recorded = <<>>, NEW names \in Readings(f), NEW n \in AllNames
  PROVE  names[n] = 0
<1> DEFINE S == {x \in AllNames : names[x] # 0}
<1>1. Cardinality(S) <= 0
  BY DEF Readings
<1>2. IsFiniteSet(AllNames)
  <2>1. Len(NameList) \in Nat /\ DOMAIN NameList = 1 .. Len(NameList)
    BY NamesAssumption, LenProperties
  <2>2. IsFiniteSet(DOMAIN NameList)
    BY <2>1, FS_Interval
  <2>3. NameList \in Surjection(DOMAIN NameList, AllNames)
    BY NamesAssumption DEF AllNames, Surjection
  <2> QED
    BY <2>2, <2>3, FS_Surjection
<1>3. IsFiniteSet(S) /\ Cardinality(S) \in Nat
  BY <1>2, FS_Subset, FS_CardinalityType
<1>4. S = {}
  <2> HIDE DEF S
  <2>1. Cardinality(S) = 0
    BY <1>1, <1>3
  <2> QED
    BY <1>3, <2>1, FS_EmptySet
<1> QED
  BY <1>4

\* An open that refuses a file has one of the reasons.
LEMMA RefusedOnlyThen ==
  ASSUME NamesInv, StoreTypes, NamesHold, NEW marks \in BOOLEAN, SyncFile(marks), Refuses(file')
  PROVE  FileOpens'
<1>1. PICK f : f = file'
  OBVIOUS
<1>2. /\ f.dscs = StoredIds /\ NamesHoldIn(f)
      /\ UNCHANGED <<dscs, reused, left>>
  BY <1>1, SyncedTypes, SyncedNames DEF Refuses, memory
<1> SUFFICES ASSUME ~(Outdated(f) /\ f.recorded # <<>>), reused = {},
                    \A n \in AllNames : NamesIn(f.recorded)[n] \notin left
             PROVE  FALSE
  BY <1>1, <1>2 DEF FileOpens
<1>3. PICK names \in Readings(f) : ~Accepts(f, names)
  BY <1>1 DEF Refuses
<1>4. \A d, e \in StoredTree(f) \ Unnumbered(f) : d # e => f.dscs[d].id # f.dscs[e].id
  <2> SUFFICES ASSUME NEW d \in StoredTree(f) \ Unnumbered(f),
                      NEW e \in StoredTree(f) \ Unnumbered(f), d # e
               PROVE  f.dscs[d].id # f.dscs[e].id
    OBVIOUS
  <2>1. d \in Tree /\ e \in Tree /\ f.dscs[d].id # 0 /\ f.dscs[e].id # 0
    BY <1>2, StoredDscs DEF Unnumbered
  <2>2. f.dscs[d].id = dscs[d].id /\ f.dscs[e].id = dscs[e].id
    BY <1>2, <2>1, StoredDscs
  <2> QED
    BY <2>1, <2>2 DEF NamesInv, TreeIsRight
<1>5. PICK n \in AllNames : names[n] # 0 /\ ~(names[n] \in RegisteredOnLoad(f) /\ n \notin TempNames)
  BY <1>3, <1>4 DEF Accepts
<1>6. ~Outdated(f)
  BY <1>3, <1>5, NoneCounted
<1>7. names = NamesIn(f.recorded)
  BY <1>3, <1>6 DEF Readings
<1>8. /\ names[n] \in 1 .. MaxId /\ n \notin TempNames
      /\ HasDsc(names[n])
  BY <1>2, <1>5, <1>6, <1>7 DEF NamesHoldIn
<1> QED
  BY <1>2, <1>5, <1>8, StoredDscs

\* A registered id of a file is that of a descriptor once it is loaded, the one
\* it was stored with.
LEMMA LoadedDscs ==
  ASSUME NEW f, f.dscs \in [Dscs -> [owner : Sets \cup {NoSet}, id : 0 .. MaxId]],
         NEW names, NEW order \in Bijection(Unnumbered(f), 1 .. Cardinality(Unnumbered(f))),
         Load(f, names, order)
  PROVE  /\ \A d \in Dscs : InTree(d)' <=> d \in StoredTree(f)
         /\ \A d \in StoredTree(f), i \in 1 .. MaxId : dscs'[d].id = i <=> f.dscs[d].id = i
         /\ \A i \in RegisteredOnLoad(f) : i \in 1 .. MaxId /\ HasDsc(i)'
<1> DEFINE U == Unnumbered(f)
           cnt == Cardinality(U)
<1>1. MaxId \in Nat /\ cnt \in Nat
  <2>1. U \subseteq Dscs /\ IsFiniteSet(Dscs)
    BY NamesAssumption DEF Unnumbered, StoredTree
  <2> QED
    BY <2>1, FS_Subset, FS_CardinalityType, NamesAssumption
<1>2. order \in [U -> 1 .. cnt]
  BY DEF Bijection, Injection
<1> HIDE DEF cnt
<1>3. \A d \in U : MaxId + order[d] \in Nat /\ MaxId + order[d] > MaxId
  BY <1>1, <1>2
<1>4. dscs' = [d \in Dscs |-> IF d \in U THEN [f.dscs[d] EXCEPT !.id = MaxId + order[d]]
                              ELSE f.dscs[d]]
  BY DEF Load
<1>5. \A d \in U : f.dscs[d].id = 0
  BY DEF U, Unnumbered
<1> HIDE DEF U
<1>6. \A d \in Dscs : /\ dscs'[d].owner = f.dscs[d].owner
                      /\ d \in U => dscs'[d].id = MaxId + order[d]
                      /\ d \notin U => dscs'[d].id = f.dscs[d].id
                      /\ f.dscs[d].id \in 0 .. MaxId
  <2> SUFFICES ASSUME NEW d \in Dscs
               PROVE  /\ dscs'[d].owner = f.dscs[d].owner
                      /\ d \in U => dscs'[d].id = MaxId + order[d]
                      /\ d \notin U => dscs'[d].id = f.dscs[d].id
                      /\ f.dscs[d].id \in 0 .. MaxId
    OBVIOUS
  <2>1. f.dscs[d] \in [owner : Sets \cup {NoSet}, id : 0 .. MaxId]
    OBVIOUS
  <2>2. dscs'[d] = IF d \in U THEN [f.dscs[d] EXCEPT !.id = MaxId + order[d]] ELSE f.dscs[d]
    BY <1>4
  <2> QED
    BY <2>1, <2>2
<1>7. \A d \in Dscs : InTree(d)' <=> d \in StoredTree(f)
  BY <1>6 DEF InTree, StoredTree
<1>8. StoredTree(f) \subseteq Dscs
  BY DEF StoredTree
<1>9. \A d \in Dscs, i \in 1 .. MaxId : dscs'[d].id = i <=> f.dscs[d].id = i
  <2> SUFFICES ASSUME NEW d \in Dscs, NEW i \in 1 .. MaxId
               PROVE  dscs'[d].id = i <=> f.dscs[d].id = i
    OBVIOUS
  <2>1. CASE d \in U
    BY <2>1, <1>1, <1>3, <1>5, <1>6
  <2>2. CASE d \notin U
    BY <2>2, <1>6
  <2> QED
    BY <2>1, <2>2
<1>10. ASSUME NEW i \in RegisteredOnLoad(f) PROVE i \in 1 .. MaxId /\ HasDsc(i)'
  <2>1. PICK d \in StoredTree(f) : f.dscs[d].id = i
    BY DEF RegisteredOnLoad
  <2>2. i # 0 /\ d \in Dscs
    BY <1>8 DEF RegisteredOnLoad
  <2>3. i \in 1 .. MaxId
    BY <1>1, <1>6, <2>1, <2>2
  <2>4. dscs'[d].id = i /\ InTree(d)'
    BY <1>7, <1>9, <2>1, <2>2, <2>3
  <2> QED
    BY <2>2, <2>3, <2>4 DEF HasDsc, Tree
<1> QED
  BY <1>7, <1>8, <1>9, <1>10

LEMMA NamesHoldInitially == NamesInit => NamesHold
<1> SUFFICES ASSUME NamesInit PROVE NamesHold
  OBVIOUS
<1>1. refused = FALSE /\ \A n \in AllNames : id_by_name[n] = 0
  BY DEF NamesInit, NoNames
<1>2. file.recorded = <<>>
  BY DEF NamesInit, EmptyFile
<1>3. \A n \in AllNames : NamesIn(<<>>)[n] = 0
  BY DEF NamesIn
<1> QED
  BY <1>1, <1>2, <1>3 DEF NamesHold, FileOpens, NamesHoldIn

\* An open that accepts the file.
LEMMA OpenKeepsNames ==
  ASSUME NamesInv, StoreTypes, NEW marks \in BOOLEAN, SyncFile(marks), Opens(file')
  PROVE  NamesHold'
<1>1. PICK f : f = file'
  OBVIOUS
<1>2. PICK names \in Readings(f), order \in Bijection(Unnumbered(f), 1 .. Cardinality(Unnumbered(f))) :
        Accepts(f, names) /\ Load(f, names, order)
  BY <1>1 DEF Opens
<1>3. ~refused' /\ id_by_name' = names
  BY <1>1, <1>2 DEF Opens, Load
<1>4. f.dscs \in [Dscs -> [owner : Sets \cup {NoSet}, id : 0 .. MaxId]]
  BY <1>1, SyncedTypes
<1>5. \A i \in RegisteredOnLoad(f) : i \in 1 .. MaxId /\ HasDsc(i)'
  BY <1>2, <1>4, LoadedDscs
<1>6. \A n \in AllNames : names[n] # 0 => names[n] \in RegisteredOnLoad(f) /\ n \notin TempNames
  BY <1>2 DEF Accepts
<1>7. NamesHoldIn(f)'
  <2> SUFFICES ASSUME ~Outdated(f) PROVE NamesHoldIn(f)'
    BY <1>1 DEF NamesHoldIn, Outdated
  <2>1. names = NamesIn(f.recorded)
    BY <1>2 DEF Readings
  <2>2. \A n \in AllNames : names[n] # 0 => names[n] \in 1 .. MaxId /\ HasDsc(names[n])' /\ n \notin TempNames
    BY <1>5, <1>6
  <2> QED
    BY <2>1, <2>2 DEF NamesHoldIn
<1>8. NamesHoldIn(file)'
  BY <1>1, <1>7 DEF NamesHoldIn, Outdated
<1> QED
  BY <1>3, <1>5, <1>6, <1>8 DEF NamesHold, FileOpens

LEMMA NamesHoldKept ==
  ASSUME NamesInv, StoreTypes, NamesHold, [NamesNext]_names_vars
  PROVE  NamesHold'
<1>0. persistent_ids \subseteq 1 .. MaxId
  BY DEF NamesInv, IdTypes
<1>1. ASSUME NEW d \in Dscs, NEW s \in Sets, NEW assign \in BOOLEAN, NEW id \in 0 .. MaxId,
             Add(d, s, id, assign)
      PROVE  NamesHold'
  <2>1. /\ ~InTree(d) /\ ~refused /\ GetsId(d, s, id, assign)
        /\ UNCHANGED <<id_by_name, keep, file, refused, left>>
    BY <1>1 DEF Add, Call
  <2> QED
    BY <1>0, <2>1, GetsIdKeepsDscs, NamesRemain
<1>2. ASSUME NEW d \in Dscs, AssignPersistentId(d)
      PROVE  NamesHold'
  <2>1. /\ InTree(d) /\ ~refused /\ GetsId(d, dscs[d].owner, dscs[d].id, TRUE)
        /\ UNCHANGED <<id_by_name, keep, file, refused>> /\ left \subseteq left'
    BY <1>2 DEF AssignPersistentId, Call
  <2>2. dscs[d].owner \in Sets
    BY <2>1 DEF NamesInv, IdTypes, InTree
  <2> QED
    BY <1>0, <2>1, <2>2, GetsIdKeepsDscs, NamesRemain
<1>3. CASE \E d \in Dscs : Erase(d)
  BY <1>3, EraseKeepsNames
<1>4. ASSUME NEW d \in Dscs, NEW s \in Sets, MoveOut(d, s)
      PROVE  NamesHold'
  <2>1. /\ InTree(d) /\ ~refused /\ GetsId(d, s, dscs[d].id, FALSE)
        /\ UNCHANGED <<id_by_name, keep, file, refused, left>>
    BY <1>4 DEF MoveOut, Call
  <2> QED
    BY <1>0, <2>1, GetsIdKeepsDscs, NamesRemain
<1>5. CASE \E d \in Dscs : Find(dscs[d].id)
  BY <1>0, <1>5, NamesRemain DEF Find, Call, HasDsc, Tree, InTree
<1>6. ASSUME NEW n \in AllNames, NEW id \in 1 .. MaxId, NEW override \in BOOLEAN,
             AddName(n, id, override)
      PROVE  NamesHold'
  <2>1. /\ id \in persistent_ids /\ ~refused /\ id_by_name' = [id_by_name EXCEPT ![n] = id]
        /\ UNCHANGED <<dscs, keep, file, refused, reused, left>>
    BY <1>6 DEF AddName, Call
  <2>2. \A i : HasDsc(i)' <=> HasDsc(i)
    BY <2>1 DEF HasDsc, Tree, InTree
  <2>3. HasDsc(id) \/ id \in left
    BY <2>1 DEF NamesInv, RegisteredIsRight
  <2>4. \A x \in AllNames : id_by_name'[x] = IF x = n THEN id ELSE id_by_name[x]
    BY <2>1 DEF StoreTypes
  <2>5. NamesHoldIn(file) => NamesHoldIn(file)'
    BY <2>1, <2>2 DEF NamesHoldIn
  <2> QED
    BY <2>1, <2>2, <2>3, <2>4, <2>5 DEF NamesHold, FileOpens
<1>7. ASSUME NEW n \in AllNames, DeleteName(n)
      PROVE  NamesHold'
  <2>1. /\ id_by_name' = [id_by_name EXCEPT ![n] = 0] /\ ~refused
        /\ UNCHANGED <<dscs, keep, file, refused, reused, left>>
    BY <1>7 DEF DeleteName
  <2>2. \A i : HasDsc(i)' <=> HasDsc(i)
    BY <2>1 DEF HasDsc, Tree, InTree
  <2>3. \A x \in AllNames : id_by_name'[x] = IF x = n THEN 0 ELSE id_by_name[x]
    BY <2>1 DEF StoreTypes
  <2>4. NamesHoldIn(file) => NamesHoldIn(file)'
    BY <2>1, <2>2 DEF NamesHoldIn
  <2> QED
    BY <2>1, <2>2, <2>3, <2>4 DEF NamesHold, FileOpens
<1>8. ASSUME NEW marks \in BOOLEAN, FullSync(marks)
      PROVE  NamesHold'
  <2>1. SyncFile(marks) /\ ~refused /\ UNCHANGED <<dscs, id_by_name, keep, refused, reused, left>>
    BY <1>8 DEF FullSync, SyncFile, memory
  <2>2. \A i : HasDsc(i)' <=> HasDsc(i)
    BY <2>1 DEF HasDsc, Tree, InTree
  <2>3. NamesHoldIn(file')
    BY <2>1, SyncedNames
  <2>4. NamesHoldIn(file)'
    BY <2>1, <2>2, <2>3 DEF NamesHoldIn
  <2> QED
    BY <2>1, <2>2, <2>4 DEF NamesHold, FileOpens
<1>9. ASSUME NEW marks \in BOOLEAN, NEW config \in Configs, Reopen(marks, config)
      PROVE  NamesHold'
  <2>1. SyncFile(marks) /\ (Opens(file') \/ Refuses(file'))
    BY <1>9 DEF Reopen
  <2>2. CASE Opens(file')
    BY <2>1, <2>2, OpenKeepsNames
  <2>3. CASE Refuses(file')
    BY <2>1, <2>3, RefusedOnlyThen DEF Refuses, NamesHold
  <2> QED
    BY <2>1, <2>2, <2>3
<1>10. CASE UNCHANGED names_vars
  <2>1. UNCHANGED <<dscs, id_by_name, keep, file, refused, reused, left>>
    BY <1>10 DEF names_vars
  <2> QED
    BY <2>1 DEF NamesHold, FileOpens, NamesHoldIn, HasDsc, Tree, InTree
<1> QED
  BY <1>1, <1>2, <1>3, <1>4, <1>5, <1>6, <1>7, <1>8, <1>9, <1>10 DEF NamesNext

-----------------------------------------------------------------------------
(***************************************************************************)
(* An id that the program gives was never given before: whatever was       *)
(* added, erased, moved or stored without an id, and in whatever sets, two *)
(* descriptors have the same id only if the user gave one of them an id    *)
(* that was registered, that add_s takes (id_manager.h,                    *)
(* request_persistent_id and request_temporal_id; descriptor_set.cpp,      *)
(* add_s).                                                                 *)
(***************************************************************************)
THEOREM UniqueIds == NamesSpec => []IdsAreUnique
<1>1. NamesInv => IdsAreUnique
  BY DEF NamesInv, TreeIsRight, IdsAreUnique, Given
<1> QED
  BY NamesInvInitially, NamesInvKept, <1>1, PTL DEF NamesSpec

\* What find gives of an id that was given once.
LEMMA FoundIsWithId ==
  ASSUME NamesInv, NEW id, id \notin reused
  PROVE  Found(id) = WithId(id) \/ (WithId(id) = {} /\ id \in left)
<1>1. \A e \in Cached(id) : id \in left \/ e \in WithId(id)
  BY DEF Cached, WithId, NamesInv, CacheIsRight
<1>2. \A d \in WithId(id) : id \notin left /\ WithId(id) = {d}
  BY DEF WithId, NamesInv, TreeIsRight
<1> QED
  BY <1>1, <1>2 DEF Found

(***************************************************************************)
(* find of an id that was given once gives who has it now (Index::find),   *)
(* although nothing is ever taken out of its cache; and it gives somebody  *)
(* for an id of nobody only if that was erased or got another id.          *)
(***************************************************************************)
THEOREM HonestFind == NamesSpec => []FindIsHonest
<1>1. NamesInv => FindIsHonest
  BY FoundIsWithId DEF FindIsHonest
<1> QED
  BY NamesInvInitially, NamesInvKept, <1>1, PTL DEF NamesSpec

(***************************************************************************)
(* Whatever the user does: what is in memory and what is stored is well    *)
(* formed, and a name is never that of a temporal id.                      *)
(***************************************************************************)
THEOREM NamesTypes == NamesSpec => []NamesTypeOK
<1>1. ASSUME NamesInv, StoreTypes PROVE NamesTypeOK
  <2>1. Given \subseteq Nat \ {0}
    BY <1>1, GivenIds DEF NamesInv
  <2>2. dsc_by_id_cache \subseteq [id : Nat \ {0}, dsc : Dscs \cup {Erased}]
    BY <1>1, <2>1 DEF NamesInv, CacheIsRight
  <2>3. next_temporal_id \in Nat \ 0 .. MaxId
    BY <1>1, NamesAssumption DEF NamesInv, IdTypes
  <2>4. reused \subseteq 1 .. MaxId /\ left \subseteq Nat \ {0}
    BY <1>1, <2>1 DEF NamesInv, HistoryTypes, IdTypes
  <2>5. id_by_name \in [AllNames -> 0 .. MaxId]
    <3>1. {0} \cup persistent_ids \subseteq 0 .. MaxId
      BY <1>1, NamesAssumption DEF NamesInv, IdTypes
    <3> QED
      BY <1>1, <3>1 DEF StoreTypes
  <2> QED
    BY <1>1, <2>2, <2>3, <2>4, <2>5 DEF NamesTypeOK, NamesInv, IdTypes, StoreTypes
<1> QED
  BY NamesInvInitially, NamesInvKept, StoreTypesInitially, StoreTypesKept, <1>1, PTL DEF NamesSpec

(***************************************************************************)
(* Whether or not each session keeps the index updated, the next open      *)
(* refuses a file that was closed only for one of three reasons: the names *)
(* stored have changed and the record of their descriptor was not written  *)
(* (IDMappingDescriptor::store does not notify), the user gave a           *)
(* registered id again, or a name is left of an id whose descriptor was    *)
(* erased (Index::init_index refuses it, erase and store do not look).     *)
(***************************************************************************)
THEOREM FilesOpen == NamesSpec => []FileOpens
<1>1. NamesInv /\ StoreTypes /\ NamesHold /\ [NamesNext]_names_vars => NamesHold'
  BY NamesHoldKept
<1>2. NamesHold => FileOpens
  BY DEF NamesHold
<1> QED
  BY NamesInvInitially, NamesInvKept, StoreTypesInitially, StoreTypesKept, NamesHoldInitially,
     <1>1, <1>2, PTL DEF NamesSpec

(***************************************************************************)
(* If the close left a record of the names it stored, a name of an id that *)
(* was given once reaches after the reopen the same descriptor as before,  *)
(* whatever was found, moved or renamed until then, and there are no other *)
(* names: the temporal ones are gone.                                      *)
(***************************************************************************)
THEOREM NamesAreNotLost == NamesSpec => NamesSurvive
<1>1. ASSUME NamesInv, StoreTypes, NEW marks \in BOOLEAN, NEW config \in BOOLEAN,
             Reopen(marks, config), keep, ~refused', ~Outdated(file)',
             NEW n \in AllNames, id_by_name[n] \notin reused
      PROVE  Reached(n)' = IF n \in TempNames THEN {} ELSE Reached(n)
  <2>1. PICK f : f = file'
    OBVIOUS
  <2>2. SyncFile(marks) /\ Opens(f) /\ ~Outdated(f)
    BY <1>1, <2>1 DEF Reopen, Refuses, Outdated
  <2>3. PICK names \in Readings(f), order \in Bijection(Unnumbered(f), 1 .. Cardinality(Unnumbered(f))) :
          Accepts(f, names) /\ Load(f, names, order)
    BY <2>2 DEF Opens
  <2>4. /\ f.dscs = StoredIds
        /\ f.dscs \in [Dscs -> [owner : Sets \cup {NoSet}, id : 0 .. MaxId]]
        /\ f.recorded = MapContent(id_by_name)
    BY <1>1, <2>1, <2>2, SyncedTypes
  <2>5. names = [x \in AllNames |-> IF IsStored(id_by_name, x) THEN id_by_name[x] ELSE 0]
    BY <2>2, <2>3, <2>4, NamesOfContent DEF Readings
  <2>6. id_by_name' = names /\ dsc_by_id_cache' = {}
    BY <2>3 DEF Load
  <2>7. id_by_name'[n] = IF IsStored(id_by_name, n) THEN id_by_name[n] ELSE 0
    BY <2>5, <2>6
  <2>8. CASE ~ IsStored(id_by_name, n)
    <3>1. Reached(n)' = {}
      BY <2>7, <2>8 DEF Reached
    <3>2. n \notin TempNames => Reached(n) = {}
      BY <2>8 DEF Reached, IsStored
    <3> QED
      BY <3>1, <3>2
  <2>9. CASE IsStored(id_by_name, n)
    <3> DEFINE id == id_by_name[n]
    <3>1. id # 0 /\ n \notin TempNames /\ names[n] = id
      BY <2>5, <2>9 DEF IsStored
    <3>2. id \in 1 .. MaxId /\ id \in RegisteredOnLoad(f)
      BY <1>1, <2>3, <3>1 DEF StoreTypes, NamesInv, IdTypes, Accepts
    <3>3. WithId(id) # {}
      <4>1. HasDsc(id)
        BY <1>1, <2>4, <3>2, StoredDscs
      <4> QED
        BY <4>1 DEF HasDsc, WithId
    <3>4. Reached(n) = WithId(id)
      BY <1>1, <3>1, <3>3, FoundIsWithId DEF Reached
    <3>5. id_by_name'[n] = id
      BY <2>7, <2>9
    <3> HIDE DEF id
    <3>6. Reached(n)' = {d \in Tree' : dscs'[d].id = id}
      BY <3>1, <3>5, <2>6 DEF Reached, Found, Cached, WithId
    <3>7. /\ StoredTree(f) = Tree
          /\ \A d \in Tree : f.dscs[d].id = id <=> dscs[d].id = id
      <4>1. is_persistent(id) /\ id # 0
        BY <3>1, <3>2 DEF is_persistent
      <4> QED
        BY <1>1, <2>4, <4>1, StoredDscs
    <3>8. /\ \A d \in Dscs : InTree(d)' <=> d \in Tree
          /\ \A d \in Tree : dscs'[d].id = id <=> f.dscs[d].id = id
      BY <2>3, <2>4, <3>2, <3>7, LoadedDscs
    <3>9. Tree' = Tree
      BY <3>8 DEF Tree
    <3>10. Reached(n)' = WithId(id)
      BY <3>6, <3>7, <3>8, <3>9 DEF WithId
    <3> QED
      BY <3>1, <3>4, <3>10
  <2> QED
    BY <2>8, <2>9
<1>2. NamesInv /\ StoreTypes /\ [NamesNext]_names_vars =>
        [\A marks, config \in BOOLEAN :
           Reopen(marks, config) /\ keep /\ ~refused' /\ ~Outdated(file)' =>
             \A n \in AllNames : id_by_name[n] \notin reused =>
               Reached(n)' = IF n \in TempNames THEN {} ELSE Reached(n)]_names_vars
  BY <1>1
<1> QED
  BY NamesInvInitially, NamesInvKept, StoreTypesInitially, StoreTypesKept,
     <1>2, PTL DEF NamesSpec, NamesSurvive
===============================================================================
