-------------------------- MODULE SegmentBlockArray --------------------------
(***************************************************************************)
(* xoz/blk/segment_block_array, with the IOSegment it reads and writes by: *)
(* a block array (fg, the stream of a descriptor set) whose blocks are     *)
(* pieces of a segment of another block array (bg, the file), that grows   *)
(* by allocating more extents for the segment and shrinks by giving the    *)
(* last ones back.                                                         *)
(*                                                                         *)
(* Sizes are counted in fg blocks. MaxBlkCnt and SubblkCntPerBlk are those *)
(* of bg; the pointers of BlockArray are those of fg, from BeginBlkNr = 0. *)
(* The allocator of bg (SegmentAllocator) is seen here as choosing any     *)
(* free extents of the right sizes, and whoever gets what is given back    *)
(* writes on it at once.                                                   *)
(***************************************************************************)
EXTENDS BlockArray, SegmentRecord, SequencesExt

CONSTANTS
  BgBlkCnt,      (* The blocks of bg.                                      *)
  FgPerSubblk,   (* The fg blocks in a subblock of bg.                     *)
  Others,        (* What other users may have of bg: sets of <<block, bit>>. *)
  FragThreshold, (* The most extents an alloc divides its blocks in.       *)
  Cnts,          (* The blocks of a grow or of a shrink.                   *)
  Data,          (* What the user writes in a block.                       *)
  MaxExtCnt,     (* No grow makes a segment of more extents.               *)
  MaxWritten     (* At most so many blocks have what the user wrote.       *)

ASSUME SegmentBlockArrayAssumption ==
  /\ BgBlkCnt \in 1 .. MaxBlkNr + 1
  /\ FgPerSubblk \in Nat \ {0}
  /\ FragThreshold \in Nat \ {0}
  /\ BeginBlkNr = 0
  /\ MaxExtCnt \in Nat \ {0}
  /\ MaxWritten \in Nat
  /\ Cnts \subseteq 1 .. BlkNrExhaust
  /\ Others \subseteq SUBSET ((0 .. BgBlkCnt - 1) \X Subblks)

VARIABLES
  arr,      (* The pointers of the fg array.                               *)
  segm,     (* The extents of its segment.                                 *)
  data,     (* What bg has at each place, of the size of a fg block.       *)
  others,   (* The subblocks of bg that other users have.                  *)
  flags,    (* "realloc on grow", the default, or "extend".                *)
  mode      (* "open"; "broken" if a grow threw and the segment is short.  *)

vars == <<arr, segm, data, others, flags, mode>>

-----------------------------------------------------------------------------
(* Places and sizes *)

Junk == "junk"
Values == Data \cup {Junk}

FgPerBlk == SubblkCntPerBlk * FgPerSubblk
Places == 0 .. BgBlkCnt * FgPerBlk - 1

UnitsOf(e) ==
  (e.blk_nr .. PastEndBlkNr(e) - 1) \X (IF e.is_suballoc THEN e.blk_bitmap ELSE Subblks)
Units == (0 .. BgBlkCnt - 1) \X Subblks
UnitsOfAll(exts) == UNION {UnitsOf(e) : e \in Range(exts)}

SizeOf(e) == IF e.is_suballoc THEN SubblkCnt(e) * FgPerSubblk ELSE e.blk_cnt * FgPerBlk

SizeOfAll(exts) ==
  LET size[i \in 0 .. Len(exts)] == IF i = 0 THEN 0 ELSE size[i - 1] + SizeOf(exts[i])
  IN  size[Len(exts)]

\* The subblock of a bit: the most significant one is at the start of the block.
OffsetOfBit(i) == (SubblkCntPerBlk - 1 - i) * FgPerSubblk

FirstBits(bitmap, cnt) ==
  {i \in bitmap : Cardinality({j \in bitmap : j > i}) < cnt}

\* rw_suballocated_extent and rw_fully_allocated_extent: where in bg is the
\* fg block at offset k of an extent.
PlaceIn(e, k) ==
  IF ~ e.is_suballoc THEN e.blk_nr * FgPerBlk + k
  ELSE LET nth == k \div FgPerSubblk
           bit == CHOOSE i \in FirstBits(e.blk_bitmap, nth + 1) :
                    i \notin FirstBits(e.blk_bitmap, nth)
       IN  e.blk_nr * FgPerBlk + OffsetOfBit(bit) + (k % FgPerSubblk)

\* create_ext_index and abs_pos_to_ext: where is each fg block of a segment,
\* whose extents begin where the one before ends.
PlacesOfAll(exts) ==
  LET places[i \in 0 .. Len(exts)] ==
        IF i = 0 THEN << >>
        ELSE places[i - 1] \o [k \in 1 .. SizeOf(exts[i]) |-> PlaceIn(exts[i], k - 1)]
  IN  places[Len(exts)]

Read(d, exts) ==
  LET places == PlacesOfAll(exts) IN [i \in DOMAIN places |-> d[places[i]]]

\* d after what is in the places of `lost` is given to others.
Spoiled(d, lost) ==
  LET places == Range(PlacesOfAll(lost))
  IN  [p \in Places |-> IF p \in places THEN Junk ELSE d[p]]

-----------------------------------------------------------------------------
(* What the allocator of bg may give *)

\* alloc(n) without inline data: whole blocks, and subblocks in one block.
BlksFor(n) ==
  LET subblks == ((n % FgPerBlk) + FgPerSubblk - 1) \div FgPerSubblk
  IN  n \div FgPerBlk + (IF subblks = SubblkCntPerBlk THEN 1 ELSE 0)

SubblksFor(n) ==
  (((n % FgPerBlk) + FgPerSubblk - 1) \div FgPerSubblk) % SubblkCntPerBlk

BgExtents == {e \in FullExtents : PastEndBlkNr(e) <= BgBlkCnt}

Fragments ==
  {exts \in UNION {[1 .. k -> BgExtents] : k \in 0 .. FragThreshold} :
     \A i, j \in DOMAIN exts : i # j => BlksOf(exts[i]) \cap BlksOf(exts[j]) = {}}

FullAllocs(n, free) ==
  {exts \in Fragments : SizeOfAll(exts) = n * FgPerBlk /\ UnitsOfAll(exts) \subseteq free}

SubAllocs(n, free) ==
  IF n = 0 THEN {<< >>}
  ELSE {<<SubExtent(x[1], x[2])>> :
          x \in {y \in (0 .. BgBlkCnt - 1) \X Bitmaps :
                   Cardinality(y[2]) = n /\ {y[1]} \X y[2] \subseteq free}}

Allocs(n, free) ==
  UNION {{exts \o sub : sub \in SubAllocs(SubblksFor(n), free \ UnitsOfAll(exts))} :
           exts \in FullAllocs(BlksFor(n), free)}

-----------------------------------------------------------------------------
Init ==
  /\ arr = NewArray(0)
  /\ segm = << >>
  /\ data = [p \in Places |-> Junk]
  /\ others \in Others
  /\ flags \in {"realloc on grow", "extend"}
  /\ mode = "open"

GrowInSlack(cnt) ==
  /\ mode = "open"
  /\ FitsInSlack(arr, cnt)
  /\ arr' = GrownInSlack(arr, cnt)
  /\ UNCHANGED <<segm, data, others, flags, mode>>

\* realloc saves the last extent, if it is of subblocks, and gives it back
\* before it allocates the space for both.
LastIsRealloced == flags = "realloc on grow" /\ segm # << >> /\ Last(segm).is_suballoc
Kept == IF LastIsRealloced THEN Front(segm) ELSE segm
FreeToGrow == Units \ (others \cup UnitsOfAll(Kept))
SizeToAlloc(cnt) == Request(arr, cnt) + SizeOfAll(segm) - SizeOfAll(Kept)

\* The content of bg once the segment is exts: what was kept is where it was,
\* what was given back is written again after it.
RewrittenIn(exts) ==
  LET saved == Read(data, segm)
      places == PlacesOfAll(exts)
      d == Spoiled(data, SubSeq(segm, Len(Kept) + 1, Len(segm)))
      From(p) == {i \in DOMAIN saved : places[i] = p}
  IN  [p \in Places |-> IF From(p) # {} THEN saved[CHOOSE i \in From(p) : TRUE] ELSE d[p]]

\* Mutant of RealCnt: the array counts what it asked for only.
RealCntRequested(cnt, exts) == Request(arr, cnt)

\* What impl_grow_by_blocks returns: bg may give more than it is asked.
RealCnt(cnt, exts) == SizeOfAll(exts) - SizeOfAll(segm)

GrowInSegm(cnt) ==
  /\ mode = "open"
  /\ ~ FitsInSlack(arr, cnt)
  /\ ~ Exhausts(arr, cnt)
  /\ \E more \in Allocs(SizeToAlloc(cnt), FreeToGrow) :
       /\ Len(Kept \o more) <= MaxExtCnt
       /\ segm' = Kept \o more
       /\ data' = RewrittenIn(segm')
       /\ arr' = Grown(arr, cnt, RealCnt(cnt, segm'))
  /\ UNCHANGED <<others, flags, mode>>

\* bg has no space. realloc throws after it gave the last extent back, that
\* the array still counts; any other alloc that throws changes nothing.
GrowThrows(cnt) ==
  /\ mode = "open"
  /\ LastIsRealloced
  /\ ~ FitsInSlack(arr, cnt)
  /\ ~ Exhausts(arr, cnt)
  /\ Allocs(SizeToAlloc(cnt), FreeToGrow) = {}
  /\ segm' = Kept
  /\ data' = Spoiled(data, <<Last(segm)>>)
  /\ mode' = "broken"
  /\ UNCHANGED <<arr, others, flags>>

-----------------------------------------------------------------------------
(* _impl_shrink_by_blocks(cnt, release) *)

LastOnes(n) == SubSeq(segm, Len(segm) - n + 1, Len(segm))

\* The extents at the end that are given back whole, and what is left then.
PoppedCnt(sz) ==
  CHOOSE n \in 0 .. Len(segm) :
    /\ SizeOfAll(LastOnes(n)) <= sz
    /\ n < Len(segm) => SizeOfAll(LastOnes(n + 1)) > sz
Popped(sz) == SubSeq(segm, 1, Len(segm) - PoppedCnt(sz))

\* Mutant of Split: the subblocks kept are the last ones.
SplitLast(e, cnt) ==
  IF e.is_suballoc THEN [e EXCEPT !.blk_bitmap = @ \ FirstBits(@, Cardinality(@) - cnt)]
  ELSE [e EXCEPT !.blk_cnt = cnt]

\* Extent::split: the extent keeps its first cnt subblocks, or blocks.
Split(e, cnt) ==
  IF e.is_suballoc THEN [e EXCEPT !.blk_bitmap = FirstBits(@, cnt)]
  ELSE [e EXCEPT !.blk_cnt = cnt]

\* A release gives back a part of the last extent too, of whole subblocks of
\* an extent of subblocks or of whole blocks of one of blocks.
Cut(exts, sz) ==
  IF exts = << >> THEN exts
  ELSE LET e == Last(exts)
           cnt == IF e.is_suballoc THEN SubblkCnt(e) - sz \div FgPerSubblk
                  ELSE e.blk_cnt - sz \div FgPerBlk
       IN  Append(Front(exts), Split(e, cnt))

ShrunkSegm(sz, releases) ==
  IF releases THEN Cut(Popped(sz), sz - SizeOfAll(LastOnes(PoppedCnt(sz)))) ELSE Popped(sz)

ShrinksTo(exts) ==
  /\ segm' = exts
  /\ LET lost == Range(PlacesOfAll(segm)) \ Range(PlacesOfAll(exts))
     IN  data' = [p \in Places |-> IF p \in lost THEN Junk ELSE data[p]]
  /\ UNCHANGED <<others, flags, mode>>

\* The blocks of earlier shrinks that are still there, the slack, go too.
Shrink(cnt) ==
  /\ mode = "open"
  /\ cnt <= BlkCntOf(arr)
  /\ ShrinksTo(ShrunkSegm(cnt + Slack(arr), FALSE))
  /\ arr' = Shrunk(arr, cnt, SizeOfAll(segm) - SizeOfAll(segm'))

ReleaseSegm ==
  /\ mode = "open"
  /\ Slack(arr) > 0
  /\ ShrinksTo(ShrunkSegm(Slack(arr), TRUE))
  /\ arr' = Released(arr, SizeOfAll(segm) - SizeOfAll(segm'))

\* The segment as a descriptor stores it, after other words that are not read.
Stored(exts) == <<[csize |-> arr.past_end]>> \o SegmentWords([exts |-> exts, raw |-> << >>])

\* initialize_segment, of another object, with the segment read from its
\* record: the slack is now of the array.
Initialize ==
  /\ mode = "open"
  /\ segm' = ReadSegment(Stored(segm), 2).segm.exts
  /\ arr' = NewArray(SizeOfAll(segm'))
  /\ UNCHANGED <<data, others, flags, mode>>

\* impl_write of a block, through the IOSegment of the segment.
WriteBlk(b, v) ==
  /\ mode = "open"
  /\ b \in BlksOfArray(arr)
  /\ Cardinality({p \in Places : data[p] # Junk}) < MaxWritten
  /\ data' = [data EXCEPT ![PlacesOfAll(segm)[b + 1]] = v]
  /\ UNCHANGED <<arr, segm, others, flags, mode>>

Next ==
  \/ \E cnt \in Cnts :
       GrowInSlack(cnt) \/ GrowInSegm(cnt) \/ GrowThrows(cnt) \/ Shrink(cnt)
  \/ \E b \in 0 .. BlkNrExhaust, v \in Data : WriteBlk(b, v)
  \/ ReleaseSegm \/ Initialize

Spec == Init /\ [][Next]_vars

-----------------------------------------------------------------------------
(* Properties *)

\* The array counts exactly the space of its segment, the extents of the
\* segment are apart from each other and from those of others.
TypeOK ==
  /\ \A i \in DOMAIN segm : UnitsOf(segm[i]) \subseteq Units \ others /\ UnitsOf(segm[i]) # {}
  /\ Cardinality(UnitsOfAll(segm)) * FgPerSubblk = SizeOfAll(segm)
  /\ data \in [Places -> Values]
  /\ others \subseteq Units
  /\ flags \in {"realloc on grow", "extend"}
  /\ mode \in {"open", "broken"}
  /\ PointersOrdered(arr)
  /\ mode = "open" => arr.real_past_end = SizeOfAll(segm)

(***************************************************************************)
(* Wherever the segment is moved or cut, to its user it is a row of blocks *)
(* that keep what was written in them (see BlockSpace), until a grow       *)
(* throws.                                                                 *)
(***************************************************************************)
Content ==
  LET all == Read(data, segm) IN [b \in 0 .. arr.past_end - 1 |-> all[b + 1]]

(***************************************************************************)
(* Whatever extents a segment got, near or far from each other, before or  *)
(* after, and even in the same block, and however far they all are in the  *)
(* array, its record takes the words that its footprint says and is read   *)
(* as the same segment, up to its end.                                     *)
(***************************************************************************)
RecordIsTheSegment ==
  \A raw \in {<< >>, <<"x">>, <<"x", "y", "z">>}, far \in 0 .. BgBlkCnt :
    LET stored == [exts |-> [i \in DOMAIN segm |-> [segm[i] EXCEPT !.blk_nr = @ + far]],
                   raw |-> raw]
        words == SegmentWords(stored)
        read == ReadSegment(words \o words, 1)
    IN  /\ Len(words) = SegmentFootprint(stored)
        /\ read.segm = stored
        /\ read.at = Len(words) + 1

Space == INSTANCE BlockSpace WITH
  First <- 0,
  Limit <- BgBlkCnt * FgPerBlk,
  past_end <- arr.past_end,
  content <- Content

ImplementsBlockSpace ==
  Space!Init /\ [][mode' = "open" => UNCHANGED <<arr.past_end, Content>> \/ Space!Next]_vars
=============================================================================
