------------------------------- MODULE Extent -------------------------------
(***************************************************************************)
(* xoz/ext: an extent is a run of contiguous blocks or, for suballocation, *)
(* some of the subblocks of one single block.                              *)
(*                                                                         *)
(* The class packs both in the same two integers (blk_cnt and blk_bitmap   *)
(* alias one field, is_suballoc is the top bit of the other); here each    *)
(* kind is a record with the fields that kind may legally read.            *)
(***************************************************************************)
EXTENDS Integers, FiniteSets

CONSTANTS
  MaxBlkNr,         (* MAX_BLK_NR: the greatest block number.              *)
  MaxBlkCnt,        (* MAX_BLK_CNT: the greatest value of a block count, a *)
                    (* uint16_t in the code.                               *)
  SubblkCntPerBlk   (* SUBBLK_CNT_PER_BLK, 16 in the code.                 *)

ASSUME ExtentAssumption ==
  /\ MaxBlkNr \in Nat
  /\ MaxBlkCnt \in Nat \ {0}
  /\ SubblkCntPerBlk \in Nat \ {0}

BlkNrs == 0 .. MaxBlkNr
BlkCnts == 0 .. MaxBlkCnt

\* A bit of the 16-bits bitmap is a subblock; bit 0 is the least significant.
Subblks == 0 .. SubblkCntPerBlk - 1
Bitmaps == SUBSET Subblks

FullExtent(nr, cnt) == [is_suballoc |-> FALSE, blk_nr |-> nr, blk_cnt |-> cnt]
SubExtent(nr, bitmap) == [is_suballoc |-> TRUE, blk_nr |-> nr, blk_bitmap |-> bitmap]

\* The extents of whole blocks that lie inside the range of block numbers.
FullExtents ==
  {e \in [is_suballoc : {FALSE}, blk_nr : BlkNrs, blk_cnt : BlkCnts \ {0}] :
     e.blk_nr + e.blk_cnt <= MaxBlkNr + 1}

\* The blocks an extent names: an extent for suballocation names one.
BlkSpan(e) == IF e.is_suballoc THEN 1 ELSE e.blk_cnt
PastEndBlkNr(e) == e.blk_nr + BlkSpan(e)
BlksOf(e) == {b \in BlkNrs : e.blk_nr <= b /\ b < PastEndBlkNr(e)}

SubblkCnt(e) == Cardinality(e.blk_bitmap)

(***************************************************************************)
(* Extent::fail_if_overlap(ref, target): TRUE where the code throws. The   *)
(* last case is the one of two extents that start at the same block.       *)
(***************************************************************************)
Overlap(ref, target) ==
  \/ /\ ref.blk_nr < target.blk_nr
     /\ target.blk_nr - ref.blk_nr < BlkSpan(ref)
  \/ /\ target.blk_nr < ref.blk_nr
     /\ ref.blk_nr - target.blk_nr < BlkSpan(target)
  \/ /\ ref.blk_nr = target.blk_nr
     /\ BlkSpan(ref) # 0
     /\ ~ /\ ref.is_suballoc /\ target.is_suballoc
          /\ ref.blk_bitmap \cap target.blk_bitmap = {}
=============================================================================
