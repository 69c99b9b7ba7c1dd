---------------------------- MODULE SegmentRecord ----------------------------
(***************************************************************************)
(* xoz/segm: how a segment is stored, in words of 16 bits. An extent is    *)
(* stored by its distance to the previous one when it is near, by its      *)
(* number otherwise, and its count of blocks is in its first word when it  *)
(* is small. An inline extent, even if empty, ends the segment.            *)
(*                                                                         *)
(* A segment is [exts |-> its extents, raw |-> its inline bytes]. A word   *)
(* is a record with the fields the code packs in its bits, so a reader     *)
(* that takes a word for another finds no such field.                      *)
(***************************************************************************)
EXTENDS Extent, SequencesExt

CONSTANTS
  SmallCntMax,      (* EXT_SMALLCNT_MAX, 15 in the code.                   *)
  JmpOffsetMax,     (* The greatest distance of a near extent, 0x1ff.      *)
  LoBlkNrCnt        (* 2^16: a block number has a low and a high part.     *)

ASSUME SegmentRecordAssumption ==
  /\ SmallCntMax \in Nat
  /\ JmpOffsetMax \in Nat
  /\ LoBlkNrCnt \in Nat \ {0}

\* The one before the first extent.
NoExtent == FullExtent(0, 0)

-----------------------------------------------------------------------------
(* Extent::distance_in_blks *)

DistanceInBlks(ref, target) ==
  IF ref.blk_nr < target.blk_nr THEN target.blk_nr - PastEndBlkNr(ref)
  ELSE IF target.blk_nr < ref.blk_nr THEN ref.blk_nr - PastEndBlkNr(target)
  ELSE 0

IsBackwards(ref, target) == target.blk_nr < ref.blk_nr

\* Mutant of ForceFar: near, although a jump of 0 means "right after".
ForceFarNever(ref, target) == FALSE

\* Two extents of subblocks of the same block are never near.
ForceFar(ref, target) == ref.blk_nr = target.blk_nr /\ BlkSpan(ref) # 0

IsNear(ref, target) ==
  DistanceInBlks(ref, target) <= JmpOffsetMax /\ ~ ForceFar(ref, target)

-----------------------------------------------------------------------------
(* Segment::write_struct_into *)

SmallCnt(e) == IF ~ e.is_suballoc /\ e.blk_cnt <= SmallCntMax THEN e.blk_cnt ELSE 0

CntWords(e) ==
  IF e.is_suballoc THEN <<[blk_bitmap |-> e.blk_bitmap]>>
  ELSE IF SmallCnt(e) = 0 THEN <<[blk_cnt |-> e.blk_cnt]>>
  ELSE << >>

ExtentWords(prev, e) ==
  LET header == [is_inline |-> FALSE, is_suballoc |-> e.is_suballoc,
                 smallcnt |-> SmallCnt(e), is_near |-> IsNear(prev, e)]
      near == [jmp_offset |-> DistanceInBlks(prev, e),
               is_backward_dir |-> IsBackwards(prev, e)]
      far == [hi_blk_nr |-> e.blk_nr \div LoBlkNrCnt]
  IN  (IF IsNear(prev, e) THEN <<[hdr |-> header, nr |-> near]>>
       ELSE <<[hdr |-> header, nr |-> far], [lo_blk_nr |-> e.blk_nr % LoBlkNrCnt]>>)
      \o CntWords(e)

\* Inline bytes go in pairs; the last one, if odd, goes in the header.
InlineWords(raw) ==
  LET odd == IF Len(raw) % 2 = 1 THEN <<raw[Len(raw)]>> ELSE << >>
  IN  <<[hdr |-> [is_inline |-> TRUE, inline_sz |-> Len(raw)], last |-> odd]>>
      \o [k \in 1 .. Len(raw) \div 2 |-> [bytes |-> <<raw[2 * k - 1], raw[2 * k]>>]]

PrevOf(exts, k) == IF k = 1 THEN NoExtent ELSE exts[k - 1]

SegmentWords(segm) ==
  FlattenSeq([k \in 1 .. Len(segm.exts) |-> ExtentWords(PrevOf(segm.exts, k), segm.exts[k])])
  \o InlineWords(segm.raw)

-----------------------------------------------------------------------------
(* Segment::calc_struct_footprint_size, in words *)

ExtentFootprint(prev, e) ==
  1 + (IF IsNear(prev, e) THEN 0 ELSE 1)
    + (IF e.is_suballoc \/ e.blk_cnt > SmallCntMax \/ e.blk_cnt = 0 THEN 1 ELSE 0)

SegmentFootprint(segm) ==
  LET sum[k \in 0 .. Len(segm.exts)] ==
        IF k = 0 THEN 0 ELSE sum[k - 1] + ExtentFootprint(PrevOf(segm.exts, k), segm.exts[k])
  IN  sum[Len(segm.exts)] + 1 + (Len(segm.raw) \div 2)

-----------------------------------------------------------------------------
(* Segment::read_struct_from, from a place in a row of words *)

NearBlkNr(word, prev, span) ==
  IF word.nr.is_backward_dir THEN prev.blk_nr - word.nr.jmp_offset - span
  ELSE prev.blk_nr + word.nr.jmp_offset + BlkSpan(prev)

\* The extent whose first word is at `at`, after the extent prev.
ReadExtent(words, at, prev) ==
  LET word == words[at]
      hdr == word.hdr
      at_cnt == at + (IF hdr.is_near THEN 1 ELSE 2)
      cnt == IF hdr.smallcnt # 0 THEN hdr.smallcnt ELSE words[at_cnt].blk_cnt
      span == IF hdr.is_suballoc THEN 1 ELSE cnt
      nr == IF hdr.is_near THEN NearBlkNr(word, prev, span)
            ELSE word.nr.hi_blk_nr * LoBlkNrCnt + words[at + 1].lo_blk_nr
  IN  IF hdr.is_suballoc
      THEN [ext |-> SubExtent(nr, words[at_cnt].blk_bitmap), at |-> at_cnt + 1]
      ELSE [ext |-> FullExtent(nr, cnt), at |-> at_cnt + (IF hdr.smallcnt # 0 THEN 0 ELSE 1)]

ReadInline(words, at) ==
  LET pairs == words[at].hdr.inline_sz \div 2
      read == FlattenSeq([k \in 1 .. pairs |-> words[at + k].bytes])
  IN  [raw |-> read \o words[at].last, at |-> at + pairs + 1]

\* The segment at `at`, the place after it, and whether its end was found.
ReadSegment(words, at) ==
  LET read[k \in 0 .. Len(words)] ==
        IF k = 0 THEN [segm |-> [exts |-> << >>, raw |-> << >>], at |-> at, done |-> FALSE]
        ELSE LET was == read[k - 1]
             IN  IF was.done \/ was.at > Len(words) THEN was
                 ELSE IF words[was.at].hdr.is_inline
                 THEN LET inline == ReadInline(words, was.at)
                      IN  [was EXCEPT !.segm.raw = inline.raw, !.at = inline.at, !.done = TRUE]
                 ELSE LET e == ReadExtent(words, was.at, PrevOf(was.segm.exts, Len(was.segm.exts) + 1))
                      IN  [was EXCEPT !.segm.exts = Append(@, e.ext), !.at = e.at]
  IN  read[Len(words)]
=============================================================================
