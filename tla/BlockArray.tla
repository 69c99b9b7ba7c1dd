----------------------------- MODULE BlockArray -----------------------------
(***************************************************************************)
(* xoz/blk/block_array: the part of a block array that every backend       *)
(* shares. An array has the blocks begin_blk_nr .. past_end - 1; blocks    *)
(* past its end may still exist in the backend, up to real_past_end: the   *)
(* slack that an over-allocating grow or a lazy shrink leaves.             *)
(*                                                                         *)
(* Each operator takes the pointers `a` before a call and returns the      *)
(* pointers after it; real_cnt is what the backend reported, the result    *)
(* of impl_grow_by_blocks, impl_shrink_by_blocks or impl_release_blocks.   *)
(***************************************************************************)
EXTENDS Extent

CONSTANTS
  BeginBlkNr,       (* begin_blk_nr: the blocks before it are the header.  *)
  BlkNrExhaust      (* BLK_NR_EXHAUST: an array never gets that far.       *)

ASSUME BlockArrayAssumption ==
  /\ BeginBlkNr \in BlkNrs
  /\ BlkNrExhaust \in BlkNrs
  /\ BeginBlkNr < BlkNrExhaust

\* An array just initialized has no slack.
NewArray(past_end) == [past_end |-> past_end, real_past_end |-> past_end]

Arrays == [past_end : BeginBlkNr .. BlkNrExhaust - 1, real_past_end : BeginBlkNr .. BlkNrExhaust - 1]

BlkCntOf(a) == a.past_end - BeginBlkNr
Slack(a) == a.real_past_end - a.past_end
BlksOfArray(a) == BeginBlkNr .. a.past_end - 1

\* capacity() - blk_cnt() is the slack, and it is never negative.
PointersOrdered(a) == BeginBlkNr <= a.past_end /\ a.past_end <= a.real_past_end

InsideArray(a, e) == e.blk_nr >= BeginBlkNr /\ PastEndBlkNr(e) <= a.past_end

\* Mutant of Exhausts: the limit is off by one.
ExhaustsLate(a, cnt) == a.real_past_end + cnt - Slack(a) > BlkNrExhaust

(***************************************************************************)
(* grow_by_blocks(cnt) first takes the slack. If it is not enough it asks  *)
(* the backend for the rest, unless that would exhaust the block numbers.  *)
(***************************************************************************)
FitsInSlack(a, cnt) == Slack(a) >= cnt
Request(a, cnt) == cnt - Slack(a)
Exhausts(a, cnt) == a.real_past_end + Request(a, cnt) >= BlkNrExhaust

GrownInSlack(a, cnt) == [a EXCEPT !.past_end = @ + cnt]

Grown(a, cnt, real_cnt) ==
  [past_end |-> a.past_end + cnt, real_past_end |-> a.real_past_end + real_cnt]

Shrunk(a, cnt, real_cnt) ==
  [past_end |-> a.past_end - cnt, real_past_end |-> a.real_past_end - real_cnt]

Released(a, real_cnt) == [a EXCEPT !.real_past_end = @ - real_cnt]
=============================================================================
