------------------------- MODULE MCSegmentAllocator -------------------------
(* The allocator on a file of a few blocks of two subblocks of two bytes.   *)
EXTENDS SegmentAllocator

Req(threshold, inline, suballoc, single) ==
  [segm_frag_threshold |-> threshold, max_inline_sz |-> inline,
   allow_suballoc |-> suballoc, single_extent |-> single]

MCReqs == {Req(2, 1, TRUE, FALSE), Req(1, 0, TRUE, FALSE), Req(1, 0, FALSE, TRUE)}
=============================================================================
