------------------------- MODULE MCSegmentBlockArray -------------------------
(* A stream in a segment of a few blocks of a few subblocks.                *)
EXTENDS SegmentBlockArray

\* Nothing, or a subblock of the block in the middle.
MCOthers == {{}, {<<1, 0>>}}
=============================================================================
