------------------------- MODULE MCSubBlockFreeMap --------------------------
(* The subblock free map on a few blocks of a few subblocks.                *)
EXTENDS SubBlockFreeMapSpec
=============================================================================
