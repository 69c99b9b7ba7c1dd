----------------------------- MODULE MCFreeMap ------------------------------
(* The free map on a few blocks; the configurations choose how many, the    *)
(* width of a block count and the policy of the map.                        *)
EXTENDS FreeMapSpec
=============================================================================
