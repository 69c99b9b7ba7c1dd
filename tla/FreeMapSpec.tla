---------------------------- MODULE FreeMapSpec -----------------------------
(***************************************************************************)
(* A free map and its client. The client is whoever calls FreeMap in the   *)
(* code (the segment allocator): it provides blocks the map has never      *)
(* seen, it deallocates blocks it holds, whole extents or the parts it cut *)
(* off them with Extent::split, and it may by mistake deallocate blocks    *)
(* that are already free, which the map promises to detect.                *)
(***************************************************************************)
EXTENDS FreeMap

VARIABLES
  fr_map,   (* The state of the FreeMap object.                            *)
  in_use,   (* The blocks the client holds.                                *)
  owned,    (* The blocks given to the map and not taken back by release.  *)
  result    (* What the last call returned.                                *)

map_vars == <<fr_map, in_use, owned, result>>

FreeBlks == FreeBlksOf(fr_map)

Nothing == [call |-> "none"]

MapInit ==
  /\ fr_map = EmptyFreeMap
  /\ in_use = {}
  /\ owned = {}
  /\ result = Nothing

-----------------------------------------------------------------------------

Provide(e) ==
  /\ BlksOf(e) \cap owned = {}
  /\ ~ AlreadyFreed(fr_map, e)
  /\ fr_map' = Dealloc(fr_map, e)
  /\ owned' = owned \cup BlksOf(e)
  /\ result' = Nothing
  /\ UNCHANGED in_use

AllocSucceeds(cnt) ==
  \E p \in Usable(fr_map, cnt) :
    /\ fr_map' = AllocFrom(fr_map, p, cnt)
    /\ in_use' = in_use \cup BlksOf(FullExtent(p[2], cnt))
    /\ result' = [call |-> "alloc", cnt |-> cnt, ext |-> FullExtent(p[2], cnt)]
    /\ UNCHANGED owned

AllocFails(cnt) ==
  /\ Usable(fr_map, cnt) = {}
  /\ result' = [call |-> "alloc failed", cnt |-> cnt, closest |-> ClosestBlkCnt(fr_map, cnt)]
  /\ UNCHANGED <<fr_map, in_use, owned>>

\* A legal dealloc, or a double free: an extent that touches a free block.
MayBeDealloced(e) == BlksOf(e) \subseteq in_use \/ BlksOf(e) \cap FreeBlks # {}

DeallocAccepted(e) ==
  /\ MayBeDealloced(e)
  /\ ~ AlreadyFreed(fr_map, e)
  /\ fr_map' = Dealloc(fr_map, e)
  /\ in_use' = in_use \ BlksOf(e)
  /\ result' = [call |-> "dealloc", ext |-> e]
  /\ UNCHANGED owned

DeallocThrows(e) ==
  /\ MayBeDealloced(e)
  /\ AlreadyFreed(fr_map, e)
  /\ result' = [call |-> "dealloc threw", ext |-> e]
  /\ UNCHANGED <<fr_map, in_use, owned>>

ReleaseChunk(e) ==
  /\ IsChunk(fr_map, e)
  /\ fr_map' = Release(fr_map, e)
  /\ owned' = owned \ BlksOf(e)
  /\ result' = Nothing
  /\ UNCHANGED in_use

Reset ==
  /\ fr_map' = EmptyFreeMap
  /\ in_use' = {}
  /\ owned' = {}
  /\ result' = Nothing

MapNext ==
  \/ \E e \in FullExtents :
       \/ Provide(e)
       \/ DeallocAccepted(e)
       \/ DeallocThrows(e)
       \/ ReleaseChunk(e)
  \/ \E cnt \in BlkCnts \ {0} : AllocSucceeds(cnt) \/ AllocFails(cnt)
  \/ Reset

MapSpec == MapInit /\ [][MapNext]_map_vars

-----------------------------------------------------------------------------
(* Properties *)

Results ==
  {Nothing}
    \cup [call : {"alloc"}, cnt : BlkCnts, ext : FullExtents]
    \cup [call : {"alloc failed"}, cnt : BlkCnts, closest : BlkCnts]
    \cup [call : {"dealloc", "dealloc threw"}, ext : FullExtents]

\* The type invariant of the free map and of its client's ghost state.
MapTypeOK ==
  /\ fr_map \in FreeMaps
  /\ in_use \subseteq BlkNrs
  /\ owned \subseteq BlkNrs
  /\ result \in Results

\* fr_by_nr and fr_by_cnt are two indexes of the same chunks: every update of
\* free_map.cpp that touches one of them touches the other (the asserts on
\* their sizes are a shadow of this). No block belongs to two of the chunks and
\* none passes the last block.
IndexesAgree == IndexesAgreeIn(fr_map) /\ ChunksDisjointIn(fr_map)

\* A block given to the map is either free or held by the client, never both
\* and never neither: alloc, dealloc, coalescing and release lose no block and
\* hand none out twice, even if the client frees twice.
BlocksConserved ==
  /\ FreeBlks \cap in_use = {}
  /\ FreeBlks \cup in_use = owned

\* fail_if_overlap looks only at the two neighbours of the extent, yet it
\* throws for every double free, and for no legal dealloc: a call that threw
\* names a free block, and one that was accepted named none.
DoubleFreeDetected ==
  [][/\ result'.call = "dealloc" => BlksOf(result'.ext) \cap FreeBlks = {}
     /\ result'.call = "dealloc threw" => BlksOf(result'.ext) \cap FreeBlks # {}]_map_vars

\* free_map.h:41-52. A failed alloc means that no chunk fits without leaving
\* too small a remainder, at the end of the range of uint16_t too, and its
\* hint is smaller than the request and can be allocated: the loop of
\* SegmentAllocator::allocate_extents relies on both to terminate.
FailureIsJustified ==
  result.call = "alloc failed" =>
    /\ \A p \in fr_map.fr_by_cnt :
         p[1] # result.cnt /\ p[1] <= result.cnt + SplitAboveThreshold
    /\ result.closest < result.cnt
    /\ result.closest # 0 => \E p \in fr_map.fr_by_cnt : p[1] = result.closest
    /\ \A p \in fr_map.fr_by_cnt : p[1] < result.cnt => p[1] <= result.closest

\* With coalescing, two free chunks are never adjacent as long as no sum of
\* counts can overflow a uint16_t: no free space is hidden in fragments.
FullyCoalesced ==
  CoalescingEnabled /\ MaxBlkCnt > MaxBlkNr =>
    \A b \in Chunks(fr_map) : b + fr_map.fr_by_nr[b] \notin Chunks(fr_map)
=============================================================================
