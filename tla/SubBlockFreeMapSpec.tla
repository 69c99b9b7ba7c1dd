------------------------ MODULE SubBlockFreeMapSpec -------------------------
(***************************************************************************)
(* A subblock free map and its client, the segment allocator: it provides  *)
(* whole free blocks and, when a file is opened, the free part of blocks   *)
(* whose other subblocks were allocated before; it allocates and gives     *)
(* back subblocks, and takes away the blocks that became fully free.       *)
(***************************************************************************)
EXTENDS SubBlockFreeMap

CONSTANT CounterMod   (* The counters are modulo this: 2^64 in the code.   *)

ASSUME CounterAssumption == CounterMod \in Nat \ {0}

VARIABLES
  subfr_map,              (* The maps of the SubBlockFreeMap object.       *)
  owned_subblk_cnt,       (* Its two counters.                             *)
  allocated_subblk_cnt,
  in_use_subblks,         (* The subblocks the client holds, by block.     *)
  owned_blks,             (* The blocks that are for suballocation.        *)
  sub_result              (* What the last call returned.                  *)

sub_vars == <<subfr_map, owned_subblk_cnt, allocated_subblk_cnt,
              in_use_subblks, owned_blks, sub_result>>

FreeSubblks(nr) == subfr_map.fr_by_nr[nr]

\* Mutant of Counter: it has no width.
CounterUnbounded(n) == n

Counter(n) == n % CounterMod

NoResult == [call |-> "none"]

SubInit ==
  /\ subfr_map = EmptySubFreeMap
  /\ owned_subblk_cnt = 0
  /\ allocated_subblk_cnt = 0
  /\ in_use_subblks = [b \in BlkNrs |-> {}]
  /\ owned_blks = {}
  /\ sub_result = NoResult

-----------------------------------------------------------------------------

\* The subblocks that are not in `bitmap` were allocated in another session.
ProvideBlk(nr, bitmap) ==
  /\ nr \notin owned_blks
  /\ ~ InSubMap(subfr_map, nr)
  /\ subfr_map' = ProvideSub(subfr_map, nr, bitmap)
  /\ owned_subblk_cnt' = Counter(owned_subblk_cnt + Cardinality(bitmap))
  /\ in_use_subblks' = [in_use_subblks EXCEPT ![nr] = Subblks \ bitmap]
  /\ owned_blks' = owned_blks \cup {nr}
  /\ sub_result' = NoResult
  /\ UNCHANGED allocated_subblk_cnt

SubAllocSucceeds(cnt) ==
  \E x \in UsableBlk(subfr_map, cnt) :
    LET taken == TakenBits(x[2], cnt)
    IN  /\ subfr_map' = AllocFromBlk(subfr_map, x, cnt)
        /\ allocated_subblk_cnt' = Counter(allocated_subblk_cnt + Cardinality(taken))
        /\ in_use_subblks' = [in_use_subblks EXCEPT ![x[1]] = @ \cup taken]
        /\ sub_result' = [call |-> "alloc", cnt |-> cnt, ext |-> SubExtent(x[1], taken)]
        /\ UNCHANGED <<owned_subblk_cnt, owned_blks>>

SubAllocFails(cnt) ==
  /\ UsableBlk(subfr_map, cnt) = {}
  /\ sub_result' = [call |-> "alloc failed", cnt |-> cnt]
  /\ UNCHANGED <<subfr_map, owned_subblk_cnt, allocated_subblk_cnt, in_use_subblks, owned_blks>>

\* A legal dealloc, or a double free of some subblock.
SubMayBeDealloced(nr, bitmap) ==
  bitmap \subseteq in_use_subblks[nr] \/ bitmap \cap FreeSubblks(nr) # {}

\* The counter loses the subblocks that are free after the call.
SubDeallocAccepted(nr, bitmap) ==
  /\ SubMayBeDealloced(nr, bitmap)
  /\ ~ SubAlreadyFreed(subfr_map, nr, bitmap)
  /\ subfr_map' = DeallocSub(subfr_map, nr, bitmap)
  /\ allocated_subblk_cnt' =
       Counter(allocated_subblk_cnt - Cardinality(FreeSubblks(nr) \cup bitmap))
  /\ in_use_subblks' = [in_use_subblks EXCEPT ![nr] = @ \ bitmap]
  /\ sub_result' = [call |-> "dealloc", ext |-> SubExtent(nr, bitmap)]
  /\ UNCHANGED <<owned_subblk_cnt, owned_blks>>

SubDeallocThrows(nr, bitmap) ==
  /\ SubMayBeDealloced(nr, bitmap)
  /\ SubAlreadyFreed(subfr_map, nr, bitmap)
  /\ sub_result' = [call |-> "dealloc threw"]
  /\ UNCHANGED <<subfr_map, owned_subblk_cnt, allocated_subblk_cnt, in_use_subblks, owned_blks>>

\* What SegmentAllocator::reclaim_free_space_from_subfr_map releases.
ReleaseBlks ==
  /\ FullyFreeBlks(subfr_map) # {}
  /\ \A nr \in FullyFreeBlks(subfr_map) : Releasable(subfr_map, nr)
  /\ subfr_map' = ReleaseSub(subfr_map, FullyFreeBlks(subfr_map))
  /\ owned_subblk_cnt' =
       Counter(owned_subblk_cnt - SubblkCntPerBlk * Cardinality(FullyFreeBlks(subfr_map)))
  /\ owned_blks' = owned_blks \ FullyFreeBlks(subfr_map)
  /\ sub_result' = [call |-> "release"]
  /\ UNCHANGED <<allocated_subblk_cnt, in_use_subblks>>

SubReset ==
  /\ subfr_map' = EmptySubFreeMap
  /\ owned_subblk_cnt' = 0
  /\ allocated_subblk_cnt' = 0
  /\ in_use_subblks' = [b \in BlkNrs |-> {}]
  /\ owned_blks' = {}
  /\ sub_result' = NoResult

SubNext ==
  \/ \E nr \in BlkNrs, bitmap \in Bitmaps \ {{}} :
       \/ ProvideBlk(nr, bitmap)
       \/ SubDeallocAccepted(nr, bitmap)
       \/ SubDeallocThrows(nr, bitmap)
  \/ \E cnt \in 1 .. SubblkCntPerBlk : SubAllocSucceeds(cnt) \/ SubAllocFails(cnt)
  \/ ReleaseBlks
  \/ SubReset

SubSpec == SubInit /\ [][SubNext]_sub_vars

-----------------------------------------------------------------------------
(* Properties *)

SubExtents == {SubExtent(nr, bitmap) : nr \in BlkNrs, bitmap \in Bitmaps}

SubResults ==
  {NoResult, [call |-> "release"], [call |-> "dealloc threw"]}
    \cup [call : {"alloc"}, cnt : 1 .. SubblkCntPerBlk, ext : SubExtents]
    \cup [call : {"alloc failed"}, cnt : 1 .. SubblkCntPerBlk]
    \cup [call : {"dealloc"}, ext : SubExtents]

\* The type invariant of the map, its counters and the client's ghost state.
SubTypeOK ==
  /\ subfr_map \in SubFreeMaps
  /\ owned_subblk_cnt \in 0 .. CounterMod - 1
  /\ allocated_subblk_cnt \in 0 .. CounterMod - 1
  /\ in_use_subblks \in [BlkNrs -> Bitmaps]
  /\ owned_blks \subseteq BlkNrs
  /\ sub_result \in SubResults

\* The bins hold exactly the blocks of fr_by_nr, each in the bin of its number
\* of free subblocks: what count_entries_in_bins() asserts, and more (a block
\* left in a stale bin would be handed out beyond what it has free).
BinsAgree == BinsAgreeIn(subfr_map)

\* A subblock of a block for suballocation is either free or held by the
\* client, never both and never neither, through any number of calls and
\* of double frees; blocks that are fully allocated, which the map forgets, are no
\* exception.
SubblksConserved ==
  \A nr \in BlkNrs :
    /\ FreeSubblks(nr) \cap in_use_subblks[nr] = {}
    /\ FreeSubblks(nr) \cup in_use_subblks[nr] = IF nr \in owned_blks THEN Subblks ELSE {}
=============================================================================
