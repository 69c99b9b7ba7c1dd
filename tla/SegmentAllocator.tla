-------------------------- MODULE SegmentAllocator --------------------------
(***************************************************************************)
(* xoz/alloc/segment_allocator and tail_allocator: the allocator of the    *)
(* space of one block array. A segment is a sequence of extents and a few  *)
(* inline bytes; its whole blocks come from the free map, its subblocks    *)
(* from the subblock free map, that takes blocks from the free map, that   *)
(* takes them from the tail of the block array (a file, see                *)
(* FileBlockArray: it grows by what it is asked and shrinks only on        *)
(* release).                                                               *)
(*                                                                         *)
(* The loops of alloc are steps of their own: `call` is the stack frame of *)
(* the alloc in progress, be it called by the user or by realloc. What     *)
(* each of the two maps does in a step is in FreeMap and SubBlockFreeMap.  *)
(***************************************************************************)
EXTENDS FreeMap, SubBlockFreeMap, BlockArray, SequencesExt

CONSTANTS
  Slots,        (* The variables of the user that may hold a segment.      *)
  NoSegm,       (* What a variable without a segment holds.                *)
  BlkSz,        (* The bytes of a block.                                   *)
  Sizes,        (* The sizes, in bytes, the user asks for.                 *)
  Reqs,         (* The requirements (struct req_t) the user alloc's with.  *)
  MaxBlocked    (* The user blocks the allocator at most this many times.  *)

\* What the allocator gives out. An extent for suballocation has subblocks.
Extents ==
  FullExtents
    \cup [is_suballoc : {TRUE}, blk_nr : BlkNrs, blk_bitmap : Bitmaps \ {{}}]

Segms == [exts : Seq(Extents), inline_sz : 0 .. BlkSz]

ASSUME SegmentAllocatorAssumption ==
  /\ IsFiniteSet(Slots)
  /\ BlkSz \in Nat /\ BlkSz % SubblkCntPerBlk = 0 /\ BlkSz # 0
  /\ NoSegm \notin Segms \cup [units : SUBSET (BlkNrs \X Subblks), inline_sz : 0 .. BlkSz]
  /\ Sizes \subseteq Nat
  /\ Reqs \subseteq [segm_frag_threshold : Nat, max_inline_sz : Nat,
                     allow_suballoc : BOOLEAN, single_extent : BOOLEAN]
  /\ \A req \in Reqs :
       req.single_extent =>
         ~ req.allow_suballoc /\ req.segm_frag_threshold = 1 /\ req.max_inline_sz = 0
  /\ MaxBlocked \in Nat
  /\ BlkNrExhaust < MaxBlkNr

VARIABLES
  arr,       (* The pointers of the block array.                           *)
  maps,      (* [fr_map, subfr_map]                                        *)
  segms,     (* The segments of the user.                                  *)
  call,      (* The alloc in progress, if any.                             *)
  stats,     (* The in_use_* counters of space; not those of segments.     *)
  blocked,   (* ops_blocked_stack_cnt                                      *)
  leaked     (* Ghost: the extents taken by allocs that threw.             *)

vars == <<arr, maps, segms, call, stats, blocked, leaked>>

-----------------------------------------------------------------------------
(* Segments and their sizes *)

SubblkSz == BlkSz \div SubblkCntPerBlk
ExtSz(e) == IF e.is_suballoc THEN SubblkCnt(e) * SubblkSz ELSE e.blk_cnt * BlkSz

SumOf(nums) ==
  LET sum[n \in 0 .. Len(nums)] == IF n = 0 THEN 0 ELSE sum[n - 1] + nums[n]
  IN  sum[Len(nums)]

Total(Op(_), exts) == SumOf([i \in DOMAIN exts |-> Op(exts[i])])
ExtsSz(exts) == Total(ExtSz, exts)
FullBlkCnt(exts) == Total(LAMBDA e : IF e.is_suballoc THEN 0 ELSE e.blk_cnt, exts)
SubblkCntOf(exts) == Total(LAMBDA e : IF e.is_suballoc THEN SubblkCnt(e) ELSE 0, exts)

EmptySegm == [exts |-> << >>, inline_sz |-> 0]
SegmSz(s) == ExtsSz(s.exts) + s.inline_sz

(***************************************************************************)
(* How alloc(sz) divides a size: whole blocks, subblocks and inline bytes. *)
(* Bytes too many to be inline take a subblock, or a block, of their own,  *)
(* and subblocks enough for a block take a block.                          *)
(***************************************************************************)
Plan(sz, req) ==
  LET rest == sz % BlkSz
      bytes == IF req.allow_suballoc THEN rest % SubblkSz ELSE rest
      rounded_up == bytes > req.max_inline_sz
      subblks == IF req.allow_suballoc
                 THEN rest \div SubblkSz + (IF rounded_up THEN 1 ELSE 0) ELSE 0
      blks == sz \div BlkSz
                + (IF rounded_up /\ ~ req.allow_suballoc THEN 1 ELSE 0)
                + (IF subblks = SubblkCntPerBlk THEN 1 ELSE 0)
  IN  [blk_cnt |-> blks,
       subblk_cnt |-> IF subblks = SubblkCntPerBlk THEN 0 ELSE subblks,
       inline_sz |-> IF rounded_up THEN 0 ELSE bytes]

-----------------------------------------------------------------------------
(* The counters *)

NoStats ==
  [by_user_sz |-> 0, blk_cnt |-> 0, blk_for_suballoc_cnt |-> 0, subblk_cnt |-> 0,
   ext_cnt |-> 0, inlined_sz |-> 0]

\* The space of a segment is added (sign = 1) or subtracted (sign = -1).
CountSpace(st, exts, inline_sz, sign) ==
  [st EXCEPT !.by_user_sz = @ + sign * (ExtsSz(exts) + inline_sz),
             !.blk_cnt = @ + sign * FullBlkCnt(exts),
             !.subblk_cnt = @ + sign * SubblkCntOf(exts),
             !.ext_cnt = @ + sign * Len(exts),
             !.inlined_sz = @ + sign * inline_sz]

CountSuballocBlks(st, n) ==
  [st EXCEPT !.blk_for_suballoc_cnt = @ + n, !.blk_cnt = @ + n]

CountSegm(st, s, sign) == CountSpace(st, s.exts, s.inline_sz, sign)

-----------------------------------------------------------------------------
(* What dealloc and release do to the maps *)

\* Mutant of DeallocExt: all the block is given back for some of its subblocks.
DeallocExtWhole(m, e) ==
  IF e.is_suballoc
  THEN [m EXCEPT !.subfr_map = DeallocSub(@, e.blk_nr, Subblks)]
  ELSE [m EXCEPT !.fr_map = Dealloc(@, e)]

DeallocExt(m, e) ==
  IF e.is_suballoc
  THEN [m EXCEPT !.subfr_map = DeallocSub(@, e.blk_nr, e.blk_bitmap)]
  ELSE [m EXCEPT !.fr_map = Dealloc(@, e)]

\* reclaim_free_space_from_subfr_map: the blocks with no subblock in use go
\* back to the free map, in the order of their numbers.
Reclaimable(m) == FullyFreeBlks(m.subfr_map)

\* The free map with those of them that are below `end`.
WithReclaimed(m, end) ==
  LET below[b \in 0 .. end] ==
        IF b = 0 THEN m.fr_map
        ELSE IF b - 1 \in Reclaimable(m) THEN Dealloc(below[b - 1], FullExtent(b - 1, 1))
        ELSE below[b - 1]
  IN  below[end]

\* Mutant of Reclaimed: the subblock map keeps the blocks too.
ReclaimedTwice(m) == [m EXCEPT !.fr_map = WithReclaimed(m, MaxBlkNr + 1)]

Reclaimed(m) ==
  [fr_map |-> WithReclaimed(m, MaxBlkNr + 1),
   subfr_map |-> ReleaseSub(m.subfr_map, Reclaimable(m))]

\* dealloc(segm), on the maps and on the counters: the extents in their order.
DeallocExts(m, exts) ==
  LET after[n \in 0 .. Len(exts)] ==
        IF n = 0 THEN m ELSE DeallocExt(after[n - 1], exts[n])
  IN  after[Len(exts)]

\* Mutant of DeallocStats: the blocks that are reclaimed still count.
DeallocStatsOfSegm(st, m, s) == CountSegm(st, s, -1)

DeallocMaps(m, exts) == Reclaimed(DeallocExts(m, exts))
DeallocStats(st, m, s) ==
  CountSuballocBlks(CountSegm(st, s, -1), - Cardinality(Reclaimable(DeallocExts(m, s.exts))))

\* Mutant of TailChunks: only the last chunk is released.
TailChunksLast(m, a) == {b \in Chunks(m) : PastEndBlkNr(ChunkAt(m, b)) = a.past_end}

\* reclaim_free_space_from_fr_map: from the last free chunk down, those that
\* are at the end of the array leave the map and the array.
TailChunks(m, a) ==
  {b \in Chunks(m) : \A x \in b .. a.past_end - 1 : x \in FreeBlksOf(m)}

WithoutChunks(m, bs) ==
  [fr_by_nr |-> [b \in BlkNrs |-> IF b \in bs THEN 0 ELSE m.fr_by_nr[b]],
   fr_by_cnt |-> m.fr_by_cnt \ {<<m.fr_by_nr[b], b>> : b \in bs}]

TailSz(m, a) ==
  Cardinality({x \in FreeBlksOf(m) : \E b \in TailChunks(m, a) : b <= x})

\* tail.release and impl_release_blocks: no slack is left.
WithoutSlack(a) == Released(a, Slack(a))

-----------------------------------------------------------------------------

Init ==
  /\ arr = NewArray(BeginBlkNr)
  /\ maps = [fr_map |-> EmptyFreeMap, subfr_map |-> EmptySubFreeMap]
  /\ segms = [s \in Slots |-> NoSegm]
  /\ call = [pc |-> "idle"]
  /\ stats = NoStats
  /\ blocked = 0
  /\ leaked = {}

Idle == call.pc = "idle"
MayOperate == Idle /\ blocked = 0

\* The frame of alloc(sz, req), whose result is to be appended to kept. The
\* user called op for the slot, that held before, and wants so many bytes.
Frame(op, slot, kept, wanted, req) ==
  [pc |-> "no_grow", op |-> op, slot |-> slot, before |-> segms[slot], wanted |-> wanted,
   req |-> req, todo |-> Plan(wanted - SegmSz(kept), req),
   exts |-> << >>, probe |-> MaxBlkCnt, frag |-> 0]

CallAlloc(slot, sz, req) ==
  /\ MayOperate
  /\ segms[slot] = NoSegm
  /\ req.single_extent => sz # 0
  /\ call' = Frame("alloc", slot, EmptySegm, sz, req)
  /\ segms' = [segms EXCEPT ![slot] = EmptySegm]
  /\ UNCHANGED <<arr, maps, stats, blocked, leaked>>

DeallocSegm(slot) ==
  /\ MayOperate
  /\ segms[slot] # NoSegm
  /\ maps' = DeallocMaps(maps, segms[slot].exts)
  /\ stats' = DeallocStats(stats, maps, segms[slot])
  /\ segms' = [segms EXCEPT ![slot] = NoSegm]
  /\ UNCHANGED <<arr, call, blocked, leaked>>

(***************************************************************************)
(* realloc to a larger size: the inline bytes and a last extent for        *)
(* suballocation are given up, and alloc is called for what is missing.    *)
(***************************************************************************)
EndsSuballoced(s) == s.exts # << >> /\ Last(s.exts).is_suballoc
Kept(s) == [exts |-> IF EndsSuballoced(s) THEN Front(s.exts) ELSE s.exts, inline_sz |-> 0]

ReallocExpands(slot, sz, req) ==
  LET s == segms[slot]
      kept == Kept(s)
      dropped == [exts |-> SubSeq(s.exts, Len(kept.exts) + 1, Len(s.exts)), inline_sz |-> 0]
      no_inline == CountSpace(stats, << >>, s.inline_sz, -1)
  IN  /\ MayOperate
      /\ s # NoSegm
      /\ SegmSz(s) < sz
      /\ segms' = [segms EXCEPT ![slot] = kept]
      /\ call' = Frame("expand", slot, kept, sz, req)
      /\ IF EndsSuballoced(s)
         THEN /\ maps' = DeallocMaps(maps, dropped.exts)
              /\ stats' = DeallocStats(no_inline, maps, dropped)
         ELSE /\ stats' = no_inline
              /\ UNCHANGED maps
      /\ UNCHANGED <<arr, blocked, leaked>>

\* realloc to a smaller size that only cuts inline bytes.
ReallocCutsInline(slot, sz) ==
  LET s == segms[slot]
      cut == SegmSz(s) - sz
  IN  /\ MayOperate
      /\ s # NoSegm
      /\ cut > 0
      /\ cut <= s.inline_sz
      /\ segms' = [segms EXCEPT ![slot].inline_sz = @ - cut]
      /\ stats' = CountSpace(stats, << >>, cut, -1)
      /\ UNCHANGED <<arr, maps, call, blocked, leaked>>

(***************************************************************************)
(* realloc to a smaller size: the extents that do not fit in sz, from the  *)
(* last one on, are deallocated; if some bytes of the first one of them    *)
(* are still needed, alloc is called for those bytes.                      *)
(***************************************************************************)
ReallocShrinks(slot, sz, req) ==
  LET s == segms[slot]
      fits == {n \in 0 .. Len(s.exts) : ExtsSz(SubSeq(s.exts, 1, n)) <= sz}
      cnt == CHOOSE n \in fits : \A k \in fits : k <= n
      kept == [exts |-> SubSeq(s.exts, 1, cnt), inline_sz |-> 0]
      to_free == [exts |-> Reverse(SubSeq(s.exts, cnt + 1, Len(s.exts))), inline_sz |-> 0]
  IN  /\ MayOperate
      /\ s # NoSegm
      /\ SegmSz(s) - sz > s.inline_sz
      /\ segms' = [segms EXCEPT ![slot] = kept]
      /\ maps' = DeallocMaps(maps, to_free.exts)
      /\ stats' = DeallocStats(CountSpace(stats, << >>, s.inline_sz, -1), maps, to_free)
      /\ IF SegmSz(kept) = sz THEN UNCHANGED call
         ELSE call' = Frame("shrink", slot, kept, sz, req)
      /\ UNCHANGED <<arr, blocked, leaked>>

-----------------------------------------------------------------------------
(* alloc: allocate_extents, first from the free map only *)

Probe == IF call.probe < call.todo.blk_cnt THEN call.probe ELSE call.todo.blk_cnt

Threshold == call.req.segm_frag_threshold

\* Mutant of MayNotGrow: the threshold is off by one.
MayNotGrowTooLate ==
  /\ call.pc = "no_grow"
  /\ call.todo.blk_cnt > 0
  /\ ~ call.req.single_extent
  /\ call.frag <= Threshold

MayNotGrow ==
  /\ call.pc = "no_grow"
  /\ call.todo.blk_cnt > 0
  /\ ~ call.req.single_extent
  /\ call.frag < Threshold

\* The chunk p gives Probe blocks to the segment.
TakesFrom(p) ==
  /\ maps' = [maps EXCEPT !.fr_map = AllocFrom(@, p, Probe)]
  /\ call' = [call EXCEPT !.exts = Append(@, FullExtent(p[2], Probe)),
                          !.todo.blk_cnt = @ - Probe,
                          !.probe = Probe,
                          !.frag = @ + 1]
  /\ UNCHANGED <<arr, segms, stats, blocked, leaked>>

TakesFree ==
  /\ MayNotGrow
  /\ \E p \in Usable(maps.fr_map, Probe) : TakesFrom(p)

\* The next probe is the count that the failed alloc hints at.
ProbesLess ==
  LET closest == ClosestBlkCnt(maps.fr_map, Probe)
  IN  /\ MayNotGrow
      /\ Usable(maps.fr_map, Probe) = {}
      /\ closest # 0
      /\ call' = [call EXCEPT !.probe = closest, !.frag = @ + 1]
      /\ UNCHANGED <<arr, maps, segms, stats, blocked, leaked>>

\* The fragmentation already counted is the one of the extents got so far.
FreeExhausted ==
  /\ call.pc = "no_grow"
  /\ MayNotGrow => /\ Usable(maps.fr_map, Probe) = {}
                   /\ ClosestBlkCnt(maps.fr_map, Probe) = 0
  /\ call' = [call EXCEPT !.pc = "may_grow",
                          !.probe = MaxBlkCnt,
                          !.frag = IF Len(call.exts) <= 1 THEN 0 ELSE Len(call.exts) - 1]
  /\ UNCHANGED <<arr, maps, segms, stats, blocked, leaked>>

-----------------------------------------------------------------------------
(* alloc: allocate_extents, growing the block array if needed *)

\* Mutant of ExtendBy: nothing is added to a chunk that is large enough.
ExtendByMissing(cnt) ==
  LET last == {b \in Chunks(maps.fr_map) : PastEndBlkNr(ChunkAt(maps.fr_map, b)) = arr.past_end}
  IN  IF ~ CoalescingEnabled \/ last = {} THEN cnt
      ELSE LET extendable == maps.fr_map.fr_by_nr[CHOOSE b \in last : TRUE]
           IN  IF cnt <= extendable THEN 0 ELSE cnt - extendable

\* With coalescing, a free chunk at the end of the array is completed: one
\* block more at least, even if it already has enough.
ExtendBy(cnt) ==
  LET last == {b \in Chunks(maps.fr_map) : PastEndBlkNr(ChunkAt(maps.fr_map, b)) = arr.past_end}
  IN  IF ~ CoalescingEnabled \/ last = {} THEN cnt
      ELSE LET extendable == maps.fr_map.fr_by_nr[CHOOSE b \in last : TRUE]
           IN  IF cnt <= extendable THEN 1 ELSE cnt - extendable

TailExhausted(cnt) == ~ FitsInSlack(arr, cnt) /\ Exhausts(arr, cnt)

\* provide_more_space_to_fr_map(cnt), when the tail can grow.
ProvidesMore(cnt) ==
  LET n == ExtendBy(cnt)
  IN  /\ ~ TailExhausted(n)
      /\ arr' = IF FitsInSlack(arr, n) THEN GrownInSlack(arr, n)
                ELSE Grown(arr, n, Request(arr, n))
      /\ maps' = [maps EXCEPT !.fr_map = Dealloc(@, FullExtent(arr.past_end, n))]
      /\ UNCHANGED <<segms, call, stats, blocked, leaked>>

MayGrow ==
  /\ call.pc = "may_grow"
  /\ call.todo.blk_cnt > 0
  /\ call.req.single_extent => call.frag < Threshold

TakesOrGrows ==
  /\ MayGrow
  /\ \E p \in Usable(maps.fr_map, Probe) : TakesFrom(p)

GrowsForBlks ==
  /\ MayGrow
  /\ Usable(maps.fr_map, Probe) = {}
  /\ ProvidesMore(Probe)

BlksAllocated ==
  /\ call.pc = "may_grow"
  /\ call.todo.blk_cnt = 0
  /\ call' = [call EXCEPT !.pc = "subblks"]
  /\ UNCHANGED <<arr, maps, segms, stats, blocked, leaked>>

-----------------------------------------------------------------------------
(* alloc: allocate_subblk_extent *)

NeedsSubblks == call.pc = "subblks" /\ call.todo.subblk_cnt > 0

TakesSubblks ==
  /\ NeedsSubblks
  /\ \E x \in UsableBlk(maps.subfr_map, call.todo.subblk_cnt) :
       LET taken == TakenBits(x[2], call.todo.subblk_cnt)
       IN  /\ maps' = [maps EXCEPT !.subfr_map = AllocFromBlk(@, x, call.todo.subblk_cnt)]
           /\ call' = [call EXCEPT !.exts = Append(@, SubExtent(x[1], taken)),
                                   !.todo.subblk_cnt = 0]
  /\ UNCHANGED <<arr, segms, stats, blocked, leaked>>

\* provide_more_space_to_subfr_map: one block of the free map.
ProvidesSubblks ==
  /\ NeedsSubblks
  /\ UsableBlk(maps.subfr_map, call.todo.subblk_cnt) = {}
  /\ \E p \in Usable(maps.fr_map, 1) :
       maps' = [fr_map |-> AllocFrom(maps.fr_map, p, 1),
                subfr_map |-> ProvideSub(maps.subfr_map, p[2], Subblks)]
  /\ stats' = CountSuballocBlks(stats, 1)
  /\ UNCHANGED <<arr, segms, call, blocked, leaked>>

GrowsForSubblks ==
  /\ NeedsSubblks
  /\ UsableBlk(maps.subfr_map, call.todo.subblk_cnt) = {}
  /\ Usable(maps.fr_map, 1) = {}
  /\ ProvidesMore(1)

-----------------------------------------------------------------------------
(* alloc: the return and the throw *)

\* alloc returns; realloc appends the result to what it kept.
Returns ==
  LET got == [exts |-> call.exts, inline_sz |-> call.todo.inline_sz]
      kept == segms[call.slot]
      all == [exts |-> kept.exts \o got.exts, inline_sz |-> got.inline_sz]
  IN  /\ call.pc = "subblks"
      /\ call.todo.subblk_cnt = 0
      /\ segms' = [segms EXCEPT ![call.slot] = all]
      /\ stats' = CountSegm(stats, got, 1)
      /\ call' = [pc |-> "idle"]
      /\ UNCHANGED <<arr, maps, blocked, leaked>>

\* "no free space", or the block numbers are exhausted: the extents already
\* taken are not given back. realloc leaves the segment without what it gave
\* up, alloc leaves none.
Throws ==
  /\ \/ /\ MayGrow
        /\ Usable(maps.fr_map, Probe) = {}
        /\ TailExhausted(ExtendBy(Probe))
     \/ /\ call.pc = "may_grow"
        /\ call.todo.blk_cnt > 0
        /\ ~ MayGrow
     \/ /\ NeedsSubblks
        /\ UsableBlk(maps.subfr_map, call.todo.subblk_cnt) = {}
        /\ Usable(maps.fr_map, 1) = {}
        /\ TailExhausted(ExtendBy(1))
  /\ leaked' = leaked \cup Range(call.exts)
  /\ segms' = IF call.op = "alloc" THEN [segms EXCEPT ![call.slot] = NoSegm] ELSE segms
  /\ call' = [pc |-> "idle"]
  /\ UNCHANGED <<arr, maps, stats, blocked>>

-----------------------------------------------------------------------------
(* The other operations *)

\* release(): the free blocks at the end of the array leave it.
ReleaseSpace ==
  LET m == Reclaimed(maps)
  IN  /\ MayOperate
      /\ maps' = [m EXCEPT !.fr_map = WithoutChunks(@, TailChunks(m.fr_map, arr))]
      /\ arr' = WithoutSlack(Shrunk(arr, TailSz(m.fr_map, arr), 0))
      /\ stats' = CountSuballocBlks(stats, - Cardinality(Reclaimable(maps)))
      /\ UNCHANGED <<segms, call, blocked, leaked>>

\* reset(): everything is deallocated, whoever had it.
Reset ==
  /\ MayOperate
  /\ maps' = [fr_map |-> EmptyFreeMap, subfr_map |-> EmptySubFreeMap]
  /\ arr' = NewArray(BeginBlkNr)
  /\ segms' = [s \in Slots |-> NoSegm]
  /\ stats' = NoStats
  /\ leaked' = {}
  /\ UNCHANGED <<call, blocked>>

BlockOps == Idle /\ blocked < MaxBlocked /\ blocked' = blocked + 1
            /\ UNCHANGED <<arr, maps, segms, call, stats, leaked>>

UnblockOps == Idle /\ blocked > 0 /\ blocked' = blocked - 1
              /\ UNCHANGED <<arr, maps, segms, call, stats, leaked>>

(***************************************************************************)
(* The array is closed and reopened: initialize_from_allocated(segms) on a *)
(* new allocator. The gaps between the extents in use are free, in chunks  *)
(* of MaxBlkCnt blocks at most; so are the subblocks, of a block with some *)
(* in use, that are not in use.                                            *)
(***************************************************************************)
Live == {s \in Slots : segms[s] # NoSegm}
LiveExts == UNION {Range(segms[s].exts) : s \in Live}
UsedBlks == UNION {BlksOf(e) : e \in LiveExts}
SuballocBlks == {e.blk_nr : e \in {x \in LiveExts : x.is_suballoc}}
UsedSubblks(b) ==
  UNION {e.blk_bitmap : e \in {x \in LiveExts : x.is_suballoc /\ x.blk_nr = b}}

GapStart(b) == CHOOSE x \in BeginBlkNr .. b :
                 /\ x .. b \cap UsedBlks = {}
                 /\ x = BeginBlkNr \/ x - 1 \in UsedBlks

GapChunks ==
  [b \in BlkNrs |->
     IF b \in BlksOfArray(arr) \ UsedBlks /\ (b - GapStart(b)) % MaxBlkCnt = 0
     THEN Cardinality({x \in b .. b + MaxBlkCnt - 1 :
                         x < arr.past_end /\ b .. x \cap UsedBlks = {}})
     ELSE 0]

InitialFreeMap ==
  LET m == [fr_by_nr |-> GapChunks, fr_by_cnt |-> {}]
  IN  [m EXCEPT !.fr_by_cnt = {<<GapChunks[b], b>> : b \in Chunks(m)}]

InitialSubFreeMap ==
  LET free == [b \in BlkNrs |-> IF b \in SuballocBlks THEN Subblks \ UsedSubblks(b) ELSE {}]
      of_bin(i) == {b \in BlkNrs : free[b] # {} /\ BinOf(free[b]) = i}
  IN  [fr_by_nr |-> free, exts_bin |-> [i \in Bins |-> {<<b, free[b]>> : b \in of_bin(i)}]]

InitialStats ==
  LET counted(s, st) == CountSegm(st, segms[s], 1)
  IN  CountSuballocBlks(FoldSet(counted, NoStats, Live), Cardinality(SuballocBlks))

Reopen ==
  /\ Idle
  /\ arr' = NewArray(arr.past_end)
  /\ maps' = [fr_map |-> InitialFreeMap, subfr_map |-> InitialSubFreeMap]
  /\ stats' = InitialStats
  /\ blocked' = 0
  /\ leaked' = {}
  /\ UNCHANGED <<segms, call>>

-----------------------------------------------------------------------------

AllocStep ==
  \/ TakesFree \/ ProbesLess \/ FreeExhausted
  \/ TakesOrGrows \/ GrowsForBlks \/ BlksAllocated
  \/ TakesSubblks \/ ProvidesSubblks \/ GrowsForSubblks
  \/ Returns \/ Throws

UserCall ==
  \/ \E slot \in Slots :
       \/ DeallocSegm(slot)
       \/ \E sz \in Sizes :
            \/ ReallocCutsInline(slot, sz)
            \/ \E req \in Reqs :
                 \/ CallAlloc(slot, sz, req)
                 \/ ~ req.single_extent /\ ReallocExpands(slot, sz, req)
                 \/ ~ req.single_extent /\ ReallocShrinks(slot, sz, req)
  \/ ReleaseSpace \/ Reset \/ BlockOps \/ UnblockOps \/ Reopen

Next == UserCall \/ AllocStep

Spec == Init /\ [][Next]_vars

\* A call runs to its end: nothing else runs on its thread.
FairSpec == Spec /\ WF_vars(AllocStep)

-----------------------------------------------------------------------------
(* Properties *)

\* The type invariant.
TypeOK ==
  /\ arr \in Arrays
  /\ PointersOrdered(arr)
  /\ maps \in [fr_map : FreeMaps, subfr_map : SubFreeMaps]
  /\ segms \in [Slots -> Segms \cup {NoSegm}]
  /\ call.pc \in {"idle", "no_grow", "may_grow", "subblks"}
  /\ ~ Idle =>
       /\ call.op \in {"alloc", "expand", "shrink"}
       /\ call.slot \in Live
       /\ call.exts \in Seq(Extents)
       /\ call.probe \in BlkCnts \ {0}
  /\ blocked \in 0 .. MaxBlocked
  /\ leaked \subseteq Extents

(***************************************************************************)
(* The space of the array, in subblocks.                                   *)
(***************************************************************************)
UnitsOf(e) == BlksOf(e) \X (IF e.is_suballoc THEN e.blk_bitmap ELSE Subblks)
UnitsOfAll(exts) == UNION {UnitsOf(e) : e \in exts}

ArrayUnits == BlksOfArray(arr) \X Subblks
FreeBlkUnits == FreeBlksOf(maps.fr_map) \X Subblks
FreeSubUnits == UNION {{b} \X maps.subfr_map.fr_by_nr[b] : b \in BlkNrs}

\* Who holds an extent: a segment, at some place in it, the alloc in progress,
\* or nobody, after an alloc that threw.
InProgress == IF Idle THEN << >> ELSE call.exts
Held ==
  (UNION {{<<s, i, segms[s].exts[i]>> : i \in DOMAIN segms[s].exts} : s \in Live})
    \cup {<<"alloc", i, InProgress[i]>> : i \in DOMAIN InProgress}
    \cup {<<"nobody", 0, e>> : e \in leaked}

\* Every subblock of the array is free, in one of the maps, or is held, by one
\* holder and in one extent. Whatever alloc, dealloc, realloc, release and
\* reopen do, no space is given out twice, none disappears, none is beyond the
\* end of the array, and the two maps stay what FreeMap and SubBlockFreeMap
\* expect of them. Between calls, a block without a subblock in use is in the
\* free map.
SpaceIsPartitioned ==
  /\ IndexesAgreeIn(maps.fr_map) /\ ChunksDisjointIn(maps.fr_map)
  /\ BinsAgreeIn(maps.subfr_map)
  /\ ArrayUnits = UNION {FreeBlkUnits, FreeSubUnits, UnitsOfAll({h[3] : h \in Held})}
  /\ FreeBlkUnits \cap FreeSubUnits = {}
  /\ \A h \in Held :
       /\ UnitsOf(h[3]) \cap (FreeBlkUnits \cup FreeSubUnits) = {}
       /\ \A k \in Held : h # k => UnitsOf(h[3]) \cap UnitsOf(k[3]) = {}
  /\ Idle => Reclaimable(maps) = {}

\* segment_allocator.h:170-191: between calls the counters are those of the
\* live segments, also after a realloc that threw, and after a reopen.
AllSuballocBlks ==
  SuballocBlks \cup {b \in BlkNrs : InSubMap(maps.subfr_map, b)}
OfLive(Op(_)) == MapThenSumSet(LAMBDA s : Op(segms[s]), Live)

StatsAgree ==
  Idle =>
    /\ stats.by_user_sz = OfLive(SegmSz)
    /\ stats.blk_cnt = OfLive(LAMBDA s : FullBlkCnt(s.exts)) + Cardinality(AllSuballocBlks)
    /\ stats.blk_for_suballoc_cnt = Cardinality(AllSuballocBlks)
    /\ stats.subblk_cnt = OfLive(LAMBDA s : SubblkCntOf(s.exts))
    /\ stats.ext_cnt = OfLive(LAMBDA s : Len(s.exts))
    /\ stats.inlined_sz = OfLive(LAMBDA s : s.inline_sz)

FullExtCnt(exts) == Total(LAMBDA e : IF e.is_suballoc THEN 0 ELSE 1, exts)
CeilDiv(n, d) == (n + d - 1) \div d
SmallExts == IF Threshold = 0 THEN 0 ELSE Threshold - 1

(***************************************************************************)
(* An alloc or a realloc that returns gives the bytes it was asked for, no *)
(* more of them inline than allowed, in one extent if it must be single,   *)
(* and in few: the threshold is a suggestion (segment_allocator.h:20-27),  *)
(* but alloc exceeds it only because of the width of a count. The first    *)
(* probe it lowers uses up one, so at most threshold - 1 extents are       *)
(* smaller than they could be, and the rest is taken from the grown array. *)
(***************************************************************************)
RequirementsAreMet ==
  [][Returns =>
       LET segm == segms'[call.slot]
           blks == FullBlkCnt(call.exts)
       IN  /\ SegmSz(segm) >= call.wanted
           /\ segm.inline_sz <= call.req.max_inline_sz
           /\ call.req.single_extent => Len(call.exts) = 1
           /\ blks >= SmallExts =>
                FullExtCnt(call.exts) <= SmallExts + CeilDiv(blks - SmallExts, MaxBlkCnt)]_vars

\* After a release, the last block of the array is not free, and there is no
\* slack: the file is as short as it can be without moving data.
ReleaseIsThorough ==
  [][ReleaseSpace => /\ arr'.past_end - 1 \notin FreeBlksOf(maps'.fr_map)
                     /\ Slack(arr') = 0]_vars

\* Whatever the fragmentation of the free space and the width of a block
\* count, the loops of alloc end.
CallsEnd == ~ Idle ~> Idle

(***************************************************************************)
(* The allocator implements SpaceAllocator. The user sees a segment change *)
(* when its call returns or throws.                                        *)
(***************************************************************************)
Seen(slot) == IF ~ Idle /\ call.slot = slot THEN call.before ELSE segms[slot]

Space == INSTANCE SpaceAllocator WITH
  Units <- (BeginBlkNr .. BlkNrExhaust - 1) \X Subblks,
  UnitSz <- SubblkSz,
  MaxInline <- BlkSz,
  segms <- [s \in Slots |->
              IF Seen(s) = NoSegm THEN NoSegm
              ELSE [units |-> UnitsOfAll(Range(Seen(s).exts)), inline_sz |-> Seen(s).inline_sz]]

ImplementsSpaceAllocator == Space!Spec
=============================================================================
