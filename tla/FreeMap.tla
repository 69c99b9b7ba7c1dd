------------------------------ MODULE FreeMap -------------------------------
(***************************************************************************)
(* xoz/alloc/free_map: the map of the free chunks of whole blocks.         *)
(*                                                                         *)
(* The code keeps every free chunk twice: in fr_by_nr, a map from the      *)
(* number of its first block to its block count, and in fr_by_cnt, a       *)
(* multimap from the count to the number. Here fr_by_nr is a total         *)
(* function in which 0 is "no chunk starts here" (a chunk of 0 blocks      *)
(* never exists) and fr_by_cnt a set of pairs <<blk_cnt, blk_nr>>: a pair  *)
(* held twice would need two chunks at the same block number, which the    *)
(* keys of fr_by_nr exclude. Chunks of one count are kept by the multimap  *)
(* in the order they were inserted; the model lets alloc take any of them. *)
(*                                                                         *)
(* Each operator takes the map `m` before a call and returns the map after *)
(* it, so that a module can chain several calls in one step.               *)
(***************************************************************************)
EXTENDS Extent

CONSTANTS
  CoalescingEnabled,    (* coalescing_enabled                              *)
  SplitAboveThreshold   (* split_above_threshold                           *)

ASSUME FreeMapAssumption ==
  /\ CoalescingEnabled \in BOOLEAN
  /\ SplitAboveThreshold \in BlkCnts

EmptyFreeMap == [fr_by_nr |-> [b \in BlkNrs |-> 0], fr_by_cnt |-> {}]

FreeMaps ==
  [fr_by_nr : [BlkNrs -> BlkCnts], fr_by_cnt : SUBSET ((BlkCnts \ {0}) \X BlkNrs)]

\* The block numbers at which a free chunk starts: the keys of fr_by_nr.
Chunks(m) == {b \in BlkNrs : m.fr_by_nr[b] # 0}
ChunkAt(m, b) == FullExtent(b, m.fr_by_nr[b])

\* The blocks of the free chunks.
FreeBlksOf(m) ==
  {x \in BlkNrs : \E b \in Chunks(m) : b <= x /\ x < b + m.fr_by_nr[b]}

(***************************************************************************)
(* What every free map must be: two indexes of the same chunks, and chunks *)
(* that neither overlap nor pass the last block.                           *)
(***************************************************************************)
IndexesAgreeIn(m) == m.fr_by_cnt = {<<m.fr_by_nr[b], b>> : b \in Chunks(m)}

ChunksDisjointIn(m) ==
  \A b \in Chunks(m) :
    /\ b + m.fr_by_nr[b] <= MaxBlkNr + 1
    /\ \A c \in Chunks(m) : b < c => b + m.fr_by_nr[b] <= c

-----------------------------------------------------------------------------
(* alloc *)

\* What fr_by_cnt.lower_bound(cnt) may point to.
LowerBound(m, cnt) ==
  {p \in m.fr_by_cnt :
     /\ p[1] >= cnt
     /\ \A q \in m.fr_by_cnt : q[1] >= cnt => p[1] <= q[1]}

\* Mutant of NextBlkCnt: the second lookup skips one count too many.
NextBlkCntTooLarge(cnt) == cnt + SplitAboveThreshold + 2

\* uint16_t arithmetic: it wraps around (once at most).
NextBlkCnt(cnt) ==
  LET sum == cnt + SplitAboveThreshold + 1
  IN  IF sum <= MaxBlkCnt THEN sum ELSE sum - (MaxBlkCnt + 1)

(***************************************************************************)
(* The chunks alloc(cnt) may be served from. A chunk that would leave a    *)
(* remainder of SplitAboveThreshold blocks or less is not split; a second  *)
(* lookup skips those, unless the count it looks for overflows.            *)
(***************************************************************************)
Usable(m, cnt) ==
  LET best == LowerBound(m, cnt)
  IN  IF \A p \in best : p[1] = cnt \/ p[1] - cnt > SplitAboveThreshold
      THEN best
      ELSE IF NextBlkCnt(cnt) <= cnt
           THEN {}
           ELSE LowerBound(m, NextBlkCnt(cnt))

\* The hint of a failed alloc: the count of the element that precedes the
\* lower bound of cnt (of the last element if there is no lower bound).
ClosestBlkCnt(m, cnt) ==
  LET below == {p[1] : p \in {q \in m.fr_by_cnt : q[1] < cnt}}
  IN  IF below = {} THEN 0 ELSE CHOOSE c \in below : \A d \in below : d <= c

\* Mutants of AllocFrom: a remainder of no blocks is kept as a chunk; the old
\* count stays in the multimap; the remainder starts where the chunk did.
AllocFromKeepsEmpty(m, p, cnt) ==
  [fr_by_nr |-> [m.fr_by_nr EXCEPT ![p[2]] = 0],
   fr_by_cnt |-> (m.fr_by_cnt \ {p}) \cup {<<p[1] - cnt, p[2] + cnt>>}]

AllocFromKeepsCount(m, p, cnt) ==
  LET remain == p[1] - cnt
  IN  [fr_by_nr |-> [b \in BlkNrs |-> IF b = p[2] THEN 0
                                     ELSE IF b = p[2] + cnt /\ remain # 0 THEN remain
                                     ELSE m.fr_by_nr[b]],
       fr_by_cnt |-> IF remain = 0 THEN m.fr_by_cnt \ {p}
                     ELSE m.fr_by_cnt \cup {<<remain, p[2] + cnt>>}]

AllocFromEnd(m, p, cnt) ==
  [fr_by_nr |-> [m.fr_by_nr EXCEPT ![p[2]] = p[1] - cnt],
   fr_by_cnt |-> (m.fr_by_cnt \ {p})
                   \cup (IF p[1] = cnt THEN {} ELSE {<<p[1] - cnt, p[2]>>})]

\* The first cnt blocks of the chunk p = <<blk_cnt, blk_nr>> are allocated:
\* a perfect match is removed, a larger chunk is split.
AllocFrom(m, p, cnt) ==
  LET remain == p[1] - cnt
      new_nr == p[2] + cnt
  IN  IF remain = 0
      THEN [fr_by_nr |-> [m.fr_by_nr EXCEPT ![p[2]] = 0],
            fr_by_cnt |-> m.fr_by_cnt \ {p}]
      ELSE [fr_by_nr |-> [m.fr_by_nr EXCEPT ![p[2]] = 0, ![new_nr] = remain],
            fr_by_cnt |-> (m.fr_by_cnt \ {p}) \cup {<<remain, new_nr>>}]

-----------------------------------------------------------------------------
(* dealloc, provide (which is dealloc) and release *)

\* Mutant of Neighbours: the chunk before the extent is not looked at.
NeighbourAfter(m, nr) ==
  {b \in Chunks(m) : b >= nr /\ \A c \in Chunks(m) : c >= nr => b <= c}

\* The two chunks fail_if_overlap looks at: lower_bound(nr) in fr_by_nr and
\* the element before it.
Neighbours(m, nr) ==
  {b \in Chunks(m) :
     \/ b >= nr /\ \A c \in Chunks(m) : c >= nr => b <= c
     \/ b < nr /\ \A c \in Chunks(m) : c < nr => c <= b}

AlreadyFreed(m, e) == \E b \in Neighbours(m, e.blk_nr) : Overlap(ChunkAt(m, b), e)

\* Mutant of NextMerged: the limit of a count is off by one.
NextMergedBelowLimit(m, e) ==
  {b \in Chunks(m) : /\ CoalescingEnabled
                     /\ b = PastEndBlkNr(e)
                     /\ m.fr_by_nr[b] + e.blk_cnt < MaxBlkCnt}

\* The chunk that starts where e ends, if dealloc merges it: upper_bound(nr)
\* in fr_by_nr, provided that the sum of the counts fits in a uint16_t.
NextMerged(m, e) ==
  {b \in Chunks(m) :
     /\ CoalescingEnabled
     /\ b > e.blk_nr
     /\ \A c \in Chunks(m) : c > e.blk_nr => b <= c
     /\ b = PastEndBlkNr(e)
     /\ m.fr_by_nr[b] + e.blk_cnt <= MaxBlkCnt}

\* The chunk that ends where e starts, if dealloc merges it: the element
\* before upper_bound(nr). Here e may already include the next chunk.
PrevMerged(m, e) ==
  {b \in Chunks(m) :
     /\ CoalescingEnabled
     /\ b <= e.blk_nr
     /\ \A c \in Chunks(m) : c <= e.blk_nr => c <= b
     /\ b + m.fr_by_nr[b] = e.blk_nr
     /\ m.fr_by_nr[b] + e.blk_cnt <= MaxBlkCnt}

WithNext(m, e) ==
  IF NextMerged(m, e) = {} THEN e
  ELSE FullExtent(e.blk_nr, e.blk_cnt + m.fr_by_nr[PastEndBlkNr(e)])

WithPrev(m, e) ==
  IF PrevMerged(m, e) = {} THEN e
  ELSE LET b == CHOOSE b \in PrevMerged(m, e) : TRUE
       IN  FullExtent(b, m.fr_by_nr[b] + e.blk_cnt)

Coalesced(m, e) == WithPrev(m, WithNext(m, e))

\* dealloc(e) once fail_if_overlap has let it through.
Dealloc(m, e) ==
  LET merged == NextMerged(m, e) \cup PrevMerged(m, WithNext(m, e))
      chunk == Coalesced(m, e)
  IN  [fr_by_nr |-> [b \in BlkNrs |->
                       IF b = chunk.blk_nr THEN chunk.blk_cnt
                       ELSE IF b \in merged THEN 0 ELSE m.fr_by_nr[b]],
       fr_by_cnt |-> (m.fr_by_cnt \ {<<m.fr_by_nr[b], b>> : b \in merged})
                       \cup {<<chunk.blk_cnt, chunk.blk_nr>>}]

\* release(e) throws "no such extent" unless e is exactly a free chunk.
IsChunk(m, e) == e.blk_nr \in Chunks(m) /\ m.fr_by_nr[e.blk_nr] = e.blk_cnt

Release(m, e) ==
  [fr_by_nr |-> [m.fr_by_nr EXCEPT ![e.blk_nr] = 0],
   fr_by_cnt |-> m.fr_by_cnt \ {<<e.blk_cnt, e.blk_nr>>}]
=============================================================================
