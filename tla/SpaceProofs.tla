---------------------------- MODULE SpaceProofs -----------------------------
(***************************************************************************)
(* What is true of those who give space, for every value of the constants: *)
(* the free map (every number of blocks, width of a block count and        *)
(* policy), the subblock free map (every number of blocks and of subblocks *)
(* per block) and the block array in a file (every size of the blocks,     *)
(* every limit of their numbers and every content).                        *)
(*                                                                         *)
(* The lemmas of ExtentLemmas are about one call of a free map each, and   *)
(* hold of any well formed map; the theorems lift them to FreeMapSpec and  *)
(* SubBlockFreeMapSpec.                                                    *)
(***************************************************************************)
EXTENDS FreeMapSpec, SubBlockFreeMapSpec, FileBlockArray, ExtentLemmas

-----------------------------------------------------------------------------
(* The free map. BlocksConserved alone is not inductive: what a call does  *)
(* to the free blocks depends on the chunks being disjoint, and what alloc *)
(* finds in fr_by_cnt on the two indexes being the same.                   *)

MapIInv ==
  /\ WellFormed(fr_map)
  /\ in_use \subseteq BlkNrs
  /\ owned \subseteq BlkNrs
  /\ result \in Results
  /\ BlocksConserved

\* The constructor of FreeMap establishes the inductive invariant.
LEMMA MapInitIInv == MapInit => MapIInv
<1> SUFFICES ASSUME MapInit PROVE MapIInv
  OBVIOUS
<1>1. Chunks(EmptyFreeMap) = {}
  BY DEF EmptyFreeMap, Chunks
<1>2. EmptyFreeMap \in FreeMaps
  BY ExtentAssumption DEF EmptyFreeMap, FreeMaps, BlkCnts
<1>3. WellFormed(EmptyFreeMap) /\ FreeBlksOf(EmptyFreeMap) = {}
  BY <1>1, <1>2 DEF WellFormed, IndexesAgreeIn, ChunksDisjointIn, FreeBlksOf, EmptyFreeMap
<1> QED
  BY <1>3 DEF MapInit, MapIInv, BlocksConserved, FreeBlks, Results, Nothing

\* Every call to FreeMap preserves the inductive invariant.
LEMMA MapNextIInv == MapIInv /\ [MapNext]_map_vars => MapIInv'
<1> SUFFICES ASSUME MapIInv, [MapNext]_map_vars PROVE MapIInv'
  OBVIOUS
<1> USE DEF MapIInv, BlocksConserved, FreeBlks
<1>a. \A e \in FullExtents : BlksOf(e) \subseteq BlkNrs /\ BlksOf(e) # {}
  <2> TAKE e \in FullExtents
  <2>1. /\ e.blk_nr \in BlkNrs /\ e.blk_cnt \in BlkCnts /\ e.blk_cnt # 0
        /\ BlksOf(e) = {b \in BlkNrs : e.blk_nr <= b /\ b < e.blk_nr + e.blk_cnt}
    BY FullExtentFacts
  <2>2. e.blk_nr \in BlksOf(e)
    BY <2>1, ExtentAssumption DEF BlkNrs, BlkCnts
  <2> QED BY <2>1, <2>2
<1>b. FreeBlksOf(fr_map) \subseteq BlkNrs
  BY DEF FreeBlksOf
<1>1. ASSUME NEW e \in FullExtents, Provide(e) PROVE MapIInv'
  <2>1. /\ WellFormed(fr_map')
        /\ FreeBlksOf(fr_map') = FreeBlksOf(fr_map) \cup BlksOf(e)
    BY <1>1, DeallocCorrect DEF Provide
  <2> QED BY <1>1, <1>a, <2>1 DEF Provide, Results
<1>2. ASSUME NEW e \in FullExtents, DeallocAccepted(e) PROVE MapIInv'
  <2>1. BlksOf(e) \cap FreeBlksOf(fr_map) = {}
    BY <1>2, AlreadyFreedExact DEF DeallocAccepted
  <2>2. BlksOf(e) \subseteq in_use
    BY <1>2, <2>1 DEF DeallocAccepted, MayBeDealloced
  <2>3. /\ WellFormed(fr_map')
        /\ FreeBlksOf(fr_map') = FreeBlksOf(fr_map) \cup BlksOf(e)
    BY <1>2, DeallocCorrect DEF DeallocAccepted
  <2>4. result' \in Results
    BY <1>2 DEF DeallocAccepted, Results
  <2> QED BY <1>2, <2>2, <2>3, <2>4 DEF DeallocAccepted
<1>3. ASSUME NEW e \in FullExtents, DeallocThrows(e) PROVE MapIInv'
  BY <1>3 DEF DeallocThrows, Results
<1>4. ASSUME NEW e \in FullExtents, ReleaseChunk(e) PROVE MapIInv'
  <2>1. /\ WellFormed(fr_map')
        /\ BlksOf(e) \subseteq FreeBlksOf(fr_map)
        /\ FreeBlksOf(fr_map') = FreeBlksOf(fr_map) \ BlksOf(e)
    BY <1>4, ReleaseCorrect DEF ReleaseChunk
  <2> QED BY <1>4, <2>1 DEF ReleaseChunk, Results
<1>5. ASSUME NEW cnt \in BlkCnts \ {0}, AllocSucceeds(cnt) PROVE MapIInv'
  <2>1. PICK p \in Usable(fr_map, cnt) :
          /\ fr_map' = AllocFrom(fr_map, p, cnt)
          /\ in_use' = in_use \cup BlksOf(FullExtent(p[2], cnt))
          /\ result' = [call |-> "alloc", cnt |-> cnt, ext |-> FullExtent(p[2], cnt)]
          /\ owned' = owned
    BY <1>5 DEF AllocSucceeds
  <2> DEFINE ext == FullExtent(p[2], cnt)
  <2>2. /\ WellFormed(fr_map')
        /\ ext \in FullExtents
        /\ BlksOf(ext) \subseteq FreeBlksOf(fr_map)
        /\ FreeBlksOf(fr_map') = FreeBlksOf(fr_map) \ BlksOf(ext)
    BY <2>1, AllocCorrect
  <2> HIDE DEF ext
  <2>3. result' \in Results
    BY <2>1, <2>2 DEF Results, ext
  <2> QED BY <1>a, <2>1, <2>2, <2>3 DEF ext
<1>6. ASSUME NEW cnt \in BlkCnts \ {0}, AllocFails(cnt) PROVE MapIInv'
  <2>1. ClosestBlkCnt(fr_map, cnt) \in BlkCnts
    BY ClosestFacts
  <2> QED BY <1>6, <2>1 DEF AllocFails, Results
<1>7. CASE Reset
  <2>1. MapInit'
    BY <1>7 DEF Reset, MapInit
  <2> QED BY <2>1, MapInitIInv, PTL
<1>8. CASE UNCHANGED map_vars
  BY <1>8 DEF map_vars
<1> QED
  BY <1>1, <1>2, <1>3, <1>4, <1>5, <1>6, <1>7, <1>8 DEF MapNext

\* The inductive invariant holds after any sequence of calls.
THEOREM MapSpecIInv == MapSpec => []MapIInv
<1> QED
  BY MapInitIInv, MapNextIInv, PTL DEF MapSpec

\* The free map of free_map.cpp, for every number of blocks, every width of a
\* count, with coalescing or without, and whatever its client does: the types
\* are right, the two indexes agree, no two chunks overlap, and every block
\* given to the map is either free or held by the client.
THEOREM FreeMapSafe == MapSpec => [](MapTypeOK /\ IndexesAgree /\ BlocksConserved)
<1>1. MapIInv => MapTypeOK /\ IndexesAgree /\ BlocksConserved
  BY DEF MapIInv, WellFormed, MapTypeOK, IndexesAgree
<1> QED
  BY <1>1, MapSpecIInv, PTL

\* The map, its client and what the calls return have the right types.
THEOREM FreeMapTypes == MapSpec => []MapTypeOK
<1>1. MapIInv => MapTypeOK
  BY DEF MapIInv, WellFormed, MapTypeOK
<1> QED
  BY <1>1, MapSpecIInv, PTL

\* fr_by_nr and fr_by_cnt always have the same chunks, that never overlap.
THEOREM FreeMapIndexesAgree == MapSpec => []IndexesAgree
<1>1. MapIInv => IndexesAgree
  BY DEF MapIInv, WellFormed, IndexesAgree
<1> QED
  BY <1>1, MapSpecIInv, PTL

\* FreeMap::dealloc throws for every double free and for no legal dealloc,
\* although fail_if_overlap looks at two chunks only.
THEOREM DoubleFreesAreDetected == MapSpec => DoubleFreeDetected
<1> DEFINE Detected ==
             /\ result'.call = "dealloc" => BlksOf(result'.ext) \cap FreeBlks = {}
             /\ result'.call = "dealloc threw" => BlksOf(result'.ext) \cap FreeBlks # {}
<1>1. ASSUME MapIInv, MapNext PROVE Detected
  <2>1. ASSUME NEW e \in FullExtents, DeallocAccepted(e) PROVE Detected
    <3>1. BlksOf(e) \cap FreeBlks = {}
      BY <1>1, <2>1, AlreadyFreedExact DEF DeallocAccepted, MapIInv, FreeBlks
    <3> QED BY <2>1, <3>1 DEF DeallocAccepted
  <2>2. ASSUME NEW e \in FullExtents, DeallocThrows(e) PROVE Detected
    <3>1. BlksOf(e) \cap FreeBlks # {}
      BY <1>1, <2>2, AlreadyFreedExact DEF DeallocThrows, MapIInv, FreeBlks
    <3> QED BY <2>2, <3>1 DEF DeallocThrows
  <2>3. ASSUME NEW e \in FullExtents, Provide(e) \/ ReleaseChunk(e) PROVE Detected
    <3>1. result'.call = "none"
      <4>1. result' = Nothing
        BY <2>3 DEF Provide, ReleaseChunk
      <4> QED BY <4>1 DEF Nothing
    <3> QED BY <3>1
  <2>4. ASSUME NEW cnt \in BlkCnts \ {0}, AllocSucceeds(cnt) \/ AllocFails(cnt)
        PROVE  Detected
    <3>1. CASE AllocSucceeds(cnt)
      BY <3>1 DEF AllocSucceeds
    <3>2. CASE AllocFails(cnt)
      BY <3>2 DEF AllocFails
    <3> QED BY <2>4, <3>1, <3>2
  <2>5. CASE Reset
    BY <2>5 DEF Reset, Nothing
  <2> QED BY <1>1, <2>1, <2>2, <2>3, <2>4, <2>5 DEF MapNext
<1>2. MapIInv /\ [MapNext]_map_vars => [Detected]_map_vars
  BY <1>1
<1> QED
  BY <1>2, MapSpecIInv, PTL DEF MapSpec, DoubleFreeDetected

-----------------------------------------------------------------------------
(* A failed alloc *)

\* When FreeMap::alloc fails there is no chunk it may use, and its hint is
\* smaller than the request and is the count of a chunk: what the retry loop
\* of SegmentAllocator::allocate_extents needs to terminate.
THEOREM FailuresAreJustified == MapSpec => []FailureIsJustified
<1>1. MapInit => FailureIsJustified
  BY DEF MapInit, Nothing, FailureIsJustified
<1>2. MapIInv /\ FailureIsJustified /\ [MapNext]_map_vars => FailureIsJustified'
  <2> SUFFICES ASSUME MapIInv, FailureIsJustified, [MapNext]_map_vars PROVE FailureIsJustified'
    OBVIOUS
  <2>1. ASSUME NEW cnt \in BlkCnts \ {0}, AllocFails(cnt) PROVE FailureIsJustified'
    <3>1. WellFormed(fr_map) /\ Usable(fr_map, cnt) = {}
      BY <2>1 DEF MapIInv, AllocFails
    <3>2. /\ fr_map' = fr_map
          /\ result'.cnt = cnt /\ result'.closest = ClosestBlkCnt(fr_map, cnt)
      BY <2>1 DEF AllocFails
    <3>3. \A p \in fr_map.fr_by_cnt : p[1] # cnt /\ p[1] <= cnt + SplitAboveThreshold
      BY <3>1, UsableEmpty
    <3> QED BY <3>1, <3>2, <3>3, ClosestFacts DEF FailureIsJustified
  <2>2. ASSUME NEW cnt \in BlkCnts \ {0}, AllocSucceeds(cnt) PROVE FailureIsJustified'
    <3>1. result'.call = "alloc"
      BY <2>2 DEF AllocSucceeds
    <3> QED BY <3>1 DEF FailureIsJustified
  <2>3. ASSUME NEW e \in FullExtents,
               Provide(e) \/ DeallocAccepted(e) \/ DeallocThrows(e) \/ ReleaseChunk(e)
        PROVE  FailureIsJustified'
    <3>1. CASE Provide(e) \/ ReleaseChunk(e)
      <4>1. result' = Nothing
        BY <3>1 DEF Provide, ReleaseChunk
      <4> QED BY <4>1 DEF Nothing, FailureIsJustified
    <3>2. CASE DeallocAccepted(e)
      BY <3>2 DEF DeallocAccepted, FailureIsJustified
    <3>3. CASE DeallocThrows(e)
      BY <3>3 DEF DeallocThrows, FailureIsJustified
    <3> QED BY <2>3, <3>1, <3>2, <3>3
  <2>4. CASE Reset
    BY <2>4 DEF Reset, Nothing, FailureIsJustified
  <2>5. CASE UNCHANGED map_vars
    BY <2>5 DEF map_vars, FailureIsJustified
  <2> QED BY <2>1, <2>2, <2>3, <2>4, <2>5 DEF MapNext
<1> QED
  BY <1>1, <1>2, MapSpecIInv, PTL DEF MapSpec

-----------------------------------------------------------------------------
(* Coalescing. Where no sum of counts can overflow, no chunk starts where  *)
(* another ends.                                                           *)

NoSumOverflows == CoalescingEnabled /\ MaxBlkCnt > MaxBlkNr

CoalescedIn(m) == \A b \in Chunks(m) : b + m.fr_by_nr[b] \notin Chunks(m)

\* A chunk fewer.
LEMMA RemovedCoalesced ==
  ASSUME NEW m, WellFormed(m), CoalescedIn(m), NEW b \in Chunks(m)
  PROVE  CoalescedIn(Removed(m, b))
<1>1. m.fr_by_nr \in [BlkNrs -> BlkCnts]
  BY DEF WellFormed, FreeMaps
<1>2. Removed(m, b).fr_by_nr = [m.fr_by_nr EXCEPT ![b] = 0]
  BY DEF Removed
<1>3. \A c \in Chunks(Removed(m, b)) :
        c \in Chunks(m) /\ Removed(m, b).fr_by_nr[c] = m.fr_by_nr[c]
  BY <1>1, <1>2 DEF Chunks
<1> QED
  BY <1>3 DEF CoalescedIn

\* Chunks replaced by one that no other one touches.
LEMMA ReplacedCoalesced ==
  ASSUME NEW m, WellFormed(m), CoalescedIn(m), NEW gone, NEW nr, NEW cnt,
         Replaceable(m, gone, nr, cnt),
         nr + cnt \notin Chunks(m) \ gone,
         \A b \in Chunks(m) \ gone : b + m.fr_by_nr[b] # nr
  PROVE  CoalescedIn(Replaced(m, gone, nr, cnt))
<1> DEFINE r == Replaced(m, gone, nr, cnt)
<1>1. /\ Chunks(r) = (Chunks(m) \ gone) \cup {nr}
      /\ r.fr_by_nr[nr] = cnt
      /\ \A b \in Chunks(m) \ gone : r.fr_by_nr[b] = m.fr_by_nr[b]
  BY ReplacedWellFormed
<1>2. nr + cnt # nr
  BY ExtentAssumption DEF Replaceable, BlkNrs, BlkCnts
<1> HIDE DEF r
<1>3. ASSUME NEW b \in Chunks(r) PROVE b + r.fr_by_nr[b] \notin Chunks(r)
  <2>1. CASE b = nr
    BY <1>1, <1>2, <2>1
  <2>2. CASE b # nr
    <3>1. b \in Chunks(m) \ gone
      BY <1>1, <2>2
    <3> QED  BY <1>1, <3>1 DEF CoalescedIn
  <2> QED  BY <2>1, <2>2
<1> QED
  BY <1>3 DEF CoalescedIn, r

\* An alloc shortens a chunk from its start.
LEMMA AllocCoalesced ==
  ASSUME NEW m, WellFormed(m), CoalescedIn(m),
         NEW cnt \in BlkCnts \ {0}, NEW p \in Usable(m, cnt)
  PROVE  CoalescedIn(AllocFrom(m, p, cnt))
<1> DEFINE f == m.fr_by_nr
           b == p[2]
           nr == b + cnt
           remain == f[b] - cnt
<1>1. /\ b \in Chunks(m) /\ p = <<f[b], b>> /\ cnt <= f[b]
  BY UsableFacts
<1>2. /\ b \in BlkNrs /\ f[b] \in BlkCnts /\ f[b] # 0 /\ b + f[b] <= MaxBlkNr + 1
      /\ cnt \in Nat /\ cnt > 0 /\ p[1] = f[b]
  BY <1>1, WellFormedFacts, ExtentAssumption DEF BlkCnts
<1>3. CASE f[b] = cnt
  <2>1. AllocFrom(m, p, cnt) = Removed(m, b)
    <3>1. p[1] - cnt = 0
      BY <1>2, <1>3
    <3> QED  BY <1>1, <1>2, <3>1 DEF AllocFrom, Removed
  <2> QED  BY <1>1, <2>1, RemovedCoalesced
<1>4. CASE f[b] # cnt
  <2>1. AllocFrom(m, p, cnt) = Replaced(m, {b}, nr, remain) /\ Replaceable(m, {b}, nr, remain)
    <3>1. cnt < f[b]
      BY <1>1, <1>2, <1>4, ExtentAssumption DEF BlkCnts
    <3> HIDE DEF b
    <3> QED  BY <1>1, <3>1, AllocSplits
  <2>2. \A c \in Chunks(m) \ {b} : /\ c \in BlkNrs /\ f[c] \in BlkCnts /\ f[c] # 0
                                   /\ c < b => c + f[c] <= b
                                   /\ b < c => b + f[b] <= c
    BY <1>1, WellFormedFacts
  <2>3. nr + remain = b + f[b]
    BY <1>2, ExtentAssumption DEF BlkNrs, BlkCnts
  <2>4. nr + remain \notin Chunks(m)
    BY <1>1, <2>3 DEF CoalescedIn
  <2>5. \A c \in Chunks(m) \ {b} : c + f[c] # nr
    BY <1>1, <1>2, <1>4, <2>2, ExtentAssumption DEF BlkNrs, BlkCnts
  <2> HIDE DEF nr, remain, b
  <2> QED  BY <2>1, <2>4, <2>5, ReplacedCoalesced
<1> QED
  BY <1>3, <1>4

(***************************************************************************)
(* A dealloc merges every chunk that touches its extent: the two lookups   *)
(* find them both, and no count passes MaxBlkCnt.                          *)
(***************************************************************************)
LEMMA DeallocCoalesced ==
  ASSUME NoSumOverflows, NEW m, WellFormed(m), CoalescedIn(m),
         NEW e \in FullExtents, ~ AlreadyFreed(m, e)
  PROVE  CoalescedIn(Dealloc(m, e))
<1> DEFINE w == WithNext(m, e)
           N == NextMerged(m, e)
           k == WithPrev(m, w)
           P == PrevMerged(m, w)
           f == m.fr_by_nr
<1>0. \A b \in Chunks(m) : /\ b \in BlkNrs /\ f[b] \in BlkCnts /\ f[b] # 0
                           /\ b + f[b] <= MaxBlkNr + 1
  BY WellFormedFacts
<1>1. \A b \in Chunks(m) : Apart(m, b, e)
  BY NotFreedApart
<1>2. /\ w \in FullExtents /\ w.blk_nr = e.blk_nr
      /\ N \in SUBSET Chunks(m)
      /\ \A b \in N : b > w.blk_nr
      /\ \A b \in Chunks(m) \ N : Apart(m, b, w)
  BY <1>1, WithNextFacts
<1>3. /\ k \in FullExtents
      /\ P \subseteq Chunks(m)
      /\ k.blk_nr \in P \/ k.blk_nr \notin Chunks(m)
      /\ \A b \in Chunks(m) \ (N \cup P) : Apart(m, b, k)
  BY <1>2, WithPrevFacts
<1>4. Dealloc(m, e) = Replaced(m, N \cup P, k.blk_nr, k.blk_cnt)
  BY DEF Dealloc, Coalesced, Replaced
<1>5. /\ e.blk_nr \in BlkNrs /\ e.blk_cnt \in BlkCnts /\ e.blk_cnt # 0
      /\ e.blk_nr + e.blk_cnt <= MaxBlkNr + 1
      /\ PastEndBlkNr(e) = e.blk_nr + e.blk_cnt
  BY FullExtentFacts
<1>6. /\ w.blk_nr \in BlkNrs /\ w.blk_cnt \in BlkCnts /\ w.blk_cnt # 0
      /\ w.blk_nr + w.blk_cnt <= MaxBlkNr + 1
  BY <1>2, FullExtentFacts
<1>7. /\ k.blk_nr \in BlkNrs /\ k.blk_cnt \in BlkCnts /\ k.blk_cnt # 0
      /\ k.blk_nr + k.blk_cnt <= MaxBlkNr + 1
  BY <1>3, FullExtentFacts
<1>8. \A b \in Chunks(m) : b = e.blk_nr + e.blk_cnt => b \in N
  <2> SUFFICES ASSUME NEW b \in Chunks(m), b = e.blk_nr + e.blk_cnt PROVE b \in N
    OBVIOUS
  <2>1. b > e.blk_nr /\ f[b] + e.blk_cnt <= MaxBlkCnt
    BY <1>0, <1>5, ExtentAssumption DEF NoSumOverflows, BlkNrs, BlkCnts
  <2>2. \A c \in Chunks(m) : c > e.blk_nr => b <= c
    <3> SUFFICES ASSUME NEW c \in Chunks(m), c > e.blk_nr PROVE b <= c
      OBVIOUS
    <3>1. c + f[c] <= e.blk_nr \/ e.blk_nr + e.blk_cnt <= c
      BY <1>1 DEF Apart
    <3> QED  BY <1>0, <1>5, <3>1, ExtentAssumption DEF BlkNrs, BlkCnts
  <2> QED  BY <1>5, <2>1, <2>2 DEF NextMerged, NoSumOverflows
<1>9. w.blk_nr + w.blk_cnt \notin Chunks(m) \ N
  <2>1. CASE N = {}
    <3>1. w = e
      BY <2>1 DEF WithNext
    <3> HIDE DEF N, w
    <3> QED  BY <1>8, <3>1
  <2>2. CASE N # {}
    <3> DEFINE q == e.blk_nr + e.blk_cnt
    <3>1. q \in Chunks(m)
      BY <1>5, <2>2 DEF NextMerged
    <3>2. w = FullExtent(e.blk_nr, e.blk_cnt + f[q])
      BY <1>5, <2>2 DEF WithNext
    <3>3. w.blk_nr + w.blk_cnt = q + f[q]
      <4>1. w.blk_nr = e.blk_nr /\ w.blk_cnt = e.blk_cnt + f[q]
        BY <3>2 DEF FullExtent
      <4> HIDE DEF w
      <4> QED  BY <1>0, <1>5, <3>1, <4>1, ExtentAssumption DEF BlkNrs, BlkCnts
    <3>4. q + f[q] \notin Chunks(m)
      BY <3>1 DEF CoalescedIn
    <3> HIDE DEF q, w, N
    <3> QED  BY <3>3, <3>4
  <2> QED  BY <2>1, <2>2
<1>10. \A b \in Chunks(m) \ N : b + f[b] = w.blk_nr => b \in P
  <2> SUFFICES ASSUME NEW b \in Chunks(m) \ N, b + f[b] = w.blk_nr PROVE b \in P
    OBVIOUS
  <2> HIDE DEF w, N
  <2>1. b <= w.blk_nr /\ f[b] + w.blk_cnt <= MaxBlkCnt
    BY <1>0, <1>6, ExtentAssumption DEF NoSumOverflows, BlkNrs, BlkCnts
  <2>2. \A c \in Chunks(m) : c <= w.blk_nr => c <= b
    <3> SUFFICES ASSUME NEW c \in Chunks(m), c <= w.blk_nr PROVE c <= b
      OBVIOUS
    <3>1. b < c => b + f[b] <= c
      BY WellFormedFacts
    <3>2. c # w.blk_nr
      BY DEF CoalescedIn
    <3> QED  BY <1>0, <1>6, <3>1, <3>2, ExtentAssumption DEF BlkNrs, BlkCnts
  <2> QED  BY <2>1, <2>2 DEF PrevMerged, NoSumOverflows
<1>11. k.blk_nr + k.blk_cnt = w.blk_nr + w.blk_cnt /\ (P = {} => k = w)
  <2> HIDE DEF w
  <2>1. CASE P = {}
    BY <2>1 DEF WithPrev
  <2>2. CASE P # {}
    <3>1. PICK b \in P : k = FullExtent(b, f[b] + w.blk_cnt)
      <4> DEFINE q == CHOOSE q \in P : TRUE
      <4>1. q \in P
        BY <2>2
      <4>2. k = FullExtent(q, f[q] + w.blk_cnt)
        BY <2>2 DEF WithPrev
      <4> QED  BY <4>1, <4>2
    <3>2. b \in Chunks(m) /\ b + f[b] = w.blk_nr
      BY DEF PrevMerged
    <3>3. k.blk_nr = b /\ k.blk_cnt = f[b] + w.blk_cnt
      BY <3>1 DEF FullExtent
    <3> HIDE DEF k, P
    <3> QED  BY <1>0, <1>6, <2>2, <3>2, <3>3, ExtentAssumption DEF BlkNrs, BlkCnts
  <2> QED  BY <2>1, <2>2
<1>12. \A b \in Chunks(m) \ (N \cup P) : b + f[b] # k.blk_nr
  <2>1. CASE P = {}
    <3> HIDE DEF w, N, k, P
    <3> QED  BY <1>10, <1>11, <2>1
  <2>2. CASE P # {}
    <3>1. k.blk_nr \in Chunks(m)
      <4>1. PICK b \in P : b = k.blk_nr
        <5> DEFINE q == CHOOSE q \in P : TRUE
        <5>1. q \in P
          BY <2>2
        <5>2. k = FullExtent(q, f[q] + w.blk_cnt)
          BY <2>2 DEF WithPrev
        <5> QED  BY <5>1, <5>2 DEF FullExtent
      <4> HIDE DEF k, P
      <4> QED  BY <1>3, <4>1
    <3> HIDE DEF k, P, N
    <3> QED  BY <3>1 DEF CoalescedIn
  <2> QED  BY <2>1, <2>2
<1> HIDE DEF w, N, k, P
<1>13. Replaceable(m, N \cup P, k.blk_nr, k.blk_cnt)
  BY <1>2, <1>3, <1>7 DEF Replaceable, Apart
<1>14. k.blk_nr + k.blk_cnt \notin Chunks(m) \ (N \cup P)
  BY <1>9, <1>11
<1> QED
  BY <1>4, <1>12, <1>13, <1>14, ReplacedCoalesced

\* With coalescing two free chunks are never adjacent, for any map whose sums
\* of counts fit in one: dealloc, that looks at one chunk on each side, leaves
\* nothing to merge, whatever is allocated and given back (free_map.cpp:207-280).
THEOREM ChunksAreCoalesced == MapSpec => []FullyCoalesced
<1> DEFINE Inv == NoSumOverflows => CoalescedIn(fr_map)
<1>1. MapInit => Inv
  <2>1. Chunks(EmptyFreeMap) = {}
    BY DEF EmptyFreeMap, Chunks
  <2> QED  BY <2>1 DEF MapInit, CoalescedIn
<1>2. MapIInv /\ Inv /\ [MapNext]_map_vars => Inv'
  <2> SUFFICES ASSUME MapIInv, Inv, [MapNext]_map_vars, NoSumOverflows PROVE CoalescedIn(fr_map')
    OBVIOUS
  <2>0. WellFormed(fr_map) /\ CoalescedIn(fr_map)
    BY DEF MapIInv
  <2>1. ASSUME NEW e \in FullExtents, Provide(e) \/ DeallocAccepted(e)
        PROVE  CoalescedIn(fr_map')
    <3>1. ~ AlreadyFreed(fr_map, e) /\ fr_map' = Dealloc(fr_map, e)
      BY <2>1 DEF Provide, DeallocAccepted
    <3> QED  BY <2>0, <3>1, DeallocCoalesced
  <2>2. ASSUME NEW e \in FullExtents, ReleaseChunk(e) PROVE CoalescedIn(fr_map')
    <3>1. e.blk_nr \in Chunks(fr_map) /\ fr_map' = Removed(fr_map, e.blk_nr)
      BY <2>2 DEF ReleaseChunk, IsChunk, Release, Removed
    <3> QED  BY <2>0, <3>1, RemovedCoalesced
  <2>3. ASSUME NEW cnt \in BlkCnts \ {0}, AllocSucceeds(cnt) PROVE CoalescedIn(fr_map')
    <3>1. PICK p \in Usable(fr_map, cnt) : fr_map' = AllocFrom(fr_map, p, cnt)
      BY <2>3 DEF AllocSucceeds
    <3> QED  BY <2>0, <3>1, AllocCoalesced
  <2>4. CASE Reset
    <3>1. Chunks(EmptyFreeMap) = {}
      BY DEF EmptyFreeMap, Chunks
    <3> QED  BY <2>4, <3>1 DEF Reset, CoalescedIn
  <2>5. CASE UNCHANGED fr_map
    BY <2>0, <2>5
  <2>6. ASSUME NEW e \in FullExtents, DeallocThrows(e) PROVE UNCHANGED fr_map
    BY <2>6 DEF DeallocThrows
  <2>7. ASSUME NEW cnt \in BlkCnts \ {0}, AllocFails(cnt) PROVE UNCHANGED fr_map
    BY <2>7 DEF AllocFails
  <2>8. CASE UNCHANGED map_vars
    BY <2>0, <2>8 DEF map_vars
  <2> QED  BY <2>1, <2>2, <2>3, <2>4, <2>5, <2>6, <2>7, <2>8 DEF MapNext
<1>3. Inv => FullyCoalesced
  BY DEF FullyCoalesced, NoSumOverflows, CoalescedIn
<1> QED
  BY <1>1, <1>2, <1>3, MapSpecIInv, PTL DEF MapSpec


-----------------------------------------------------------------------------
(* The subblock free map. Its inductive invariant: SubblksConserved needs  *)
(* the bins, as alloc believes the bitmap it finds in a bin, never the one *)
(* in fr_by_nr.                                                            *)

SubIInv ==
  /\ SubWellFormed(subfr_map)
  /\ in_use_subblks \in [BlkNrs -> Bitmaps]
  /\ owned_blks \subseteq BlkNrs
  /\ SubblksConserved

\* The constructor of SubBlockFreeMap establishes the inductive invariant.
LEMMA SubInitIInv == SubInit => SubIInv
<1> SUFFICES ASSUME SubInit PROVE SubIInv
  OBVIOUS
<1>1. EmptySubFreeMap \in SubFreeMaps
  BY DEF EmptySubFreeMap, SubFreeMaps, Bitmaps
<1>2. BinsAgreeIn(EmptySubFreeMap)
  BY DEF EmptySubFreeMap, BinsAgreeIn, InSubMap
<1>3. SubblksConserved
  BY DEF SubInit, SubblksConserved, FreeSubblks, EmptySubFreeMap
<1> QED
  BY <1>1, <1>2, <1>3 DEF SubInit, SubIInv, SubWellFormed, Bitmaps

\* Every call to SubBlockFreeMap preserves the inductive invariant.
LEMMA SubNextIInv == SubIInv /\ [SubNext]_sub_vars => SubIInv'
<1> SUFFICES ASSUME SubIInv, [SubNext]_sub_vars PROVE SubIInv'
  OBVIOUS
<1> USE DEF SubIInv, SubblksConserved, FreeSubblks
<1>0. /\ subfr_map.fr_by_nr \in [BlkNrs -> Bitmaps]
      /\ \A b \in BlkNrs : subfr_map.fr_by_nr[b] \subseteq Subblks /\ in_use_subblks[b] \subseteq Subblks
  BY DEF SubWellFormed, SubFreeMaps, Bitmaps
<1>1. ASSUME NEW nr \in BlkNrs, NEW bitmap \in Bitmaps, ProvideBlk(nr, bitmap) PROVE SubIInv'
  <2>1. subfr_map.fr_by_nr[nr] = {}
    BY <1>1 DEF ProvideBlk, InSubMap
  <2>2. /\ SubWellFormed(subfr_map')
        /\ subfr_map'.fr_by_nr = [subfr_map.fr_by_nr EXCEPT ![nr] = bitmap]
    BY <1>1, <2>1, RebinnedCorrect DEF ProvideBlk, ProvideSub
  <2> QED
    BY <1>0, <1>1, <2>2 DEF ProvideBlk, Bitmaps
<1>2. ASSUME NEW cnt \in 1 .. SubblkCntPerBlk, SubAllocSucceeds(cnt) PROVE SubIInv'
  <2>1. PICK x \in UsableBlk(subfr_map, cnt) :
          /\ subfr_map' = AllocFromBlk(subfr_map, x, cnt)
          /\ in_use_subblks' = [in_use_subblks EXCEPT ![x[1]] = @ \cup TakenBits(x[2], cnt)]
          /\ owned_blks' = owned_blks
    BY <1>2 DEF SubAllocSucceeds
  <2>2. PICK i \in Bins : x \in subfr_map.exts_bin[i]
    BY <2>1 DEF UsableBlk, UsableBins
  <2>3. PICK nr \in BlkNrs : x = <<nr, subfr_map.fr_by_nr[nr]>>
    BY <2>2, InBin
  <2> DEFINE free == subfr_map.fr_by_nr[nr]
             taken == TakenBits(free, cnt)
  <2>4. taken \subseteq free
    BY DEF TakenBits
  <2>5. free \ taken \in Bitmaps
    BY <1>0 DEF Bitmaps
  <2>6. subfr_map' = Rebinned(subfr_map, nr, free, free \ taken)
    BY <2>1, <2>3 DEF AllocFromBlk
  <2>7. in_use_subblks' = [in_use_subblks EXCEPT ![nr] = @ \cup taken]
    BY <2>1, <2>3
  <2> HIDE DEF taken
  <2>8. /\ SubWellFormed(subfr_map')
        /\ subfr_map'.fr_by_nr = [subfr_map.fr_by_nr EXCEPT ![nr] = free \ taken]
    BY <2>5, <2>6, RebinnedCorrect
  <2>9. in_use_subblks' \in [BlkNrs -> Bitmaps]
    BY <1>0, <2>4, <2>7 DEF Bitmaps
  <2>10. SubblksConserved'
    BY <1>0, <2>1, <2>4, <2>7, <2>8
  <2> QED
    BY <2>1, <2>8, <2>9, <2>10
<1>3. ASSUME NEW nr \in BlkNrs, NEW bitmap \in Bitmaps, bitmap # {}, SubDeallocAccepted(nr, bitmap)
      PROVE  SubIInv'
  <2> DEFINE free == subfr_map.fr_by_nr[nr]
  <2>1. bitmap \cap free = {} /\ bitmap \subseteq in_use_subblks[nr]
    BY <1>3 DEF SubDeallocAccepted, SubAlreadyFreed, SubMayBeDealloced
  <2>2. free \cup bitmap \in Bitmaps
    BY <1>0 DEF Bitmaps
  <2>3. /\ SubWellFormed(subfr_map')
        /\ subfr_map'.fr_by_nr = [subfr_map.fr_by_nr EXCEPT ![nr] = free \cup bitmap]
    BY <1>3, <2>2, RebinnedCorrect DEF SubDeallocAccepted, DeallocSub
  <2>4. in_use_subblks' = [in_use_subblks EXCEPT ![nr] = @ \ bitmap] /\ owned_blks' = owned_blks
    BY <1>3 DEF SubDeallocAccepted
  <2>5. in_use_subblks' \in [BlkNrs -> Bitmaps]
    BY <1>0, <2>4 DEF Bitmaps
  <2>6. SubblksConserved'
    BY <1>0, <2>1, <2>3, <2>4
  <2> QED
    BY <2>3, <2>4, <2>5, <2>6
<1>4. CASE ReleaseBlks
  <2> DEFINE blks == FullyFreeBlks(subfr_map)
  <2>1. /\ blks \subseteq BlkNrs
        /\ \A b \in blks : subfr_map.fr_by_nr[b] = Subblks
    <3>1. \A b \in blks : subfr_map.fr_by_nr[b] = Subblks
      BY <1>4 DEF ReleaseBlks, Releasable
    <3>2. SubblkCntPerBlk - 1 \in Bins
      BY ExtentAssumption DEF Bins
    <3>3. \A x \in subfr_map.exts_bin[SubblkCntPerBlk - 1] : x[1] \in BlkNrs
      BY <3>2, InBin
    <3> QED BY <3>1, <3>3 DEF FullyFreeBlks
  <2>2. /\ subfr_map' = ReleaseSub(subfr_map, blks)
        /\ owned_blks' = owned_blks \ blks
        /\ in_use_subblks' = in_use_subblks
    BY <1>4 DEF ReleaseBlks
  <2> HIDE DEF blks
  <2>3. /\ SubWellFormed(subfr_map')
        /\ subfr_map'.fr_by_nr =
             [b \in BlkNrs |-> IF b \in blks THEN {} ELSE subfr_map.fr_by_nr[b]]
    BY <2>1, <2>2, ReleaseSubCorrect
  <2>4. ASSUME NEW b \in blks PROVE in_use_subblks[b] = {}
    BY <1>0, <2>1
  <2>5. SubblksConserved'
    BY <1>0, <2>2, <2>3, <2>4
  <2> QED
    BY <2>2, <2>3, <2>5
<1>5. CASE SubReset
  <2>1. SubInit'
    BY <1>5 DEF SubReset, SubInit
  <2> QED BY <2>1, SubInitIInv, PTL
<1>6. ASSUME NEW nr \in BlkNrs, NEW bitmap \in Bitmaps, SubDeallocThrows(nr, bitmap) PROVE SubIInv'
  BY <1>6 DEF SubDeallocThrows
<1>7. ASSUME NEW cnt \in 1 .. SubblkCntPerBlk, SubAllocFails(cnt) PROVE SubIInv'
  BY <1>7 DEF SubAllocFails
<1>8. CASE UNCHANGED sub_vars
  BY <1>8 DEF sub_vars
<1> QED
  BY <1>1, <1>2, <1>3, <1>4, <1>5, <1>6, <1>7, <1>8 DEF SubNext

\* For every number of blocks and of subblocks per block, whatever the client
\* allocates, gives back, gives back twice or opens: the bins and fr_by_nr
\* hold the same blocks, and a subblock is either free or held by the client.
THEOREM SubFreeMapSafe == SubSpec => [](BinsAgree /\ SubblksConserved)
<1>1. SubIInv => BinsAgree /\ SubblksConserved
  BY DEF SubIInv, SubWellFormed, BinsAgree
<1> QED
  BY <1>1, SubInitIInv, SubNextIInv, PTL DEF SubSpec

\* Every block of fr_by_nr is in the bin of its bitmap, and in no other, and
\* no bin has anything else: what alloc relies on.
THEOREM SubFreeMapBinsAgree == SubSpec => []BinsAgree
<1>1. SubIInv => BinsAgree
  BY DEF SubIInv, SubWellFormed, BinsAgree
<1> QED
  BY <1>1, SubInitIInv, SubNextIInv, PTL DEF SubSpec

\* The counters of a map are of their width, and the rest of the right types.
THEOREM SubFreeMapTypes == SubSpec => []SubTypeOK
<1> DEFINE Rest == /\ owned_subblk_cnt \in 0 .. CounterMod - 1
                   /\ allocated_subblk_cnt \in 0 .. CounterMod - 1
                   /\ sub_result \in SubResults
<1>1. SubIInv /\ Rest => SubTypeOK
  BY DEF SubIInv, SubWellFormed, SubTypeOK
<1>2. SubInit => Rest
  BY CounterAssumption DEF SubInit, SubResults, NoResult
<1>3. SubIInv /\ Rest /\ [SubNext]_sub_vars => Rest'
  <2> SUFFICES ASSUME SubIInv, Rest, [SubNext]_sub_vars PROVE Rest'
    OBVIOUS
  <2>0. \A n \in Int : Counter(n) \in 0 .. CounterMod - 1
    BY CounterAssumption DEF Counter
  <2>a. \A s \in SUBSET Subblks : Cardinality(s) \in Int
    BY CountIsInt
  <2>b. owned_subblk_cnt \in Int /\ allocated_subblk_cnt \in Int
    BY CounterAssumption
  <2>c. \A b \in BlkNrs : subfr_map.fr_by_nr[b] \subseteq Subblks
    BY DEF SubIInv, SubWellFormed, SubFreeMaps, Bitmaps
  <2>1. ASSUME NEW nr \in BlkNrs, NEW bitmap \in Bitmaps, ProvideBlk(nr, bitmap) PROVE Rest'
    <3>1. owned_subblk_cnt' = Counter(owned_subblk_cnt + Cardinality(bitmap))
      BY <2>1 DEF ProvideBlk
    <3>2. Cardinality(bitmap) \in Int
      BY <2>a DEF Bitmaps
    <3>3. owned_subblk_cnt + Cardinality(bitmap) \in Int
      BY <2>b, <3>2
    <3>4. owned_subblk_cnt' \in 0 .. CounterMod - 1
      BY <2>0, <3>1, <3>3
    <3>5. sub_result' \in SubResults
      BY <2>1 DEF ProvideBlk, SubResults
    <3> QED  BY <2>1, <3>4, <3>5 DEF ProvideBlk
  <2>2. ASSUME NEW cnt \in 1 .. SubblkCntPerBlk, SubAllocSucceeds(cnt) PROVE Rest'
    <3>1. PICK x \in UsableBlk(subfr_map, cnt) :
            /\ allocated_subblk_cnt' =
                 Counter(allocated_subblk_cnt + Cardinality(TakenBits(x[2], cnt)))
            /\ sub_result' = [call |-> "alloc", cnt |-> cnt,
                          ext |-> SubExtent(x[1], TakenBits(x[2], cnt))]
            /\ owned_subblk_cnt' = owned_subblk_cnt
      BY <2>2 DEF SubAllocSucceeds
    <3>2. PICK i \in Bins : x \in subfr_map.exts_bin[i]
      BY <3>1 DEF UsableBlk, UsableBins
    <3>3. PICK nr \in BlkNrs : x = <<nr, subfr_map.fr_by_nr[nr]>>
      BY <3>2, InBin DEF SubIInv
    <3> DEFINE taken == TakenBits(x[2], cnt)
    <3>4. taken \in SUBSET Subblks /\ x[1] \in BlkNrs
      BY <2>c, <3>3 DEF TakenBits
    <3> HIDE DEF taken
    <3>5. Cardinality(taken) \in Int
      BY <2>a, <3>4
    <3>6. allocated_subblk_cnt + Cardinality(taken) \in Int
      BY <2>b, <3>5
    <3>7. allocated_subblk_cnt' \in 0 .. CounterMod - 1
      BY <2>0, <3>1, <3>6 DEF taken
    <3>8. SubExtent(x[1], taken) \in SubExtents
      BY <3>4 DEF SubExtents, Bitmaps
    <3>9. sub_result' = [call |-> "alloc", cnt |-> cnt, ext |-> SubExtent(x[1], taken)]
      BY <3>1 DEF taken
    <3>10. sub_result' \in SubResults
      BY <3>8, <3>9 DEF SubResults
    <3> QED  BY <3>1, <3>7, <3>10
  <2>3. ASSUME NEW nr \in BlkNrs, NEW bitmap \in Bitmaps, SubDeallocAccepted(nr, bitmap)
        PROVE  Rest'
    <3> DEFINE after == FreeSubblks(nr) \cup bitmap
    <3>1. /\ allocated_subblk_cnt' = Counter(allocated_subblk_cnt - Cardinality(after))
          /\ sub_result' = [call |-> "dealloc", ext |-> SubExtent(nr, bitmap)]
          /\ owned_subblk_cnt' = owned_subblk_cnt
      BY <2>3 DEF SubDeallocAccepted
    <3>2. after \in SUBSET Subblks
      BY <2>c DEF FreeSubblks, Bitmaps
    <3> HIDE DEF after
    <3>3. Cardinality(after) \in Int
      BY <2>a, <3>2
    <3>4. allocated_subblk_cnt - Cardinality(after) \in Int
      BY <2>b, <3>3
    <3>5. allocated_subblk_cnt' \in 0 .. CounterMod - 1
      BY <2>0, <3>1, <3>4
    <3>6. sub_result' \in SubResults
      <4>1. SubExtent(nr, bitmap) \in SubExtents
        BY DEF SubExtents
      <4> QED  BY <3>1, <4>1 DEF SubResults
    <3> QED  BY <3>1, <3>5, <3>6
  <2>4. CASE ReleaseBlks
    <3> DEFINE blks == FullyFreeBlks(subfr_map)
    <3>1. /\ owned_subblk_cnt' = Counter(owned_subblk_cnt - SubblkCntPerBlk * Cardinality(blks))
          /\ allocated_subblk_cnt' = allocated_subblk_cnt
          /\ sub_result' = [call |-> "release"]
      BY <2>4 DEF ReleaseBlks
    <3>2. blks \subseteq BlkNrs
      <4>1. SubblkCntPerBlk - 1 \in Bins
        BY ExtentAssumption DEF Bins
      <4>2. \A x \in subfr_map.exts_bin[SubblkCntPerBlk - 1] : x[1] \in BlkNrs
        BY <4>1, InBin DEF SubIInv
      <4> QED  BY <4>2 DEF FullyFreeBlks
    <3> HIDE DEF blks
    <3>3. Cardinality(blks) \in Int
      <4>1. IsFiniteSet(BlkNrs)
        BY FS_Interval, ExtentAssumption DEF BlkNrs
      <4> QED  BY <3>2, <4>1, FS_Subset, FS_CardinalityType
    <3>4. owned_subblk_cnt - SubblkCntPerBlk * Cardinality(blks) \in Int
      BY <2>b, <3>3, ExtentAssumption
    <3>5. owned_subblk_cnt' \in 0 .. CounterMod - 1
      BY <2>0, <3>1, <3>4
    <3> QED  BY <3>1, <3>5 DEF SubResults
  <2>5. CASE SubReset
    <3>1. 0 \in 0 .. CounterMod - 1
      BY CounterAssumption
    <3> QED  BY <2>5, <3>1 DEF SubReset, SubResults
  <2>6. ASSUME NEW nr \in BlkNrs, NEW bitmap \in Bitmaps, SubDeallocThrows(nr, bitmap) PROVE Rest'
    BY <2>6 DEF SubDeallocThrows, SubResults
  <2>7. ASSUME NEW cnt \in 1 .. SubblkCntPerBlk, SubAllocFails(cnt) PROVE Rest'
    BY <2>7 DEF SubAllocFails, SubResults
  <2>8. CASE UNCHANGED sub_vars
    BY <2>8 DEF sub_vars
  <2> QED
    BY <2>1, <2>2, <2>3, <2>4, <2>5, <2>6, <2>7, <2>8 DEF SubNext
<1> QED
  BY <1>1, <1>2, <1>3, SubInitIInv, SubNextIInv, PTL DEF SubSpec

-----------------------------------------------------------------------------
(* The block array in a file. Its inductive invariant adds to the types    *)
(* how long the file may be: while it is open it may be shorter than its   *)
(* array, and longer, but never so long that the trailer does not fit;     *)
(* once it is closed it is known to the byte, from the uint32_t that tells *)
(* where the array ends.                                                   *)

IInv ==
  /\ TypeOK
  /\ mode # "panicked" => file.sz < BlkNrExhaust * BlkSz
  /\ mode = "panicked" => file.sz < (BlkNrExhaust + 1) * BlkSz
  /\ mode = "closed" => file.sz = NewFileSz + trailer_sz

-----------------------------------------------------------------------------
(* Sizes *)

LEMMA ConstantTypes ==
  /\ BlkSz \in Nat /\ BlkSz > 1
  /\ BeginBlkNr \in Nat /\ BlkNrExhaust \in Nat /\ MaxBlkNr \in Nat
  /\ BeginBlkNr < BlkNrExhaust /\ BlkNrExhaust < MaxBlkNr
  /\ BlkNrs = 0 .. MaxBlkNr
  /\ BlkCnts \subseteq Nat
BY FileAssumption, BlockArrayAssumption, ExtentAssumption DEF BlkNrs, BlkCnts

\* More blocks have more bytes.
LEMMA MoreBytes ==
  ASSUME NEW m \in Nat, NEW n \in Nat
  PROVE  /\ m * BlkSz \in Nat
         /\ m <= n => m * BlkSz <= n * BlkSz
         /\ m < n => m * BlkSz + BlkSz <= n * BlkSz
         /\ (m + 1) * BlkSz = m * BlkSz + BlkSz
<1>1. BlkSz \in Nat
  BY ConstantTypes
<1>2. m * BlkSz \in Nat /\ (m + 1) * BlkSz = m * BlkSz + BlkSz
  BY <1>1
<1>3. ASSUME m <= n PROVE m * BlkSz <= n * BlkSz
  <2>1. PICK d \in Nat : n = m + d
    <3>1. n - m \in Nat /\ n = m + (n - m)
      BY <1>3
    <3> QED
      BY <3>1
  <2>2. n * BlkSz = m * BlkSz + d * BlkSz /\ d * BlkSz \in Nat
    BY <1>1, <2>1
  <2> QED
    BY <1>2, <2>2
<1>4. ASSUME m < n PROVE m * BlkSz + BlkSz <= n * BlkSz
  <2>1. PICK d \in Nat : n = m + 1 + d
    <3>1. n - m - 1 \in Nat /\ n = m + 1 + (n - m - 1)
      BY <1>4
    <3> QED
      BY <3>1
  <2>2. n * BlkSz = m * BlkSz + BlkSz + d * BlkSz /\ d * BlkSz \in Nat
    BY <1>1, <2>1
  <2> QED
    BY <1>1, <1>2, <2>2
<1> QED
  BY <1>2, <1>3, <1>4

\* What an open finds in a file of n blocks and a trailer.
LEMMA BlksAndTrailer ==
  ASSUME NEW n \in Nat, NEW t \in 0 .. BlkSz - 1
  PROVE  (n * BlkSz + t) \div BlkSz = n /\ (n * BlkSz + t) % BlkSz = t
<1>1. BlkSz \in Nat /\ BlkSz > 1
  BY ConstantTypes
<1> QED
  BY <1>1

LEMMA OpenedSizes ==
  ASSUME NEW sz \in Nat
  PROVE  /\ sz \div BlkSz \in Nat /\ sz % BlkSz \in 0 .. BlkSz - 1
         /\ sz = (sz \div BlkSz) * BlkSz + (sz % BlkSz)
<1>1. BlkSz \in Nat /\ BlkSz > 1
  BY ConstantTypes
<1> QED
  BY <1>1

\* A size in an uint32_t.
LEMMA Narrowed ==
  ASSUME NEW sz \in Nat
  PROVE  /\ sz % U32 \in Nat /\ sz % U32 <= sz
         /\ sz < U32 => sz % U32 = sz
<1>1. U32 \in Nat \ {0}
  BY FileAssumption
<1> QED
  BY <1>1

\* A smaller size has no more blocks.
LEMMA NoMoreBlocks ==
  ASSUME NEW m \in Nat, NEW n \in Nat, m <= n
  PROVE  m \div BlkSz <= n \div BlkSz
<1>1. BlkSz \in Nat /\ BlkSz > 1
  BY ConstantTypes
<1>2. PICK q \in Nat, r \in 0 .. BlkSz - 1 : q = m \div BlkSz /\ m = q * BlkSz + r
  BY OpenedSizes
<1>3. PICK p \in Nat, t \in 0 .. BlkSz - 1 : p = n \div BlkSz /\ n = p * BlkSz + t
  BY OpenedSizes
<1>4. ASSUME p < q PROVE FALSE
  <2>1. p * BlkSz + BlkSz <= q * BlkSz /\ p * BlkSz \in Nat /\ q * BlkSz \in Nat
    BY <1>4, MoreBytes
  <2> QED
    BY <1>1, <1>2, <1>3, <2>1
<1> QED
  BY <1>2, <1>3, <1>4

\* The offset of a block in an uint32_t: that of a block no later, and that of
\* the block itself when it fits.
LEMMA NarrowedOffset ==
  ASSUME NEW n \in Nat
  PROVE  /\ SeekBlk(n) \in 0 .. n
         /\ (n * BlkSz) % U32 = SeekBlk(n) * BlkSz
         /\ n * BlkSz < U32 => SeekBlk(n) = n
<1>1. BlkSz \in Nat /\ BlkSz > 1 /\ U32 \in Nat \ {0} /\ U32 % BlkSz = 0
  BY ConstantTypes, FileAssumption
<1>2. PICK u \in Nat \ {0} : U32 = u * BlkSz
  <2>1. U32 \div BlkSz \in Nat /\ U32 = (U32 \div BlkSz) * BlkSz + 0
    BY <1>1, OpenedSizes
  <2>2. PICK u \in Nat : U32 = u * BlkSz + 0
    BY <2>1
  <2>3. u # 0 /\ U32 = u * BlkSz
    BY <1>1, <2>2
  <2> QED
    BY <2>3
<1>3. PICK q \in Nat, w \in 0 .. u - 1 : n = q * u + w
  <2>1. n \div u \in Nat /\ n % u \in 0 .. u - 1 /\ n = (n \div u) * u + (n % u)
    BY <1>2
  <2> QED
    BY <2>1
<1>4. q * u \in Nat /\ w \in 0 .. n
  BY <1>2, <1>3
<1>5. n * BlkSz = q * U32 + w * BlkSz
  <2>1. (q * u + w) * BlkSz = q * (u * BlkSz) + w * BlkSz
    BY <1>1, <1>2, <1>3
  <2> QED
    BY <1>2, <1>3, <2>1
<1>6. w * BlkSz \in 0 .. U32 - 1
  <2>1. w * BlkSz + BlkSz <= u * BlkSz /\ w * BlkSz \in Nat /\ u * BlkSz \in Nat
    BY <1>2, <1>3, MoreBytes
  <2> QED
    BY <1>1, <1>2, <2>1
<1>7. (n * BlkSz) % U32 = w * BlkSz
  <2>1. PICK r \in 0 .. U32 - 1 : r = w * BlkSz
    BY <1>6
  <2>2. (q * U32 + r) % U32 = r
    BY <1>1, <1>3
  <2> QED
    BY <1>5, <2>1, <2>2
<1>8. (w * BlkSz + 0) \div BlkSz = w
  BY <1>1, <1>4, BlksAndTrailer
<1>9. w * BlkSz \in Nat /\ (w * BlkSz) \div BlkSz = w
  BY <1>1, <1>4, <1>8
<1>10. ASSUME n * BlkSz < U32 PROVE w = n
  <2>1. (n * BlkSz) % U32 = n * BlkSz
    BY <1>10, MoreBytes, Narrowed
  <2>2. (n * BlkSz + 0) \div BlkSz = n /\ n * BlkSz \in Nat
    BY <1>1, BlksAndTrailer, MoreBytes
  <2> QED
    BY <1>7, <1>9, <2>1, <2>2
<1>11. SeekBlk(n) = w
  BY <1>7, <1>9 DEF SeekBlk
<1> QED
  BY <1>4, <1>7, <1>10, <1>11

-----------------------------------------------------------------------------
(* The calls *)

LEMMA IInvInitially == Init => IInv
<1> SUFFICES ASSUME Init PROVE IInv
  OBVIOUS
<1>1. /\ arr = [past_end |-> BeginBlkNr, real_past_end |-> BeginBlkNr]
      /\ file = [sz |-> BeginBlkNr * BlkSz, blk |-> [b \in BlkNrs |-> Zeros]]
      /\ trailer_sz = 0 /\ mode = "open" /\ mem_based \in BOOLEAN
  BY DEF Init, NewArray
<1>2. /\ BeginBlkNr * BlkSz < BlkNrExhaust * BlkSz
      /\ BeginBlkNr * BlkSz \in 0 .. (MaxBlkNr + 1) * BlkSz
  <2>1. /\ BeginBlkNr * BlkSz \in Nat
        /\ BeginBlkNr * BlkSz + BlkSz <= BlkNrExhaust * BlkSz
        /\ BeginBlkNr * BlkSz <= (MaxBlkNr + 1) * BlkSz
        /\ (MaxBlkNr + 1) * BlkSz \in Nat
        /\ BlkNrExhaust * BlkSz \in Nat
    BY ConstantTypes, MoreBytes
  <2> QED
    BY <2>1, ConstantTypes
<1>3. arr \in Arrays /\ PointersOrdered(arr)
  BY <1>1, ConstantTypes DEF Arrays, PointersOrdered
<1>4. file \in [sz : 0 .. (MaxBlkNr + 1) * BlkSz, blk : [BlkNrs -> Values]]
  BY <1>1, <1>2 DEF Values
<1>5. trailer_sz \in 0 .. BlkSz - 1
  BY <1>1, ConstantTypes
<1> QED
  BY <1>1, <1>2, <1>3, <1>4, <1>5 DEF IInv, TypeOK

\* What the invariant says, in numbers.
LEMMA Numbers ==
  ASSUME IInv
  PROVE  /\ arr.past_end \in Nat /\ arr.real_past_end \in Nat
         /\ arr = [past_end |-> arr.past_end, real_past_end |-> arr.real_past_end]
         /\ BeginBlkNr <= arr.past_end /\ arr.past_end <= arr.real_past_end
         /\ arr.real_past_end < BlkNrExhaust
         /\ file.sz \in Nat /\ trailer_sz \in Nat /\ trailer_sz < BlkSz
         /\ file = [sz |-> file.sz, blk |-> file.blk]
         /\ file.blk \in [BlkNrs -> Values]
<1>1. arr \in [past_end : BeginBlkNr .. BlkNrExhaust - 1, real_past_end : BeginBlkNr .. BlkNrExhaust - 1]
  BY DEF IInv, TypeOK, Arrays
<1>2. file \in [sz : 0 .. (MaxBlkNr + 1) * BlkSz, blk : [BlkNrs -> Values]]
  BY DEF IInv, TypeOK
<1>3. arr.past_end <= arr.real_past_end /\ trailer_sz \in 0 .. BlkSz - 1
  BY DEF IInv, TypeOK, PointersOrdered
<1> QED
  BY <1>1, <1>2, <1>3, ConstantTypes

\* An open file, of any length before the last numbers, may be panicked.
LEMMA OpenKeeps ==
  ASSUME arr' \in Arrays, PointersOrdered(arr'),
         NEW sz \in Nat, NEW blk \in [BlkNrs -> Values], file' = [sz |-> sz, blk |-> blk],
         sz < BlkNrExhaust * BlkSz,
         trailer_sz' \in 0 .. BlkSz - 1, mem_based' \in BOOLEAN, mode' \in {"open", "broken"}
  PROVE  IInv'
<1>1. BlkNrExhaust * BlkSz <= (MaxBlkNr + 1) * BlkSz
      /\ BlkNrExhaust * BlkSz \in Nat /\ (MaxBlkNr + 1) * BlkSz \in Nat
  BY ConstantTypes, MoreBytes
<1>2. sz \in 0 .. (MaxBlkNr + 1) * BlkSz
  BY <1>1
<1>3. file' \in [sz : 0 .. (MaxBlkNr + 1) * BlkSz, blk : [BlkNrs -> Values]]
  BY <1>2
<1>4. TypeOK'
  BY <1>3 DEF TypeOK
<1> QED
  BY <1>4 DEF IInv

\* The pointers alone move, inside their order.
LEMMA ArrayMoves ==
  ASSUME IInv, mode = "open", UNCHANGED <<file, trailer_sz, mode, mem_based>>,
         NEW p \in Nat, NEW r \in Nat, arr' = [past_end |-> p, real_past_end |-> r],
         BeginBlkNr <= p, p <= r, r < BlkNrExhaust
  PROVE  IInv'
<1>1. arr' \in Arrays /\ PointersOrdered(arr')
  BY ConstantTypes DEF Arrays, PointersOrdered
<1>2. file.sz < BlkNrExhaust * BlkSz
  BY DEF IInv
<1> QED
  BY <1>1, <1>2, Numbers, OpenKeeps DEF IInv, TypeOK

LEMMA GrowInSlackKeeps ==
  ASSUME IInv, NEW cnt \in BlkCnts \ {0}, GrowInSlack(cnt)
  PROVE  IInv' /\ arr' = [arr EXCEPT !.past_end = @ + cnt]
<1>1. /\ mode = "open" /\ UNCHANGED <<file, trailer_sz, mode, mem_based>>
      /\ arr.real_past_end - arr.past_end >= cnt
      /\ arr' = [arr EXCEPT !.past_end = @ + cnt]
  BY DEF GrowInSlack, FitsInSlack, Slack, GrownInSlack
<1>2. cnt \in Nat
  BY ConstantTypes
<1>3. arr' = [past_end |-> arr.past_end + cnt, real_past_end |-> arr.real_past_end]
  BY <1>1, Numbers
<1>4. /\ arr.past_end + cnt \in Nat /\ BeginBlkNr <= arr.past_end + cnt
      /\ arr.past_end + cnt <= arr.real_past_end
  BY <1>1, <1>2, Numbers, ConstantTypes
<1> QED
  BY <1>1, <1>3, <1>4, Numbers, ArrayMoves

LEMMA ShrinkKeeps ==
  ASSUME IInv, NEW cnt \in BlkCnts \ {0}, Shrink(cnt)
  PROVE  IInv' /\ arr'.past_end \in BeginBlkNr .. arr.past_end - 1
<1>1. /\ mode = "open" /\ UNCHANGED <<file, trailer_sz, mode, mem_based>>
      /\ cnt <= arr.past_end - BeginBlkNr
      /\ arr' = [past_end |-> arr.past_end - cnt, real_past_end |-> arr.real_past_end - 0]
  BY DEF Shrink, BlkCntOf, Shrunk
<1>2. cnt \in Nat \ {0}
  BY ConstantTypes
<1>3. /\ arr.past_end - cnt \in BeginBlkNr .. arr.past_end - 1
      /\ arr.past_end - cnt \in Nat
      /\ arr.past_end - cnt <= arr.real_past_end
      /\ arr.real_past_end - 0 = arr.real_past_end
  BY <1>1, <1>2, Numbers, ConstantTypes
<1>4. IInv'
  BY <1>1, <1>3, Numbers, ArrayMoves, ConstantTypes
<1> QED
  BY <1>1, <1>3, <1>4

LEMMA GrowInFileKeeps ==
  ASSUME IInv, NEW cnt \in BlkCnts \ {0}, GrowInFile(cnt)
  PROVE  /\ IInv'
         /\ arr'.past_end = arr.past_end + cnt
         /\ file'.blk = file.blk
<1> DEFINE req == cnt - (arr.real_past_end - arr.past_end)
           asked == (arr.past_end + req) * BlkSz
<1>1. /\ mode = "open" /\ UNCHANGED <<trailer_sz, mode, mem_based>>
      /\ ~ (arr.real_past_end - arr.past_end >= cnt)
      /\ ~ (arr.real_past_end + req >= BlkNrExhaust)
      /\ file' = [file EXCEPT !.sz = Larger(@, asked)]
      /\ arr' = [past_end |-> arr.past_end + cnt, real_past_end |-> arr.real_past_end + req]
  BY DEF GrowInFile, FitsInSlack, Slack, Exhausts, Request, GrownFile, Extended, Grown
<1>2. cnt \in Nat /\ BlkNrExhaust \in Nat
  BY ConstantTypes
<1>3. /\ req \in Nat /\ arr.past_end + req \in Nat
      /\ arr.past_end + req < BlkNrExhaust
      /\ arr.past_end + cnt \in Nat /\ arr.real_past_end + req = arr.past_end + cnt
      /\ arr.past_end + cnt < BlkNrExhaust /\ BeginBlkNr <= arr.past_end + cnt
  BY <1>1, <1>2, Numbers, ConstantTypes
<1>4. asked \in Nat /\ asked < BlkNrExhaust * BlkSz
  <2> DEFINE n == arr.past_end + req
  <2>1. n \in Nat /\ n < BlkNrExhaust
    BY <1>3
  <2> HIDE DEF n
  <2>2. n * BlkSz \in Nat /\ n * BlkSz + BlkSz <= BlkNrExhaust * BlkSz /\ BlkNrExhaust * BlkSz \in Nat
    BY <2>1, <1>2, MoreBytes
  <2>3. n * BlkSz < BlkNrExhaust * BlkSz
    BY <2>2, ConstantTypes
  <2> QED
    BY <2>2, <2>3 DEF n
<1> HIDE DEF asked
<1>5. /\ Larger(file.sz, asked) \in Nat
      /\ Larger(file.sz, asked) < BlkNrExhaust * BlkSz
  BY <1>1, <1>4, Numbers DEF Larger, IInv
<1>6. file' = [sz |-> Larger(file.sz, asked), blk |-> file.blk]
  BY <1>1, Numbers
<1>7. arr' \in Arrays /\ PointersOrdered(arr')
  <2>1. arr' = [past_end |-> arr.past_end + cnt, real_past_end |-> arr.past_end + cnt]
    BY <1>1, <1>3
  <2> QED
    BY <2>1, <1>2, <1>3, ConstantTypes DEF Arrays, PointersOrdered
<1>8. IInv'
  BY <1>1, <1>5, <1>6, <1>7, Numbers, OpenKeeps DEF IInv, TypeOK
<1> QED
  BY <1>1, <1>6, <1>8

\* The file cut where the array ends has the blocks of the array.
LEMMA TruncatedFacts ==
  ASSUME IInv
  PROVE  /\ NewFileSz \in Nat
         /\ NewFileSz + BlkSz <= BlkNrExhaust * BlkSz
         /\ Truncated(file, NewFileSz).sz = NewFileSz
         /\ Truncated(file, NewFileSz).blk \in [BlkNrs -> Values]
         /\ Truncated(file, NewFileSz) = [sz |-> NewFileSz, blk |-> Truncated(file, NewFileSz).blk]
         /\ Fits(arr) =>
              /\ NewFileSz = arr.past_end * BlkSz
              /\ \A b \in BlksOfArray(arr) : Truncated(file, NewFileSz).blk[b] = file.blk[b]
<1>1. arr.past_end \in Nat /\ arr.past_end < BlkNrExhaust /\ BlkNrExhaust \in Nat
  BY Numbers, ConstantTypes
<1>2. /\ NewFileSz \in Nat /\ NewFileSz + BlkSz <= BlkNrExhaust * BlkSz
      /\ Fits(arr) => NewFileSz = arr.past_end * BlkSz
  <2>1. PICK w \in 0 .. arr.past_end : NewFileSz = w * BlkSz /\ (Fits(arr) => w = arr.past_end)
    <3>1. /\ SeekBlk(arr.past_end) \in 0 .. arr.past_end
          /\ NewFileSz = SeekBlk(arr.past_end) * BlkSz
          /\ Fits(arr) => SeekBlk(arr.past_end) = arr.past_end
      BY <1>1, NarrowedOffset DEF NewFileSz, Fits
    <3> QED
      BY <3>1
  <2>2. w \in Nat /\ w < BlkNrExhaust
    BY <1>1
  <2>3. w * BlkSz \in Nat /\ w * BlkSz + BlkSz <= BlkNrExhaust * BlkSz
    BY <1>1, <2>2, MoreBytes
  <2>4. NewFileSz = w * BlkSz
    BY <2>1
  <2>5. NewFileSz \in Nat /\ NewFileSz + BlkSz <= BlkNrExhaust * BlkSz
    BY ONLY <2>3, <2>4
  <2>6. ASSUME Fits(arr) PROVE NewFileSz = arr.past_end * BlkSz
    BY <2>1, <2>6
  <2> QED
    BY <2>5, <2>6
<1>3. Truncated(file, NewFileSz) =
        [sz |-> NewFileSz, blk |-> [b \in BlkNrs |-> IF b * BlkSz < NewFileSz THEN file.blk[b] ELSE Zeros]]
  BY DEF Truncated
<1>4. Truncated(file, NewFileSz).blk = [b \in BlkNrs |-> IF b * BlkSz < NewFileSz THEN file.blk[b] ELSE Zeros]
  BY <1>3
<1>5. Truncated(file, NewFileSz).blk \in [BlkNrs -> Values]
  BY <1>4, Numbers DEF Values
<1>6. ASSUME Fits(arr), NEW b \in BlksOfArray(arr) PROVE b \in BlkNrs /\ b * BlkSz < NewFileSz
  <2>1. b \in Nat /\ b < arr.past_end /\ b \in BlkNrs
    BY <1>1, ConstantTypes DEF BlksOfArray
  <2>2. b * BlkSz \in Nat /\ b * BlkSz + BlkSz <= arr.past_end * BlkSz
    BY <2>1, <1>1, MoreBytes
  <2> QED
    BY <2>1, <2>2, <1>1, <1>2, <1>6, MoreBytes, ConstantTypes
<1>7. Fits(arr) => \A b \in BlksOfArray(arr) : Truncated(file, NewFileSz).blk[b] = file.blk[b]
  BY <1>4, <1>6
<1>8. Truncated(file, NewFileSz).sz = NewFileSz
  BY <1>3
<1>9. Truncated(file, NewFileSz) = [sz |-> NewFileSz, blk |-> Truncated(file, NewFileSz).blk]
  BY <1>3, <1>4
<1> QED
  BY <1>2, <1>5, <1>7, <1>8, <1>9

LEMMA ReleasedFacts ==
  ASSUME IInv, arr' = Released(arr, Slack(arr))
  PROVE  /\ arr'.past_end = arr.past_end
         /\ arr' \in Arrays /\ PointersOrdered(arr')
<1>1. arr' = [arr EXCEPT !.real_past_end = @ - (arr.real_past_end - arr.past_end)]
  BY DEF Released, Slack
<1>2. arr' = [past_end |-> arr.past_end, real_past_end |-> arr.past_end]
  BY <1>1, Numbers
<1> QED
  BY <1>2, Numbers, ConstantTypes DEF Arrays, PointersOrdered

LEMMA ReleaseFileKeeps ==
  ASSUME IInv, ReleaseFile
  PROVE  /\ IInv'
         /\ arr'.past_end = arr.past_end
         /\ Fits(arr) => \A b \in BlksOfArray(arr) : file'.blk[b] = file.blk[b]
<1>1. /\ mode = "open" /\ UNCHANGED <<trailer_sz, mode, mem_based>>
      /\ file' = Truncated(file, NewFileSz)
      /\ arr' = Released(arr, Slack(arr))
  BY DEF ReleaseFile
<1>2. NewFileSz < BlkNrExhaust * BlkSz
  <2>1. BlkNrExhaust * BlkSz \in Nat
    BY ConstantTypes, MoreBytes
  <2> QED
    BY <2>1, TruncatedFacts, ConstantTypes
<1>3. IInv'
  BY <1>1, <1>2, TruncatedFacts, ReleasedFacts, OpenKeeps DEF IInv, TypeOK
<1> QED
  BY <1>1, <1>3, TruncatedFacts, ReleasedFacts

\* A closed file is its blocks and its trailer, to the byte.
LEMMA CloseKeeps ==
  ASSUME IInv, Close
  PROVE  /\ IInv'
         /\ arr'.past_end = arr.past_end
         /\ Fits(arr) => \A b \in BlksOfArray(arr) : file'.blk[b] = file.blk[b]
<1> DEFINE t == Truncated(file, NewFileSz)
<1>1. /\ mode' = "closed" /\ UNCHANGED <<trailer_sz, mem_based>>
      /\ file' = Appended(t, trailer_sz)
      /\ arr' = Released(arr, Slack(arr))
  BY DEF Close
<1>2. /\ t.sz = NewFileSz /\ t.blk \in [BlkNrs -> Values] /\ NewFileSz \in Nat
      /\ NewFileSz + BlkSz <= BlkNrExhaust * BlkSz
      /\ Fits(arr) => NewFileSz = arr.past_end * BlkSz
      /\ Fits(arr) => \A b \in BlksOfArray(arr) : t.blk[b] = file.blk[b]
  BY TruncatedFacts
<1> HIDE DEF t
<1> DEFINE new_blk == [b \in BlkNrs |-> IF b * BlkSz < NewFileSz + trailer_sz
                                         /\ (b + 1) * BlkSz > NewFileSz /\ trailer_sz > 0
                                      THEN Junk ELSE t.blk[b]]
<1>3. file' = [sz |-> NewFileSz + trailer_sz, blk |-> new_blk]
  BY <1>1, <1>2 DEF Appended
<1>4. new_blk \in [BlkNrs -> Values]
  BY <1>2 DEF Values
<1>5. ASSUME Fits(arr), NEW b \in BlksOfArray(arr) PROVE new_blk[b] = file.blk[b]
  <2>1. b \in Nat /\ b < arr.past_end /\ b \in BlkNrs
    BY Numbers, ConstantTypes DEF BlksOfArray
  <2>2. (b + 1) * BlkSz \in Nat /\ (b + 1) * BlkSz <= arr.past_end * BlkSz
    <3>1. b + 1 \in Nat /\ b + 1 <= arr.past_end /\ arr.past_end \in Nat
      BY <2>1, Numbers
    <3> QED
      BY <3>1, MoreBytes
  <2>3. ~ ((b + 1) * BlkSz > NewFileSz)
    BY <1>2, <1>5, <2>2
  <2> QED
    BY <1>2, <1>5, <2>1, <2>3
<1> HIDE DEF new_blk
<1>6. /\ NewFileSz + trailer_sz \in Nat /\ BlkNrExhaust * BlkSz \in Nat
      /\ (MaxBlkNr + 1) * BlkSz \in Nat /\ BlkNrExhaust * BlkSz <= (MaxBlkNr + 1) * BlkSz
      /\ NewFileSz + trailer_sz < BlkNrExhaust * BlkSz
  <2>1. /\ BlkNrExhaust * BlkSz \in Nat /\ (MaxBlkNr + 1) * BlkSz \in Nat
        /\ BlkNrExhaust * BlkSz <= (MaxBlkNr + 1) * BlkSz
    BY ConstantTypes, MoreBytes
  <2> QED
    BY <2>1, <1>2, Numbers, ConstantTypes
<1>7. file' \in [sz : 0 .. (MaxBlkNr + 1) * BlkSz, blk : [BlkNrs -> Values]]
  BY <1>3, <1>4, <1>6
<1>8. arr'.past_end = arr.past_end /\ arr' \in Arrays /\ PointersOrdered(arr')
  BY <1>1, ReleasedFacts
<1>9. TypeOK'
  BY <1>1, <1>7, <1>8 DEF IInv, TypeOK
<1>10. /\ file'.sz = NewFileSz' + trailer_sz'
       /\ file'.sz < BlkNrExhaust * BlkSz
  BY <1>1, <1>3, <1>6, <1>8 DEF NewFileSz
<1> QED
  BY <1>1, <1>3, <1>5, <1>8, <1>9, <1>10 DEF IInv

\* The trailer is less than a block, and so fits in the numbers that are left.
LEMMA PanicCloseKeeps ==
  ASSUME IInv, PanicClose
  PROVE  IInv'
<1>1. /\ mode = "open" /\ mode' = "panicked" /\ UNCHANGED <<arr, trailer_sz, mem_based>>
      /\ file' = Appended(file, trailer_sz)
  BY DEF PanicClose
<1> DEFINE new_blk == [b \in BlkNrs |-> IF b * BlkSz < file.sz + trailer_sz
                                         /\ (b + 1) * BlkSz > file.sz /\ trailer_sz > 0
                                      THEN Junk ELSE file.blk[b]]
<1>2. file' = [sz |-> file.sz + trailer_sz, blk |-> new_blk]
  BY <1>1 DEF Appended
<1>3. new_blk \in [BlkNrs -> Values]
  BY Numbers DEF Values
<1> HIDE DEF new_blk
<1>4. /\ (BlkNrExhaust + 1) * BlkSz = BlkNrExhaust * BlkSz + BlkSz
      /\ (BlkNrExhaust + 1) * BlkSz <= (MaxBlkNr + 1) * BlkSz
      /\ BlkNrExhaust * BlkSz \in Nat /\ (MaxBlkNr + 1) * BlkSz \in Nat
  <2>1. BlkNrExhaust + 1 \in Nat /\ MaxBlkNr + 1 \in Nat /\ BlkNrExhaust + 1 <= MaxBlkNr + 1
    BY ConstantTypes
  <2> QED
    BY <2>1, ConstantTypes, MoreBytes
<1>5. file.sz < BlkNrExhaust * BlkSz
  BY <1>1 DEF IInv
<1>6. /\ file.sz + trailer_sz \in Nat /\ file.sz + trailer_sz < (BlkNrExhaust + 1) * BlkSz
      /\ file.sz + trailer_sz \in 0 .. (MaxBlkNr + 1) * BlkSz
  BY <1>4, <1>5, Numbers, ConstantTypes
<1>7. file' \in [sz : 0 .. (MaxBlkNr + 1) * BlkSz, blk : [BlkNrs -> Values]]
  BY <1>2, <1>3, <1>6
<1>8. TypeOK'
  BY <1>1, <1>7 DEF IInv, TypeOK
<1> QED
  BY <1>1, <1>2, <1>6, <1>8 DEF IInv

LEMMA OpenFileKeeps ==
  ASSUME IInv, NEW from, Open(from)
  PROVE  /\ IInv'
         /\ from = "closed" /\ Fits(arr) => arr'.past_end = arr.past_end /\ trailer_sz' = trailer_sz
<1> DEFINE sz == file.sz % U32
           n == sz \div BlkSz
           t == sz % BlkSz
<1>1. /\ mode = from /\ mode' = "open" /\ UNCHANGED <<file, mem_based>>
      /\ file.sz \div BlkSz < BlkNrExhaust /\ n >= BeginBlkNr
      /\ arr' = [past_end |-> n, real_past_end |-> n]
      /\ trailer_sz' = t
  BY DEF Open, NewArray
<1>2. sz \in Nat /\ sz <= file.sz
  BY Numbers, Narrowed
<1>3. n \in Nat /\ t \in 0 .. BlkSz - 1 /\ n <= file.sz \div BlkSz
  BY <1>2, Numbers, OpenedSizes, NoMoreBlocks
<1>4. ASSUME from = "closed", Fits(arr) PROVE n = arr.past_end /\ t = trailer_sz
  <2>1. arr.past_end \in Nat /\ arr.past_end * BlkSz < U32 /\ trailer_sz \in 0 .. BlkSz - 1
    BY <1>4, Numbers DEF IInv, TypeOK, Fits
  <2>2. file.sz = arr.past_end * BlkSz + trailer_sz
    BY <1>1, <1>4, TruncatedFacts DEF IInv
  <2>3. file.sz < U32
    <3>1. PICK u \in Nat : U32 = u * BlkSz
      <4>1. U32 \in Nat /\ U32 \div BlkSz \in Nat /\ U32 = (U32 \div BlkSz) * BlkSz + (U32 % BlkSz)
        BY FileAssumption, OpenedSizes
      <4>2. U32 = (U32 \div BlkSz) * BlkSz
        BY <4>1, FileAssumption, ConstantTypes
      <4> QED
        BY <4>1, <4>2
    <3>2. arr.past_end < u
      <4>1. ASSUME u <= arr.past_end PROVE FALSE
        <5>1. PICK p \in Nat : p = arr.past_end
          BY <2>1
        <5>2. u * BlkSz <= p * BlkSz
          BY <3>1, <4>1, <5>1, MoreBytes
        <5>3. u * BlkSz \in Nat /\ p * BlkSz \in Nat /\ p * BlkSz < u * BlkSz
          BY <2>1, <3>1, <5>1, MoreBytes
        <5> QED
          BY <5>2, <5>3
      <4> QED
        BY <2>1, <3>1, <4>1
    <3>3. arr.past_end * BlkSz + BlkSz <= u * BlkSz /\ arr.past_end * BlkSz \in Nat /\ u * BlkSz \in Nat
      BY <2>1, <3>1, <3>2, MoreBytes
    <3> QED
      BY <2>1, <2>2, <3>1, <3>3, ConstantTypes
  <2>4. sz = arr.past_end * BlkSz + trailer_sz
    BY <2>2, <2>3, Numbers, Narrowed
  <2> QED
    BY <2>1, <2>4, BlksAndTrailer
<1>5. file.sz < BlkNrExhaust * BlkSz
  <2>1. PICK k \in Nat, r \in 0 .. BlkSz - 1 : k = file.sz \div BlkSz /\ file.sz = k * BlkSz + r
    BY Numbers, OpenedSizes
  <2>2. k < BlkNrExhaust /\ BlkNrExhaust \in Nat
    BY <1>1, <2>1, ConstantTypes
  <2>3. k * BlkSz \in Nat /\ k * BlkSz + BlkSz <= BlkNrExhaust * BlkSz /\ BlkNrExhaust * BlkSz \in Nat
    BY <2>1, <2>2, MoreBytes
  <2> QED
    BY <2>1, <2>3, ConstantTypes
<1> HIDE DEF sz, n, t
<1>6. n < BlkNrExhaust
  <2>1. PICK k \in Nat : k = file.sz \div BlkSz
    BY Numbers, OpenedSizes
  <2> QED
    BY <1>1, <1>3, <2>1, ConstantTypes
<1>7. arr' \in Arrays /\ PointersOrdered(arr')
  BY <1>1, <1>3, <1>6, ConstantTypes DEF Arrays, PointersOrdered
<1>8. IInv'
  BY <1>1, <1>3, <1>5, <1>7, Numbers, OpenKeeps DEF IInv, TypeOK
<1> QED
  BY <1>1, <1>4, <1>8

LEMMA WriteBlkKeeps ==
  ASSUME IInv, NEW b \in BlkNrs, NEW v \in Data, WriteBlk(b, v)
  PROVE  /\ IInv'
         /\ arr' = arr
         /\ b \in BlksOfArray(arr)
         /\ Fits(arr) => file'.blk = [file.blk EXCEPT ![b] = v]
<1>1. /\ mode = "open" /\ b \in BlksOfArray(arr) /\ UNCHANGED <<arr, trailer_sz, mode, mem_based>>
      /\ file' = [[file EXCEPT !.sz = Larger(@, (SeekBlk(b) + 1) * BlkSz)] EXCEPT !.blk[SeekBlk(b)] = v]
  BY DEF WriteBlk, Extended
<1>2. /\ b \in Nat /\ b < arr.past_end /\ arr.past_end \in Nat
      /\ arr.past_end < BlkNrExhaust /\ BlkNrExhaust \in Nat
  BY <1>1, Numbers, ConstantTypes DEF BlksOfArray
<1>3. PICK w \in 0 .. b : w = SeekBlk(b) /\ (b * BlkSz < U32 => w = b)
  <2>1. SeekBlk(b) \in 0 .. b /\ (b * BlkSz < U32 => SeekBlk(b) = b)
    BY <1>2, NarrowedOffset
  <2> QED
    BY <2>1
<1>4. Fits(arr) => w = b
  <2>1. b * BlkSz \in Nat /\ b * BlkSz <= arr.past_end * BlkSz /\ arr.past_end * BlkSz \in Nat
    BY <1>2, MoreBytes
  <2>2. U32 \in Nat
    BY FileAssumption
  <2> QED
    BY <1>3, <2>1, <2>2 DEF Fits
<1> DEFINE end == (w + 1) * BlkSz
<1>5. end \in Nat /\ end < BlkNrExhaust * BlkSz
  <2>1. PICK n \in Nat : n = w + 1 /\ n < BlkNrExhaust
    BY <1>2, <1>3
  <2>2. n * BlkSz \in Nat /\ n * BlkSz + BlkSz <= BlkNrExhaust * BlkSz /\ BlkNrExhaust * BlkSz \in Nat
    BY <1>2, <2>1, MoreBytes
  <2>3. n * BlkSz < BlkNrExhaust * BlkSz
    BY <2>2, ConstantTypes
  <2> QED
    BY <2>1, <2>2, <2>3
<1> HIDE DEF end
<1>6. file' = [sz |-> Larger(file.sz, end), blk |-> [file.blk EXCEPT ![w] = v]]
  BY <1>1, <1>3, Numbers DEF end
<1>7. [file.blk EXCEPT ![w] = v] \in [BlkNrs -> Values]
  BY Numbers DEF Values
<1>8. Larger(file.sz, end) \in Nat /\ Larger(file.sz, end) < BlkNrExhaust * BlkSz
  BY <1>1, <1>5, Numbers DEF Larger, IInv
<1>9. IInv'
  BY <1>1, <1>6, <1>7, <1>8, OpenKeeps DEF IInv, TypeOK
<1>10. file'.blk = [file.blk EXCEPT ![w] = v]
  BY <1>6
<1>11. ASSUME Fits(arr) PROVE file'.blk = [file.blk EXCEPT ![b] = v]
  BY <1>4, <1>10, <1>11
<1> QED
  BY <1>1, <1>9, <1>11

\* A call that throws leaves the array, but maybe not the file, as it was.
LEMMA ThrowKeeps ==
  ASSUME IInv, TruncateThrows
  PROVE  IInv' /\ arr' = arr
<1>1. /\ mode = "open" /\ mode' = "broken" /\ UNCHANGED <<arr, trailer_sz, mem_based>>
      /\ file' = file \/ file' = Truncated(file, NewFileSz)
  BY DEF TruncateThrows
<1>2. PICK sz \in Nat, blk \in [BlkNrs -> Values] :
        file' = [sz |-> sz, blk |-> blk] /\ sz < BlkNrExhaust * BlkSz
  <2>1. BlkNrExhaust * BlkSz \in Nat
    BY ConstantTypes, MoreBytes
  <2>2. file.sz < BlkNrExhaust * BlkSz /\ NewFileSz < BlkNrExhaust * BlkSz
    BY <1>1, <2>1, TruncatedFacts, ConstantTypes DEF IInv
  <2> QED
    BY <1>1, <2>2, Numbers, TruncatedFacts
<1>3. IInv'
  BY <1>1, <1>2, OpenKeeps DEF IInv, TypeOK
<1> QED
  BY <1>1, <1>3

\* A stream breaks, or the trailer in memory is another.
LEMMA OthersKeep ==
  ASSUME IInv, (\E b \in BlkNrs : WriteThrows(b)) \/ (\E n \in 0 .. BlkSz - 1 : WriteTrailer(n))
  PROVE  IInv' /\ UNCHANGED <<arr, file>>
<1>1. /\ mode = "open" /\ UNCHANGED <<arr, file, mem_based>>
      /\ mode' \in {"open", "broken"}
      /\ trailer_sz' \in 0 .. BlkSz - 1
  BY DEF WriteThrows, WriteTrailer, IInv, TypeOK
<1>2. file.sz < BlkNrExhaust * BlkSz
  BY <1>1 DEF IInv
<1>3. IInv'
  BY <1>1, <1>2, Numbers, OpenKeeps DEF IInv, TypeOK
<1> QED
  BY <1>1, <1>3

LEMMA IInvKept ==
  ASSUME IInv, [Next]_vars
  PROVE  IInv'
<1>1. CASE \E cnt \in BlkCnts \ {0} : GrowInSlack(cnt)
  BY <1>1, GrowInSlackKeeps
<1>2. CASE \E cnt \in BlkCnts \ {0} : GrowInFile(cnt)
  BY <1>2, GrowInFileKeeps
<1>3. CASE \E cnt \in BlkCnts \ {0} : Shrink(cnt)
  BY <1>3, ShrinkKeeps
<1>4. CASE \E b \in BlkNrs : \E v \in Data : WriteBlk(b, v)
  BY <1>4, WriteBlkKeeps
<1>5. CASE (\E b \in BlkNrs : WriteThrows(b)) \/ (\E n \in 0 .. BlkSz - 1 : WriteTrailer(n))
  BY <1>5, OthersKeep
<1>11. CASE TruncateThrows
  BY <1>11, ThrowKeeps
<1>6. CASE ReleaseFile
  BY <1>6, ReleaseFileKeeps
<1>7. CASE Close
  BY <1>7, CloseKeeps
<1>8. CASE PanicClose
  BY <1>8, PanicCloseKeeps
<1>9. CASE Open("closed") \/ Open("panicked")
  BY <1>9, OpenFileKeeps
<1>10. CASE UNCHANGED vars
  BY <1>10 DEF vars, IInv, TypeOK, Arrays, PointersOrdered, NewFileSz
<1> QED
  BY <1>1, <1>2, <1>3, <1>4, <1>5, <1>6, <1>7, <1>8, <1>9, <1>10, <1>11 DEF Next

-----------------------------------------------------------------------------
(***************************************************************************)
(* The asserts of block_array.cpp on the pointers, and that no block number *)
(* is exhausted, for any calls.                                            *)
(***************************************************************************)
THEOREM FileArrayTypes == Spec => []TypeOK
<1>1. IInv => TypeOK
  BY DEF IInv
<1> QED
  BY IInvInitially, IInvKept, <1>1, PTL DEF Spec

(***************************************************************************)
(* FileBlockArray::close leaves a file where an open finds the array to end *)
(* where it did and a trailer of the same size, and takes nothing of one   *)
(* for the other, if an uint32_t can tell the end of the array.            *)
(***************************************************************************)
THEOREM FileReopens == Spec => ReopenFindsTheSame
<1>1. ASSUME IInv, [Next]_vars
      PROVE  [mode = "closed" /\ mode' = "open" /\ Fits(arr) =>
                arr'.past_end = arr.past_end /\ trailer_sz' = trailer_sz]_vars
  <2>1. SUFFICES ASSUME Next, mode = "closed", mode' = "open", Fits(arr)
                 PROVE  arr'.past_end = arr.past_end /\ trailer_sz' = trailer_sz
    BY <1>1
  <2>2. Open("closed")
    BY <2>1 DEF Next, GrowInSlack, GrowInFile, Shrink, WriteTrailer, WriteThrows, WriteBlk,
                ReleaseFile, Close, TruncateThrows, PanicClose, Open
  <2> QED
    BY <1>1, <2>1, <2>2, OpenFileKeeps
<1> QED
  BY IInvInitially, IInvKept, <1>1, PTL DEF Spec, ReopenFindsTheSame

-----------------------------------------------------------------------------
(* The abstract space *)

Content == [b \in BlksOfArray(arr) |-> file.blk[b]]
ReadContent == [b \in BlksOfArray(arr) |-> ContentOf(b)]

\* While the array fits, each block is read where it is.
LEMMA ReadWhereTheyAre ==
  ASSUME NEW a, a.past_end \in Nat, Fits(a), NEW b \in BlksOfArray(a)
  PROVE  SeekBlk(b) = b
<1>1. b \in Nat /\ b <= a.past_end
  BY ConstantTypes DEF BlksOfArray
<1>2. b * BlkSz \in Nat /\ b * BlkSz <= a.past_end * BlkSz /\ a.past_end * BlkSz \in Nat /\ U32 \in Nat
  BY <1>1, MoreBytes, FileAssumption
<1>3. b * BlkSz < U32
  BY <1>2 DEF Fits
<1> QED
  BY <1>1, <1>3, NarrowedOffset

LEMMA ReadContentIs ==
  ASSUME IInv, IInv'
  PROVE  /\ Fits(arr) => ReadContent = Content
         /\ Fits(arr') => ReadContent' = Content'
<1>1. arr.past_end \in Nat /\ arr'.past_end \in Nat
  BY Numbers, ConstantTypes DEF IInv, TypeOK, Arrays
<1>2. ASSUME Fits(arr) PROVE ReadContent = Content
  BY <1>1, <1>2, ReadWhereTheyAre DEF ReadContent, Content, ContentOf
<1>3. ASSUME Fits(arr') PROVE ReadContent' = Content'
  <2>1. \A b \in BlksOfArray(arr') : SeekBlk(b) = b
    BY <1>1, <1>3, ReadWhereTheyAre
  <2>2. ReadContent' = [b \in BlksOfArray(arr') |-> file'.blk[SeekBlk(b)]]
    BY DEF ReadContent, ContentOf, BlksOfArray, SeekBlk
  <2>3. Content' = [b \in BlksOfArray(arr') |-> file'.blk[b]]
    BY DEF Content, BlksOfArray
  <2> QED
    BY <2>1, <2>2, <2>3
<1> QED
  BY <1>2, <1>3

\* The content of an array is blocks of values, one for each of its numbers.
LEMMA ContentFacts ==
  ASSUME IInv
  PROVE  /\ Content \in Space!Contents(arr.past_end)
         /\ BlksOfArray(arr) = BeginBlkNr .. arr.past_end - 1
         /\ BlksOfArray(arr) \subseteq BlkNrs
<1>1. BlksOfArray(arr) = BeginBlkNr .. arr.past_end - 1
  BY DEF BlksOfArray
<1>2. BlksOfArray(arr) \subseteq BlkNrs
  BY <1>1, Numbers, ConstantTypes
<1> QED
  BY <1>1, <1>2, Numbers DEF Content, Space!Contents

LEMMA ContentFactsNext ==
  ASSUME IInv'
  PROVE  /\ Content' \in Space!Contents(arr'.past_end)
         /\ Content' = [b \in BeginBlkNr .. arr'.past_end - 1 |-> file'.blk[b]]
<1>1. /\ arr'.past_end \in Nat /\ BeginBlkNr <= arr'.past_end
      /\ arr'.past_end < BlkNrExhaust
      /\ file'.blk \in [BlkNrs -> Values]
  <2>1. arr' \in [past_end : BeginBlkNr .. BlkNrExhaust - 1, real_past_end : BeginBlkNr .. BlkNrExhaust - 1]
    BY DEF IInv, TypeOK, Arrays
  <2>2. file' \in [sz : 0 .. (MaxBlkNr + 1) * BlkSz, blk : [BlkNrs -> Values]]
    BY DEF IInv, TypeOK
  <2> QED
    BY <2>1, <2>2, ConstantTypes
<1>2. Content' = [b \in BeginBlkNr .. arr'.past_end - 1 |-> file'.blk[b]]
  BY DEF Content, BlksOfArray
<1>3. BeginBlkNr .. arr'.past_end - 1 \subseteq BlkNrs
  BY <1>1, ConstantTypes
<1> QED
  BY <1>1, <1>2, <1>3 DEF Space!Contents

\* The blocks that both arrays have are as they were.
LEMMA KeptUpTo ==
  ASSUME IInv, IInv', NEW n \in Nat, n <= arr.past_end, n <= arr'.past_end,
         \A b \in BeginBlkNr .. n - 1 : file'.blk[b] = file.blk[b]
  PROVE  \A b \in BeginBlkNr .. n - 1 : Content'[b] = Content[b]
<1> SUFFICES ASSUME NEW b \in BeginBlkNr .. n - 1 PROVE Content'[b] = Content[b]
  OBVIOUS
<1>1. b \in BeginBlkNr .. arr.past_end - 1 /\ b \in BeginBlkNr .. arr'.past_end - 1
  <2>1. arr.past_end \in Nat /\ arr'.past_end \in Nat
    BY Numbers DEF IInv, TypeOK, Arrays
  <2> QED
    BY <2>1, ConstantTypes
<1>2. Content[b] = file.blk[b]
  BY <1>1 DEF Content, BlksOfArray
<1>3. Content'[b] = file'.blk[b]
  BY <1>1, ContentFactsNext
<1> QED
  BY <1>2, <1>3

\* The array is as it was to its user.
LEMMA ContentKept ==
  ASSUME IInv, IInv', arr'.past_end = arr.past_end,
         \A b \in BlksOfArray(arr) : file'.blk[b] = file.blk[b]
  PROVE  UNCHANGED <<arr.past_end, Content>>
<1>1. Content = [b \in BeginBlkNr .. arr.past_end - 1 |-> file.blk[b]]
  BY DEF Content, BlksOfArray
<1>2. Content' = [b \in BeginBlkNr .. arr.past_end - 1 |-> file'.blk[b]]
  BY ContentFactsNext
<1>3. \A b \in BeginBlkNr .. arr.past_end - 1 : file'.blk[b] = file.blk[b]
  BY DEF BlksOfArray
<1>4. Content' = Content
  BY <1>1, <1>2, <1>3
<1> QED
  BY <1>4

LEMMA GrowMaps ==
  ASSUME IInv, IInv', Fits(arr), Fits(arr'), NEW cnt \in BlkCnts \ {0},
         arr'.past_end = arr.past_end + cnt, file'.blk = file.blk
  PROVE  Space!Grow
<1>1. cnt \in Nat \ {0} /\ arr.past_end \in Nat /\ BlkNrExhaust \in Nat
  BY Numbers, ConstantTypes
<1>2. arr'.past_end < BlkNrExhaust
  BY ConstantTypes DEF IInv, TypeOK, Arrays
<1>3. arr'.past_end \in arr.past_end + 1 .. BlkNrExhaust
  BY <1>1, <1>2
<1>4. \A b \in BeginBlkNr .. arr.past_end - 1 : Content'[b] = Content[b]
  <2>1. arr.past_end <= arr'.past_end
    BY <1>1
  <2> QED
    BY <1>1, <2>1, KeptUpTo
<1> QED
  BY <1>3, <1>4, ContentFactsNext, ReadContentIs DEF Space!Grow, Space!KeepUpTo, ReadContent

LEMMA ShrinkMaps ==
  ASSUME IInv, IInv', Fits(arr), Fits(arr'), arr'.past_end \in BeginBlkNr .. arr.past_end - 1, file' = file
  PROVE  Space!Shrink
<1>1. arr'.past_end \in Nat /\ arr'.past_end <= arr.past_end /\ arr'.past_end <= arr'.past_end
  BY Numbers, ConstantTypes
<1>2. \A b \in BeginBlkNr .. arr'.past_end - 1 : Content'[b] = Content[b]
  <2>1. PICK n \in Nat : n = arr'.past_end
    BY <1>1
  <2>2. \A b \in BeginBlkNr .. n - 1 : Content'[b] = Content[b]
    BY <1>1, <2>1, KeptUpTo
  <2> QED
    BY <2>1, <2>2
<1> QED
  BY <1>2, ContentFactsNext, ReadContentIs DEF Space!Shrink, Space!KeepUpTo, ReadContent

LEMMA WriteMaps ==
  ASSUME IInv, IInv', Fits(arr), NEW b \in BlksOfArray(arr), NEW v \in Data, arr' = arr,
         file'.blk = [file.blk EXCEPT ![b] = v]
  PROVE  b \in BeginBlkNr .. BlkNrExhaust - 1 /\ Space!Write(b, v)
<1>1. b \in BeginBlkNr .. arr.past_end - 1 /\ b \in BlkNrs
  BY ContentFacts
<1>2. Content' = [c \in BeginBlkNr .. arr.past_end - 1 |-> [file.blk EXCEPT ![b] = v][c]]
  BY ContentFactsNext
<1>3. Content = [c \in BeginBlkNr .. arr.past_end - 1 |-> file.blk[c]]
  BY ContentFacts DEF Content
<1>4. \A c \in BeginBlkNr .. arr.past_end - 1 :
         [file.blk EXCEPT ![b] = v][c] = IF c = b THEN v ELSE file.blk[c]
  BY <1>1, ContentFacts, Numbers
<1>5. Content' = [Content EXCEPT ![b] = v]
  BY <1>1, <1>2, <1>3, <1>4
<1>6. b \in BeginBlkNr .. BlkNrExhaust - 1
  BY <1>1, Numbers, ConstantTypes
<1> QED
  BY <1>1, <1>5, <1>6, ReadContentIs DEF Space!Write, ReadContent

\* Each call is one of the abstract space, or nothing to its user.
LEMMA StepMaps ==
  ASSUME IInv, IInv', Next, Fits(arr), Fits(arr')
  PROVE  \/ Space!Next \/ PanicClose \/ Open("panicked")
         \/ UNCHANGED <<arr.past_end, Content>>
<1>1. CASE \E cnt \in BlkCnts \ {0} : GrowInSlack(cnt)
  <2>1. PICK cnt \in BlkCnts \ {0} : GrowInSlack(cnt)
    BY <1>1
  <2>2. arr' = [arr EXCEPT !.past_end = @ + cnt] /\ file' = file
    BY <2>1, GrowInSlackKeeps DEF GrowInSlack
  <2>3. arr'.past_end = arr.past_end + cnt
    BY <2>2, Numbers
  <2> QED
    BY <2>2, <2>3, GrowMaps DEF Space!Next
<1>2. CASE \E cnt \in BlkCnts \ {0} : GrowInFile(cnt)
  BY <1>2, GrowInFileKeeps, GrowMaps DEF Space!Next
<1>3. CASE \E cnt \in BlkCnts \ {0} : Shrink(cnt)
  <2>1. PICK cnt \in BlkCnts \ {0} : Shrink(cnt)
    BY <1>3
  <2>2. file' = file
    BY <2>1 DEF Shrink
  <2> QED
    BY <2>1, <2>2, ShrinkKeeps, ShrinkMaps DEF Space!Next
<1>4. CASE \E b \in BlkNrs : \E v \in Data : WriteBlk(b, v)
  <2>1. PICK b \in BlkNrs, v \in Data : WriteBlk(b, v)
    BY <1>4
  <2>2. /\ arr' = arr /\ b \in BlksOfArray(arr)
        /\ file'.blk = [file.blk EXCEPT ![b] = v]
    BY <2>1, WriteBlkKeeps
  <2>3. b \in BeginBlkNr .. BlkNrExhaust - 1 /\ Space!Write(b, v)
    BY <2>2, WriteMaps
  <2> QED
    BY <2>3 DEF Space!Next
<1>5. CASE (\E b \in BlkNrs : WriteThrows(b)) \/ (\E n \in 0 .. BlkSz - 1 : WriteTrailer(n))
  <2>1. UNCHANGED <<arr, file>>
    BY <1>5, OthersKeep
  <2> QED
    BY <2>1, ContentKept
<1>6. CASE ReleaseFile
  BY <1>6, ReleaseFileKeeps, ContentKept
<1>7. CASE Close
  BY <1>7, CloseKeeps, ContentKept
<1>8. CASE Open("closed")
  <2>1. arr'.past_end = arr.past_end
    BY <1>8, OpenFileKeeps
  <2>2. file' = file
    BY <1>8 DEF Open
  <2> QED
    BY <2>1, <2>2, ContentKept
<1>9. CASE TruncateThrows
  <2>1. arr' = arr
    BY <1>9, ThrowKeeps
  <2>2. file' = file \/ file' = Truncated(file, NewFileSz)
    BY <1>9 DEF TruncateThrows
  <2>3. \A b \in BlksOfArray(arr) : file'.blk[b] = file.blk[b]
    BY <2>2, TruncatedFacts
  <2> QED
    BY <2>1, <2>3, ContentKept
<1> QED
  BY <1>1, <1>2, <1>3, <1>4, <1>5, <1>6, <1>7, <1>8, <1>9 DEF Next

(***************************************************************************)
(* To its user, whatever is in the file, the array is a row of blocks that *)
(* keep what is written in them until a shrink gives them up, also over a  *)
(* close and an open (BlockSpace): in any call that begins and ends with   *)
(* less bytes than an uint32_t can count.                                  *)
(***************************************************************************)
THEOREM FileArrayIsASpace == Spec => ImplementsBlockSpace
<1> DEFINE A == Space!Next \/ PanicClose \/ Open("panicked")
<1>1. Init => Space!Init
  <2> SUFFICES ASSUME Init PROVE Space!Init
    OBVIOUS
  <2>1. IInv
    BY IInvInitially
  <2>2. arr.past_end = BeginBlkNr
    BY DEF Init, NewArray
  <2>3. Content \in Space!Contents(BeginBlkNr)
    BY <2>1, <2>2, ContentFacts
  <2>4. Fits(arr)
    BY <2>2, FileAssumption DEF Fits
  <2>5. \A b \in BlksOfArray(arr) : SeekBlk(b) = b
    BY <2>1, <2>4, Numbers, ReadWhereTheyAre
  <2>6. ReadContent = Content
    BY <2>5 DEF ReadContent, Content, ContentOf
  <2> QED
    BY <2>2, <2>3, <2>6 DEF Space!Init, ReadContent
<1>2. ASSUME IInv, [Next]_vars
      PROVE  [Fits(arr) /\ Fits(arr') => A]_<<arr.past_end, [b \in BlksOfArray(arr) |-> ContentOf(b)]>>
  <2>1. IInv'
    BY <1>2, IInvKept
  <2>2. SUFFICES ASSUME Fits(arr), Fits(arr')
                 PROVE  A \/ UNCHANGED <<arr.past_end, ReadContent>>
    BY DEF ReadContent
  <2>3. ReadContent = Content /\ ReadContent' = Content'
    BY <1>2, <2>1, <2>2, ReadContentIs
  <2>4. CASE Next
    <3>1. \/ Space!Next \/ PanicClose \/ Open("panicked")
          \/ UNCHANGED <<arr.past_end, Content>>
      BY <1>2, <2>1, <2>2, <2>4, StepMaps
    <3> QED
      BY <2>3, <3>1
  <2>5. CASE UNCHANGED vars
    <3>1. arr' = arr /\ file' = file
      BY <2>5 DEF vars
    <3>2. UNCHANGED <<arr.past_end, Content>>
      BY <1>2, <2>1, <3>1, ContentKept
    <3> QED
      BY <2>3, <3>2
  <2> QED
    BY <1>2, <2>4, <2>5
<1> QED
  BY IInvInitially, IInvKept, <1>1, <1>2, PTL DEF Spec, ImplementsBlockSpace
=============================================================================
