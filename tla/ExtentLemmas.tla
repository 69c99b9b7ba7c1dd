---------------------------- MODULE ExtentLemmas ----------------------------
(***************************************************************************)
(* What the proofs about several components rest on. First, what one call  *)
(* does to the map of free blocks and to the map of free subblocks, for    *)
(* any well formed map, every number of blocks, every width of a block     *)
(* count and every policy. Then, that the words of an extent and of a      *)
(* segment are as many as its footprint and are read as the same segment,  *)
(* wherever they are in a row of words.                                    *)
(***************************************************************************)
EXTENDS FreeMap, SubBlockFreeMap, SegmentRecord, TLAPS, FiniteSetTheorems,
        SequenceTheorems, WellFoundedInduction

(* The least and the greatest of a set of naturals *)

\* A nonempty set of naturals has a least element.
LEMMA LeastExists ==
  ASSUME NEW S \in SUBSET Nat, S # {}
  PROVE  \E x \in S : \A y \in S : x <= y
<1>1. \E x \in S : \A y \in S : ~ (<<y, x>> \in OpToRel(<, Nat))
  BY NatLessThanWellFounded, WFMin, Zenon
<1>2. PICK x \in S : \A y \in S : ~ (<<y, x>> \in OpToRel(<, Nat))
  BY <1>1
<1>3. \A y \in S : ~ (y < x)
  BY <1>2 DEF OpToRel
<1> QED
  BY <1>3

\* A nonempty set of naturals below a bound has a greatest element.
LEMMA GreatestExists ==
  ASSUME NEW S \in SUBSET Nat, S # {}, NEW n \in Nat, \A y \in S : y <= n
  PROVE  \E x \in S : \A y \in S : y <= x
<1> DEFINE T == {n - y : y \in S}
<1>1. T \in SUBSET Nat /\ T # {}
  <2>1. \A y \in S : n - y \in Nat
    OBVIOUS
  <2>2. \A t \in T : t \in Nat
    BY <2>1
  <2> QED
    BY <2>2
<1>2. PICK t \in T : \A u \in T : t <= u
  BY <1>1, LeastExists
<1>3. PICK x \in S : t = n - x
  BY <1>2
<1>4. ASSUME NEW y \in S PROVE y <= x
  <2>1. n - y \in T
    OBVIOUS
  <2>2. n - x <= n - y
    BY <1>2, <1>3, <2>1
  <2> QED
    BY <2>2
<1> QED
  BY <1>4

-----------------------------------------------------------------------------
(* The map of free blocks *)

WellFormed(m) ==
  /\ m \in FreeMaps
  /\ IndexesAgreeIn(m)
  /\ ChunksDisjointIn(m)

\* The fields of an extent of whole blocks.
LEMMA FullExtentFacts ==
  ASSUME NEW e \in FullExtents
  PROVE  /\ e = FullExtent(e.blk_nr, e.blk_cnt)
         /\ e.is_suballoc = FALSE
         /\ e.blk_nr \in BlkNrs
         /\ e.blk_cnt \in BlkCnts
         /\ e.blk_cnt # 0
         /\ e.blk_nr + e.blk_cnt <= MaxBlkNr + 1
         /\ BlkSpan(e) = e.blk_cnt
         /\ PastEndBlkNr(e) = e.blk_nr + e.blk_cnt
         /\ BlksOf(e) = {b \in BlkNrs : e.blk_nr <= b /\ b < e.blk_nr + e.blk_cnt}
BY DEF FullExtents, FullExtent, BlkSpan, PastEndBlkNr, BlksOf

\* The chunk an alloc or a dealloc leaves is an extent of whole blocks.
LEMMA MakeFullExtent ==
  ASSUME NEW nr \in BlkNrs, NEW cnt \in BlkCnts, cnt # 0, nr + cnt <= MaxBlkNr + 1
  PROVE  FullExtent(nr, cnt) \in FullExtents
BY ExtentAssumption DEF FullExtents, FullExtent, BlkNrs, BlkCnts

\* fail_if_overlap is complete and exact: although it looks at two chunks
\* only, it throws if and only if some block of the extent is already free.
LEMMA AlreadyFreedExact ==
  ASSUME NEW m, WellFormed(m), NEW e \in FullExtents
  PROVE  AlreadyFreed(m, e) <=> BlksOf(e) \cap FreeBlksOf(m) # {}
<1> DEFINE f == m.fr_by_nr
<1>a. /\ e.is_suballoc = FALSE
      /\ e.blk_nr \in BlkNrs /\ e.blk_cnt \in BlkCnts /\ e.blk_cnt # 0
      /\ e.blk_nr + e.blk_cnt <= MaxBlkNr + 1
      /\ BlksOf(e) = {b \in BlkNrs : e.blk_nr <= b /\ b < e.blk_nr + e.blk_cnt}
  BY FullExtentFacts
<1> USE ExtentAssumption DEF BlkNrs, BlkCnts
<1>0. /\ f \in [BlkNrs -> BlkCnts]
      /\ \A b \in Chunks(m) : b \in Nat /\ f[b] \in Nat /\ f[b] > 0 /\ b <= MaxBlkNr
      /\ \A b, c \in Chunks(m) : b < c => b + f[b] <= c
  BY DEF WellFormed, FreeMaps, Chunks, ChunksDisjointIn
<1>e. e.blk_nr \in Nat /\ e.blk_cnt \in Nat /\ e.blk_cnt > 0
  BY <1>a
<1>1. \A b \in Chunks(m) :
        Overlap(ChunkAt(m, b), e) <=> /\ b < e.blk_nr + e.blk_cnt
                                      /\ e.blk_nr < b + f[b]
  <2> TAKE b \in Chunks(m)
  <2>1. /\ ChunkAt(m, b).is_suballoc = FALSE
        /\ ChunkAt(m, b).blk_nr = b
        /\ ChunkAt(m, b).blk_cnt = f[b]
    BY DEF ChunkAt, FullExtent
  <2>2. BlkSpan(ChunkAt(m, b)) = f[b] /\ BlkSpan(e) = e.blk_cnt
    BY <1>a, <2>1, Zenon DEF BlkSpan
  <2>3. Overlap(ChunkAt(m, b), e) <=> \/ b < e.blk_nr /\ e.blk_nr - b < f[b]
                                      \/ e.blk_nr < b /\ b - e.blk_nr < e.blk_cnt
                                      \/ b = e.blk_nr /\ f[b] # 0
    BY <1>a, <2>1, <2>2, Zenon DEF Overlap
  <2>4. b \in Nat /\ f[b] \in Nat /\ f[b] > 0
    BY <1>0
  <2>5. \/ b < e.blk_nr /\ e.blk_nr - b < f[b]
        \/ e.blk_nr < b /\ b - e.blk_nr < e.blk_cnt
        \/ b = e.blk_nr /\ f[b] # 0
        <=> b < e.blk_nr + e.blk_cnt /\ e.blk_nr < b + f[b]
    BY <1>e, <2>4
  <2> QED BY <2>3, <2>5, Zenon
<1>2. ASSUME AlreadyFreed(m, e) PROVE BlksOf(e) \cap FreeBlksOf(m) # {}
  <2>1. PICK b \in Chunks(m) : b < e.blk_nr + e.blk_cnt /\ e.blk_nr < b + f[b]
    BY <1>1, <1>2 DEF AlreadyFreed, Neighbours
  <2>2. CASE b <= e.blk_nr
    <3>1. e.blk_nr \in BlksOf(e) /\ e.blk_nr \in FreeBlksOf(m)
      BY <1>0, <2>1, <2>2, <1>a, <1>e DEF FreeBlksOf
    <3> QED BY <3>1
  <2>3. CASE e.blk_nr < b
    <3>1. b \in BlksOf(e) /\ b \in FreeBlksOf(m)
      BY <1>0, <2>1, <2>3, <1>a, <1>e DEF FreeBlksOf, Chunks
    <3> QED BY <3>1
  <2> QED BY <1>0, <2>2, <2>3, <1>a, <1>e
<1>3. ASSUME BlksOf(e) \cap FreeBlksOf(m) # {} PROVE AlreadyFreed(m, e)
  <2>1. PICK x \in BlkNrs, b \in Chunks(m) :
               /\ e.blk_nr <= x /\ x < e.blk_nr + e.blk_cnt
               /\ b <= x /\ x < b + f[b]
    BY <1>3, <1>a, <1>e DEF FreeBlksOf
  <2>2. CASE e.blk_nr <= b
    <3> DEFINE S == {c \in Chunks(m) : c >= e.blk_nr}
    <3>1. S \in SUBSET Nat /\ b \in S
      BY <1>0, <2>2, <1>a, <1>e
    <3>2. PICK n \in S : \A c \in S : n <= c
      BY <3>1, LeastExists
    <3>3. n \in Neighbours(m, e.blk_nr)
      BY <3>2 DEF Neighbours
    <3>4. n < e.blk_nr + e.blk_cnt /\ e.blk_nr < n + f[n]
      <4>1. n \in Chunks(m) /\ e.blk_nr <= n /\ n <= b
        BY <3>1, <3>2
      <4>2. n \in Nat /\ f[n] \in Nat /\ f[n] > 0 /\ b \in Nat
        BY <1>0, <4>1
      <4> QED BY <1>e, <2>1, <4>1, <4>2
    <3> QED BY <1>1, <3>2, <3>3, <3>4 DEF AlreadyFreed
  <2>3. CASE b < e.blk_nr
    <3> DEFINE S == {c \in Chunks(m) : c < e.blk_nr}
    <3>1. S \in SUBSET Nat /\ b \in S /\ \A c \in S : c <= MaxBlkNr
      BY <1>0, <2>3
    <3> HIDE DEF S
    <3>2. PICK n \in S : \A c \in S : c <= n
      BY <3>1, GreatestExists
    <3> USE DEF S
    <3>3. n \in Neighbours(m, e.blk_nr)
      BY <3>2 DEF Neighbours
    <3>4. n = b
      <4>1. n \in Chunks(m) /\ n < e.blk_nr /\ b <= n
        BY <3>1, <3>2
      <4>2. b < n => b + f[b] <= n
        BY <1>0, <4>1
      <4> QED BY <1>0, <1>a, <1>e, <2>1, <4>1, <4>2
    <3>5. n < e.blk_nr + e.blk_cnt /\ e.blk_nr < n + f[n]
      <4>1. b \in Nat /\ f[b] \in Nat
        BY <1>0
      <4> QED BY <1>e, <2>1, <2>3, <3>4, <4>1
    <3> QED BY <1>1, <3>2, <3>3, <3>5 DEF AlreadyFreed
  <2> QED BY <1>0, <2>1, <2>2, <2>3, <1>a, <1>e
<1> QED BY <1>2, <1>3

\* The chunk at b and the extent e share no block.
Apart(m, b, e) == b + m.fr_by_nr[b] <= e.blk_nr \/ e.blk_nr + e.blk_cnt <= b

\* If dealloc does not throw, every chunk ends before the extent starts or
\* starts after it ends.
LEMMA NotFreedApart ==
  ASSUME NEW m, WellFormed(m), NEW e \in FullExtents, ~ AlreadyFreed(m, e)
  PROVE  \A b \in Chunks(m) : Apart(m, b, e)
<1> TAKE b \in Chunks(m)
<1>1. /\ b \in BlkNrs /\ m.fr_by_nr[b] \in BlkCnts /\ m.fr_by_nr[b] # 0
      /\ b + m.fr_by_nr[b] <= MaxBlkNr + 1
  BY DEF WellFormed, FreeMaps, Chunks, ChunksDisjointIn
<1>2. /\ e.blk_nr \in BlkNrs /\ e.blk_cnt \in BlkCnts /\ e.blk_cnt # 0
      /\ BlksOf(e) = {x \in BlkNrs : e.blk_nr <= x /\ x < e.blk_nr + e.blk_cnt}
  BY FullExtentFacts
<1>3. BlksOf(e) \cap FreeBlksOf(m) = {}
  BY AlreadyFreedExact
<1>4. ~ (e.blk_nr \in FreeBlksOf(m)) /\ ~ (b \in BlksOf(e))
  <2>1. e.blk_nr \in BlksOf(e)
    BY <1>2, ExtentAssumption DEF BlkNrs, BlkCnts
  <2>2. b \in FreeBlksOf(m)
    BY <1>1, ExtentAssumption DEF FreeBlksOf, BlkNrs, BlkCnts
  <2> QED BY <1>3, <2>1, <2>2
<1>5. ~ (b <= e.blk_nr /\ e.blk_nr < b + m.fr_by_nr[b])
  BY <1>2, <1>4 DEF FreeBlksOf
<1>6. ~ (e.blk_nr <= b /\ b < e.blk_nr + e.blk_cnt)
  BY <1>1, <1>2, <1>4
<1> QED
  BY <1>1, <1>2, <1>5, <1>6, ExtentAssumption DEF Apart, BlkNrs, BlkCnts

-----------------------------------------------------------------------------
(* Replacing some chunks of a map by one chunk: what dealloc, alloc and    *)
(* release have in common.                                                 *)

Replaced(m, gone, nr, cnt) ==
  [fr_by_nr |-> [b \in BlkNrs |->
                   IF b = nr THEN cnt ELSE IF b \in gone THEN 0 ELSE m.fr_by_nr[b]],
   fr_by_cnt |-> (m.fr_by_cnt \ {<<m.fr_by_nr[b], b>> : b \in gone}) \cup {<<cnt, nr>>}]

Replaceable(m, gone, nr, cnt) ==
  /\ gone \subseteq Chunks(m)
  /\ nr \in BlkNrs /\ cnt \in BlkCnts /\ cnt # 0 /\ nr + cnt <= MaxBlkNr + 1
  /\ nr \in gone \/ nr \notin Chunks(m)
  /\ \A b \in Chunks(m) \ gone : b + m.fr_by_nr[b] <= nr \/ nr + cnt <= b

\* Some chunks replaced by one that no other chunk touches: both indexes still
\* agree and the chunks are still disjoint.
LEMMA ReplacedWellFormed ==
  ASSUME NEW m, WellFormed(m), NEW gone, NEW nr, NEW cnt, Replaceable(m, gone, nr, cnt)
  PROVE  /\ WellFormed(Replaced(m, gone, nr, cnt))
         /\ Chunks(Replaced(m, gone, nr, cnt)) = (Chunks(m) \ gone) \cup {nr}
         /\ Replaced(m, gone, nr, cnt).fr_by_nr[nr] = cnt
         /\ \A b \in Chunks(m) \ gone :
              Replaced(m, gone, nr, cnt).fr_by_nr[b] = m.fr_by_nr[b]
<1> DEFINE r == Replaced(m, gone, nr, cnt)
           f == m.fr_by_nr
<1> USE DEF Replaceable
<1>1. /\ f \in [BlkNrs -> BlkCnts]
      /\ m.fr_by_cnt = {<<f[b], b>> : b \in Chunks(m)}
      /\ m.fr_by_cnt \subseteq (BlkCnts \ {0}) \X BlkNrs
      /\ \A b \in Chunks(m) : b \in BlkNrs /\ f[b] # 0
      /\ \A b \in BlkNrs \ Chunks(m) : f[b] = 0
      /\ \A b \in Chunks(m) : b + f[b] <= MaxBlkNr + 1
      /\ \A b, c \in Chunks(m) : b < c => b + f[b] <= c
  BY DEF WellFormed, FreeMaps, IndexesAgreeIn, ChunksDisjointIn, Chunks
<1>2. /\ r.fr_by_nr = [b \in BlkNrs |-> IF b = nr THEN cnt ELSE IF b \in gone THEN 0 ELSE f[b]]
      /\ r.fr_by_cnt = (m.fr_by_cnt \ {<<f[b], b>> : b \in gone}) \cup {<<cnt, nr>>}
  BY DEF Replaced
<1>3. /\ r.fr_by_nr[nr] = cnt
      /\ \A b \in Chunks(m) \ gone : b # nr /\ r.fr_by_nr[b] = f[b]
      /\ \A b \in BlkNrs : b # nr /\ b \notin Chunks(m) \ gone => r.fr_by_nr[b] = 0
  BY <1>1, <1>2
<1>4. Chunks(r) = (Chunks(m) \ gone) \cup {nr}
  BY <1>1, <1>3 DEF Chunks
<1>5. r \in FreeMaps
  <2>1. r.fr_by_nr \in [BlkNrs -> BlkCnts]
    BY <1>1, <1>2, ExtentAssumption DEF BlkCnts
  <2>2. r.fr_by_cnt \in SUBSET ((BlkCnts \ {0}) \X BlkNrs)
    BY <1>1, <1>2
  <2>3. r = [fr_by_nr |-> r.fr_by_nr, fr_by_cnt |-> r.fr_by_cnt]
    BY DEF Replaced
  <2> QED BY <2>1, <2>2, <2>3 DEF FreeMaps
<1>6. IndexesAgreeIn(r)
  <2>1. m.fr_by_cnt \ {<<f[b], b>> : b \in gone} = {<<f[b], b>> : b \in Chunks(m) \ gone}
    BY <1>1
  <2>2. {<<f[b], b>> : b \in Chunks(m) \ gone}
          = {<<r.fr_by_nr[b], b>> : b \in Chunks(m) \ gone}
    BY <1>3
  <2>3. r.fr_by_cnt = {<<r.fr_by_nr[b], b>> : b \in (Chunks(m) \ gone) \cup {nr}}
    BY <1>2, <1>3, <2>1, <2>2
  <2> QED BY <1>4, <2>3 DEF IndexesAgreeIn
<1>7. ChunksDisjointIn(r)
  <2>1. ASSUME NEW b \in Chunks(r)
        PROVE  b + r.fr_by_nr[b] <= MaxBlkNr + 1
    BY <1>1, <1>3, <1>4
  <2>2. ASSUME NEW b \in Chunks(r), NEW c \in Chunks(r), b < c
        PROVE  b + r.fr_by_nr[b] <= c
    <3>1. CASE b = nr
      <4>1. c \in Chunks(m) \ gone /\ c \in BlkNrs /\ f[c] \in BlkCnts /\ f[c] # 0
        BY <1>1, <1>4, <2>2, <3>1, ExtentAssumption DEF BlkNrs
      <4>2. c + f[c] <= nr \/ nr + cnt <= c
        BY <4>1
      <4> QED BY <1>3, <2>2, <3>1, <4>1, <4>2, ExtentAssumption DEF BlkNrs, BlkCnts
    <3>2. CASE b # nr /\ c = nr
      <4>1. b \in Chunks(m) \ gone /\ b \in BlkNrs
        BY <1>1, <1>4, <3>2
      <4>2. b + f[b] <= nr \/ nr + cnt <= b
        BY <4>1
      <4> QED BY <1>3, <2>2, <3>2, <4>1, <4>2, ExtentAssumption DEF BlkNrs, BlkCnts
    <3>3. CASE b # nr /\ c # nr
      BY <1>1, <1>3, <1>4, <2>2, <3>3
    <3> QED BY <3>1, <3>2, <3>3
  <2> QED BY <2>1, <2>2 DEF ChunksDisjointIn
<1> QED
  BY <1>3, <1>4, <1>5, <1>6, <1>7 DEF WellFormed

ChunkBlks(m, b) == {x \in BlkNrs : b <= x /\ x < b + m.fr_by_nr[b]}

\* Then the free blocks are those of the chunks kept and of the new one.
LEMMA ReplacedFreeBlks ==
  ASSUME NEW m, WellFormed(m), NEW gone, NEW nr, NEW cnt, Replaceable(m, gone, nr, cnt)
  PROVE  FreeBlksOf(Replaced(m, gone, nr, cnt)) =
           {x \in BlkNrs : nr <= x /\ x < nr + cnt}
             \cup UNION {ChunkBlks(m, c) : c \in Chunks(m) \ gone}
<1> DEFINE r == Replaced(m, gone, nr, cnt)
<1>1. /\ Chunks(r) = (Chunks(m) \ gone) \cup {nr}
      /\ r.fr_by_nr[nr] = cnt
      /\ \A b \in Chunks(m) \ gone : r.fr_by_nr[b] = m.fr_by_nr[b]
  BY ReplacedWellFormed
<1> HIDE DEF r
<1>2. ASSUME NEW x \in BlkNrs
      PROVE  x \in FreeBlksOf(r) <=>
               \/ nr <= x /\ x < nr + cnt
               \/ \E b \in Chunks(m) \ gone : x \in ChunkBlks(m, b)
  <2>1. x \in FreeBlksOf(r) <=>
          \E b \in (Chunks(m) \ gone) \cup {nr} : b <= x /\ x < b + r.fr_by_nr[b]
    BY <1>1 DEF FreeBlksOf
  <2>2. \A b \in Chunks(m) \ gone :
          x \in ChunkBlks(m, b) <=> b <= x /\ x < b + r.fr_by_nr[b]
    BY <1>1 DEF ChunkBlks
  <2> QED
    BY <1>1, <2>1, <2>2
<1>3. FreeBlksOf(r) \subseteq BlkNrs
  BY DEF FreeBlksOf
<1>4. \A b : ChunkBlks(m, b) \subseteq BlkNrs
  BY DEF ChunkBlks
<1> QED
  BY <1>2, <1>3, <1>4 DEF r

\* What a well formed map looks like to a dealloc.
LEMMA WellFormedFacts ==
  ASSUME NEW m, WellFormed(m)
  PROVE  /\ \A b \in Chunks(m) : /\ b \in BlkNrs
                                 /\ m.fr_by_nr[b] \in BlkCnts
                                 /\ m.fr_by_nr[b] # 0
                                 /\ b + m.fr_by_nr[b] <= MaxBlkNr + 1
         /\ \A b, c \in Chunks(m) : b < c => b + m.fr_by_nr[b] <= c
         /\ \A b \in BlkNrs \ Chunks(m) : m.fr_by_nr[b] = 0
         /\ m.fr_by_cnt = {<<m.fr_by_nr[b], b>> : b \in Chunks(m)}
         /\ FreeBlksOf(m) = UNION {ChunkBlks(m, b) : b \in Chunks(m)}
BY DEF WellFormed, FreeMaps, IndexesAgreeIn, ChunksDisjointIn, Chunks, ChunkBlks, FreeBlksOf

-----------------------------------------------------------------------------
(* dealloc *)

\* Merging the next chunk (or not).
LEMMA WithNextFacts ==
  ASSUME NEW m, WellFormed(m), NEW e \in FullExtents,
         \A b \in Chunks(m) : Apart(m, b, e)
  PROVE  LET w == WithNext(m, e)
             N == NextMerged(m, e)
         IN  /\ w \in FullExtents
             /\ w.blk_nr = e.blk_nr
             /\ N \subseteq Chunks(m)
             /\ \A b \in N : b > e.blk_nr
             /\ \A b \in Chunks(m) \ N : Apart(m, b, w)
             /\ BlksOf(w) = BlksOf(e) \cup UNION {ChunkBlks(m, b) : b \in N}
<1> DEFINE w == WithNext(m, e)
           N == NextMerged(m, e)
           p == e.blk_nr + e.blk_cnt
           f == m.fr_by_nr
<1>1. /\ e.blk_nr \in BlkNrs /\ e.blk_cnt \in BlkCnts /\ e.blk_cnt # 0
      /\ p <= MaxBlkNr + 1
      /\ PastEndBlkNr(e) = p
      /\ BlksOf(e) = {x \in BlkNrs : e.blk_nr <= x /\ x < p}
  BY FullExtentFacts
<1>2. CASE N = {}
  BY <1>2 DEF WithNext
<1>3. CASE N # {}
  <2>1. /\ N = {p}
        /\ p \in Chunks(m)
        /\ f[p] + e.blk_cnt <= MaxBlkCnt
    BY <1>1, <1>3 DEF NextMerged
  <2>2. /\ p \in BlkNrs /\ f[p] \in BlkCnts /\ f[p] # 0
        /\ p + f[p] <= MaxBlkNr + 1
    BY <2>1, WellFormedFacts
  <2>3. w = FullExtent(e.blk_nr, e.blk_cnt + f[p])
    BY <1>1, <1>3 DEF WithNext
  <2>4. /\ e.blk_cnt + f[p] \in BlkCnts
        /\ e.blk_cnt + f[p] # 0
        /\ e.blk_nr + (e.blk_cnt + f[p]) = p + f[p]
    BY <1>1, <2>1, <2>2, ExtentAssumption DEF BlkNrs, BlkCnts
  <2>5. w \in FullExtents
    BY <1>1, <2>2, <2>3, <2>4, MakeFullExtent
  <2>6. w.blk_nr = e.blk_nr /\ w.blk_cnt = e.blk_cnt + f[p]
    BY <2>3 DEF FullExtent
  <2>7. e.blk_nr < p
    BY <1>1, ExtentAssumption DEF BlkNrs, BlkCnts
  <2>8. ASSUME NEW b \in Chunks(m) \ N PROVE Apart(m, b, w)
    <3>1. /\ b \in BlkNrs /\ f[b] \in BlkCnts /\ f[b] # 0 /\ b # p
          /\ b < p => b + f[b] <= p
          /\ p < b => p + f[p] <= b
      BY <2>1, WellFormedFacts
    <3>2. b + f[b] <= e.blk_nr \/ p <= b
      BY DEF Apart
    <3> QED
      BY <1>1, <2>2, <2>4, <2>6, <3>1, <3>2, ExtentAssumption DEF Apart, BlkNrs, BlkCnts
  <2>9. BlksOf(w) = BlksOf(e) \cup ChunkBlks(m, p)
    <3>1. BlksOf(w) = {x \in BlkNrs : e.blk_nr <= x /\ x < p + f[p]}
      BY <2>4, <2>5, <2>6, FullExtentFacts
    <3> QED
      BY <1>1, <2>2, <2>7, <3>1, ExtentAssumption DEF ChunkBlks, BlkNrs, BlkCnts
  <2> QED
    BY <2>1, <2>5, <2>6, <2>7, <2>8, <2>9
<1> QED
  BY <1>2, <1>3

\* Merging the previous chunk (or not), after the chunks in gone were merged.
LEMMA WithPrevFacts ==
  ASSUME NEW m, WellFormed(m), NEW w \in FullExtents,
         NEW N \in SUBSET Chunks(m),
         \A b \in N : b > w.blk_nr,
         \A b \in Chunks(m) \ N : Apart(m, b, w)
  PROVE  LET c == WithPrev(m, w)
             P == PrevMerged(m, w)
         IN  /\ c \in FullExtents
             /\ P \subseteq Chunks(m)
             /\ c.blk_nr \in P \/ c.blk_nr \notin Chunks(m)
             /\ \A b \in Chunks(m) \ (N \cup P) : Apart(m, b, c)
             /\ BlksOf(c) = BlksOf(w) \cup UNION {ChunkBlks(m, b) : b \in P}
<1> DEFINE c == WithPrev(m, w)
           P == PrevMerged(m, w)
           f == m.fr_by_nr
<1>1. /\ w.blk_nr \in BlkNrs /\ w.blk_cnt \in BlkCnts /\ w.blk_cnt # 0
      /\ w.blk_nr + w.blk_cnt <= MaxBlkNr + 1
      /\ BlksOf(w) = {x \in BlkNrs : w.blk_nr <= x /\ x < w.blk_nr + w.blk_cnt}
  BY FullExtentFacts
<1>2. CASE P = {}
  <2>1. w.blk_nr \notin Chunks(m)
    <3> SUFFICES ASSUME w.blk_nr \in Chunks(m) PROVE FALSE
      OBVIOUS
    <3>1. w.blk_nr \notin N
      BY <1>1, ExtentAssumption DEF BlkNrs
    <3>2. Apart(m, w.blk_nr, w)
      BY <3>1
    <3>3. f[w.blk_nr] \in BlkCnts /\ f[w.blk_nr] # 0
      BY WellFormedFacts
    <3> QED
      BY <1>1, <3>2, <3>3, ExtentAssumption DEF Apart, BlkNrs, BlkCnts
  <2> QED
    BY <1>2, <2>1 DEF WithPrev
<1>3. CASE P # {}
  <2>1. PICK p \in P : c = FullExtent(p, f[p] + w.blk_cnt)
    <3> DEFINE q == CHOOSE q \in P : TRUE
    <3>1. q \in P
      BY <1>3
    <3>2. c = FullExtent(q, f[q] + w.blk_cnt)
      BY <1>3 DEF WithPrev
    <3> QED BY <3>1, <3>2
  <2>2. /\ p \in Chunks(m) /\ p <= w.blk_nr
        /\ p + f[p] = w.blk_nr
        /\ f[p] + w.blk_cnt <= MaxBlkCnt
    BY DEF PrevMerged
  <2>3. p \in BlkNrs /\ f[p] \in BlkCnts /\ f[p] # 0
    BY <2>2, WellFormedFacts
  <2>4. P = {p}
    <3>1. ASSUME NEW q \in P PROVE q = p
      <4>1. q \in Chunks(m) /\ q <= p /\ p <= q
        BY <2>2 DEF PrevMerged
      <4>2. q \in BlkNrs
        BY <4>1, WellFormedFacts
      <4> QED BY <2>3, <4>1, <4>2, ExtentAssumption DEF BlkNrs
    <3> QED BY <3>1
  <2>5. /\ f[p] + w.blk_cnt \in BlkCnts
        /\ f[p] + w.blk_cnt # 0
        /\ p + (f[p] + w.blk_cnt) = w.blk_nr + w.blk_cnt
    BY <1>1, <2>2, <2>3, ExtentAssumption DEF BlkNrs, BlkCnts
  <2>6. c \in FullExtents /\ c.blk_nr = p /\ c.blk_cnt = f[p] + w.blk_cnt
    <3>1. c \in FullExtents
      BY <1>1, <2>1, <2>3, <2>5, MakeFullExtent
    <3> QED BY <2>1, <3>1 DEF FullExtent
  <2>7. ASSUME NEW b \in Chunks(m) \ (N \cup P) PROVE Apart(m, b, c)
    <3>1. /\ b \in BlkNrs /\ f[b] \in BlkCnts /\ f[b] # 0 /\ b # p
          /\ b < p => b + f[b] <= p
          /\ p < b => p + f[p] <= b
      BY <2>2, <2>4, WellFormedFacts
    <3>2. b + f[b] <= w.blk_nr \/ w.blk_nr + w.blk_cnt <= b
      BY DEF Apart
    <3> QED
      BY <1>1, <2>2, <2>3, <2>5, <2>6, <3>1, <3>2, ExtentAssumption
         DEF Apart, BlkNrs, BlkCnts
  <2>8. BlksOf(c) = BlksOf(w) \cup ChunkBlks(m, p)
    <3>1. BlksOf(c) = {x \in BlkNrs : p <= x /\ x < w.blk_nr + w.blk_cnt}
      BY <2>5, <2>6, FullExtentFacts
    <3> QED
      BY <1>1, <2>2, <2>3, <3>1, ExtentAssumption DEF ChunkBlks, BlkNrs, BlkCnts
  <2> QED
    BY <2>2, <2>4, <2>6, <2>7, <2>8
<1> QED
  BY <1>2, <1>3

\* A dealloc that is let through adds exactly the blocks of its extent to the
\* free ones, whatever it merges, and keeps both indexes right.
LEMMA DeallocCorrect ==
  ASSUME NEW m, WellFormed(m), NEW e \in FullExtents, ~ AlreadyFreed(m, e)
  PROVE  /\ WellFormed(Dealloc(m, e))
         /\ FreeBlksOf(Dealloc(m, e)) = FreeBlksOf(m) \cup BlksOf(e)
<1> DEFINE w == WithNext(m, e)
           N == NextMerged(m, e)
           k == WithPrev(m, w)
           P == PrevMerged(m, w)
<1>1. \A b \in Chunks(m) : Apart(m, b, e)
  BY NotFreedApart
<1>2. /\ w \in FullExtents
      /\ N \in SUBSET Chunks(m)
      /\ \A b \in N : b > w.blk_nr
      /\ \A b \in Chunks(m) \ N : Apart(m, b, w)
      /\ BlksOf(w) = BlksOf(e) \cup UNION {ChunkBlks(m, b) : b \in N}
  BY <1>1, WithNextFacts
<1> HIDE DEF w, N
<1>3. /\ k \in FullExtents
      /\ P \subseteq Chunks(m)
      /\ k.blk_nr \in P \/ k.blk_nr \notin Chunks(m)
      /\ \A b \in Chunks(m) \ (N \cup P) : Apart(m, b, k)
      /\ BlksOf(k) = BlksOf(w) \cup UNION {ChunkBlks(m, b) : b \in P}
  BY <1>2, WithPrevFacts
<1>4. Dealloc(m, e) = Replaced(m, N \cup P, k.blk_nr, k.blk_cnt)
  BY DEF Dealloc, Coalesced, Replaced, w, N
<1> HIDE DEF k, P
<1>5. /\ k.blk_nr \in BlkNrs /\ k.blk_cnt \in BlkCnts /\ k.blk_cnt # 0
      /\ k.blk_nr + k.blk_cnt <= MaxBlkNr + 1
      /\ BlksOf(k) = {x \in BlkNrs : k.blk_nr <= x /\ x < k.blk_nr + k.blk_cnt}
  BY <1>3, FullExtentFacts
<1>6. \A b \in Chunks(m) \ (N \cup P) :
        b + m.fr_by_nr[b] <= k.blk_nr \/ k.blk_nr + k.blk_cnt <= b
  BY <1>3 DEF Apart
<1>7. Replaceable(m, N \cup P, k.blk_nr, k.blk_cnt)
  BY <1>2, <1>3, <1>5, <1>6 DEF Replaceable
<1>8. WellFormed(Dealloc(m, e))
  BY <1>4, <1>7, ReplacedWellFormed
<1>9. FreeBlksOf(Dealloc(m, e)) =
        BlksOf(k) \cup UNION {ChunkBlks(m, c) : c \in Chunks(m) \ (N \cup P)}
  BY <1>4, <1>5, <1>7, ReplacedFreeBlks, Zenon
<1>10. FreeBlksOf(m) = UNION {ChunkBlks(m, b) : b \in Chunks(m)}
  BY WellFormedFacts
<1> QED
  BY <1>2, <1>3, <1>8, <1>9, <1>10

-----------------------------------------------------------------------------
(* alloc and release *)

Removed(m, b) ==
  [fr_by_nr |-> [m.fr_by_nr EXCEPT ![b] = 0],
   fr_by_cnt |-> m.fr_by_cnt \ {<<m.fr_by_nr[b], b>>}]

\* Two chunks share no block.
LEMMA ChunkBlksDisjoint ==
  ASSUME NEW m, WellFormed(m), NEW b \in Chunks(m), NEW c \in Chunks(m), b # c
  PROVE  ChunkBlks(m, b) \cap ChunkBlks(m, c) = {}
<1>1. /\ b \in BlkNrs /\ m.fr_by_nr[b] \in BlkCnts
      /\ c \in BlkNrs /\ m.fr_by_nr[c] \in BlkCnts
      /\ b < c => b + m.fr_by_nr[b] <= c
      /\ c < b => c + m.fr_by_nr[c] <= b
  BY WellFormedFacts
<1> QED
  BY <1>1, ExtentAssumption DEF ChunkBlks, BlkNrs, BlkCnts

\* A chunk removed from both indexes takes its blocks, and only them, with it.
LEMMA RemovedCorrect ==
  ASSUME NEW m, WellFormed(m), NEW b \in Chunks(m)
  PROVE  /\ WellFormed(Removed(m, b))
         /\ FreeBlksOf(Removed(m, b)) = FreeBlksOf(m) \ ChunkBlks(m, b)
<1> DEFINE r == Removed(m, b)
           f == m.fr_by_nr
<1>1. /\ f \in [BlkNrs -> BlkCnts]
      /\ m.fr_by_cnt = {<<f[c], c>> : c \in Chunks(m)}
      /\ m.fr_by_cnt \subseteq (BlkCnts \ {0}) \X BlkNrs
      /\ \A c \in Chunks(m) : c \in BlkNrs /\ c + f[c] <= MaxBlkNr + 1
      /\ \A c, d \in Chunks(m) : c < d => c + f[c] <= d
  BY DEF WellFormed, FreeMaps, IndexesAgreeIn, ChunksDisjointIn, Chunks
<1>2. /\ r.fr_by_nr = [f EXCEPT ![b] = 0]
      /\ r.fr_by_cnt = m.fr_by_cnt \ {<<f[b], b>>}
  BY DEF Removed
<1>3. /\ Chunks(r) = Chunks(m) \ {b}
      /\ \A c \in Chunks(m) \ {b} : r.fr_by_nr[c] = f[c]
  BY <1>1, <1>2 DEF Chunks
<1>4. r \in FreeMaps
  <2>1. r.fr_by_nr \in [BlkNrs -> BlkCnts]
    BY <1>1, <1>2, ExtentAssumption DEF BlkCnts
  <2>2. r.fr_by_cnt \in SUBSET ((BlkCnts \ {0}) \X BlkNrs)
    BY <1>1, <1>2
  <2>3. r = [fr_by_nr |-> r.fr_by_nr, fr_by_cnt |-> r.fr_by_cnt]
    BY DEF Removed
  <2> QED BY <2>1, <2>2, <2>3 DEF FreeMaps
<1>5. IndexesAgreeIn(r)
  <2>1. r.fr_by_cnt = {<<f[c], c>> : c \in Chunks(m) \ {b}}
    BY <1>1, <1>2
  <2>2. {<<f[c], c>> : c \in Chunks(m) \ {b}}
          = {<<r.fr_by_nr[c], c>> : c \in Chunks(m) \ {b}}
    BY <1>3
  <2> QED BY <1>3, <2>1, <2>2 DEF IndexesAgreeIn
<1>6. ChunksDisjointIn(r)
  BY <1>1, <1>3 DEF ChunksDisjointIn
<1>7. WellFormed(r)
  BY <1>4, <1>5, <1>6 DEF WellFormed
<1>8. FreeBlksOf(r) = UNION {ChunkBlks(m, c) : c \in Chunks(m) \ {b}}
  <2>1. \A c \in Chunks(m) \ {b} : ChunkBlks(r, c) = ChunkBlks(m, c)
    BY <1>3 DEF ChunkBlks
  <2>2. FreeBlksOf(r) = UNION {ChunkBlks(r, c) : c \in Chunks(r)}
    BY <1>7, WellFormedFacts
  <2> QED BY <1>3, <2>1, <2>2
<1>9. FreeBlksOf(m) = UNION {ChunkBlks(m, c) : c \in Chunks(m)}
  BY WellFormedFacts
<1>10. \A c \in Chunks(m) \ {b} : ChunkBlks(m, b) \cap ChunkBlks(m, c) = {}
  BY ChunkBlksDisjoint
<1> QED
  BY <1>7, <1>8, <1>9, <1>10

\* alloc takes its blocks from a chunk that has them.
LEMMA UsableFacts ==
  ASSUME NEW m, WellFormed(m), NEW cnt \in BlkCnts \ {0}, NEW p \in Usable(m, cnt)
  PROVE  p[2] \in Chunks(m) /\ p = <<m.fr_by_nr[p[2]], p[2]>> /\ cnt <= m.fr_by_nr[p[2]]
<1>1. p \in m.fr_by_cnt /\ p[1] >= cnt
  <2>1. CASE p \in LowerBound(m, cnt)
    BY <2>1 DEF LowerBound
  <2>2. CASE NextBlkCnt(cnt) > cnt /\ p \in LowerBound(m, NextBlkCnt(cnt))
    <3>1. p \in m.fr_by_cnt /\ p[1] >= NextBlkCnt(cnt)
      BY <2>2 DEF LowerBound
    <3>2. p[1] \in Int
      BY <3>1, ExtentAssumption DEF WellFormed, FreeMaps, BlkCnts
    <3>3. NextBlkCnt(cnt) \in Int
      BY ExtentAssumption, FreeMapAssumption DEF NextBlkCnt, BlkCnts
    <3> QED
      BY <2>2, <3>1, <3>2, <3>3, ExtentAssumption DEF BlkCnts
  <2>3. NextBlkCnt(cnt) \in Int /\ cnt \in Int
    BY ExtentAssumption, FreeMapAssumption DEF NextBlkCnt, BlkCnts
  <2> QED
    BY <2>1, <2>2, <2>3 DEF Usable
<1>2. PICK b \in Chunks(m) : p = <<m.fr_by_nr[b], b>>
  BY <1>1, WellFormedFacts
<1> QED
  BY <1>1, <1>2, WellFormedFacts, ExtentAssumption DEF BlkCnts

\* A larger chunk is replaced by what remains of it.
LEMMA AllocSplits ==
  ASSUME NEW m, WellFormed(m), NEW cnt \in BlkCnts \ {0}, NEW b \in Chunks(m),
         cnt < m.fr_by_nr[b]
  PROVE  /\ AllocFrom(m, <<m.fr_by_nr[b], b>>, cnt)
              = Replaced(m, {b}, b + cnt, m.fr_by_nr[b] - cnt)
         /\ Replaceable(m, {b}, b + cnt, m.fr_by_nr[b] - cnt)
<1> DEFINE f == m.fr_by_nr
           p == <<f[b], b>>
           nr == b + cnt
           remain == f[b] - cnt
<1>1. /\ b \in BlkNrs /\ f[b] \in BlkCnts /\ f[b] # 0
      /\ b + f[b] <= MaxBlkNr + 1
      /\ cnt \in Nat /\ cnt > 0
  BY WellFormedFacts, ExtentAssumption DEF BlkCnts
<1>2. /\ nr \in BlkNrs /\ remain \in BlkCnts /\ remain # 0
      /\ nr + remain = b + f[b] /\ b < nr /\ nr < b + f[b]
  BY <1>1, ExtentAssumption DEF BlkNrs, BlkCnts
<1>3. \A c \in Chunks(m) \ {b} : /\ c \in BlkNrs /\ f[c] \in BlkCnts /\ f[c] # 0
                                 /\ c < b => c + f[c] <= b
                                 /\ b < c => b + f[b] <= c
  BY WellFormedFacts
<1>4. \A c \in Chunks(m) \ {b} : c + f[c] <= nr \/ nr + remain <= c
  BY <1>1, <1>2, <1>3, ExtentAssumption DEF BlkNrs, BlkCnts
<1>5. nr \notin Chunks(m)
  BY <1>1, <1>2, <1>3, ExtentAssumption DEF BlkNrs, BlkCnts
<1>6. AllocFrom(m, p, cnt) = Replaced(m, {b}, nr, remain)
  <2>1. f \in [BlkNrs -> BlkCnts]
    BY DEF WellFormed, FreeMaps
  <2>2. p[1] - cnt # 0 /\ b # nr
    BY <1>1, <1>2, ExtentAssumption DEF BlkNrs, BlkCnts
  <2>3. [f EXCEPT ![b] = 0, ![nr] = remain]
          = [x \in BlkNrs |-> IF x = nr THEN remain ELSE IF x \in {b} THEN 0 ELSE f[x]]
    BY <1>1, <1>2, <2>1, <2>2
  <2>4. {p} = {<<f[x], x>> : x \in {b}}
    OBVIOUS
  <2>5. AllocFrom(m, p, cnt)
          = [fr_by_nr |-> [f EXCEPT ![b] = 0, ![nr] = remain],
             fr_by_cnt |-> (m.fr_by_cnt \ {p}) \cup {<<remain, nr>>}]
    BY <1>1, <2>2 DEF AllocFrom
  <2> QED  BY <2>3, <2>4, <2>5 DEF Replaced
<1>7. Replaceable(m, {b}, nr, remain)
  BY <1>1, <1>2, <1>4, <1>5 DEF Replaceable
<1> QED
  BY <1>6, <1>7

\* A successful alloc takes exactly the blocks it returns, all of them free.
LEMMA AllocCorrect ==
  ASSUME NEW m, WellFormed(m), NEW cnt \in BlkCnts \ {0}, NEW p \in Usable(m, cnt)
  PROVE  /\ WellFormed(AllocFrom(m, p, cnt))
         /\ FullExtent(p[2], cnt) \in FullExtents
         /\ BlksOf(FullExtent(p[2], cnt)) \subseteq FreeBlksOf(m)
         /\ FreeBlksOf(AllocFrom(m, p, cnt)) =
              FreeBlksOf(m) \ BlksOf(FullExtent(p[2], cnt))
<1> DEFINE f == m.fr_by_nr
           ext == FullExtent(p[2], cnt)
<1>2. PICK b \in Chunks(m) : p = <<f[b], b>> /\ cnt <= f[b]
  BY UsableFacts
<1>3. /\ p[1] = f[b] /\ p[2] = b
      /\ b \in BlkNrs /\ f[b] \in BlkCnts /\ f[b] # 0 /\ cnt <= f[b]
      /\ b + f[b] <= MaxBlkNr + 1
      /\ cnt \in Nat /\ cnt > 0
  BY <1>2, WellFormedFacts, ExtentAssumption DEF BlkCnts
<1>4. ext \in FullExtents
  BY <1>3, MakeFullExtent, ExtentAssumption DEF BlkNrs, BlkCnts
<1>5. BlksOf(ext) = {x \in BlkNrs : b <= x /\ x < b + cnt}
  BY <1>3, <1>4, FullExtentFacts DEF FullExtent
<1>6. BlksOf(ext) \subseteq ChunkBlks(m, b)
  BY <1>3, <1>5, ExtentAssumption DEF ChunkBlks, BlkNrs, BlkCnts
<1>7. FreeBlksOf(m) = UNION {ChunkBlks(m, c) : c \in Chunks(m)}
  BY WellFormedFacts
<1>8. CASE f[b] = cnt
  <2>1. AllocFrom(m, p, cnt) = Removed(m, b)
    <3>1. p[1] - cnt = 0
      BY <1>3, <1>8
    <3> QED BY <1>2, <1>3, <3>1 DEF AllocFrom, Removed
  <2>2. BlksOf(ext) = ChunkBlks(m, b)
    BY <1>5, <1>8 DEF ChunkBlks
  <2> QED
    BY <1>4, <1>6, <1>7, <2>1, <2>2, RemovedCorrect
<1>9. CASE f[b] # cnt
  <2> DEFINE nr == b + cnt
             remain == f[b] - cnt
  <2>1. /\ nr \in BlkNrs /\ remain \in BlkCnts /\ remain # 0
        /\ nr + remain = b + f[b] /\ b < nr /\ nr < b + f[b]
    BY <1>3, <1>9, ExtentAssumption DEF BlkNrs, BlkCnts
  <2>5. /\ AllocFrom(m, p, cnt) = Replaced(m, {b}, nr, remain)
        /\ Replaceable(m, {b}, nr, remain)
    BY <1>2, <1>3, <1>9, AllocSplits, ExtentAssumption DEF BlkCnts
  <2>6. Replaceable(m, {b}, nr, remain)
    BY <2>5
  <2> HIDE DEF nr, remain
  <2>7. /\ WellFormed(Replaced(m, {b}, nr, remain))
        /\ FreeBlksOf(Replaced(m, {b}, nr, remain)) =
             {x \in BlkNrs : nr <= x /\ x < nr + remain}
               \cup UNION {ChunkBlks(m, c) : c \in Chunks(m) \ {b}}
    <3> HIDE DEF f, ext
    <3>1. WellFormed(Replaced(m, {b}, nr, remain))
      BY <2>6, ReplacedWellFormed, Zenon
    <3>2. FreeBlksOf(Replaced(m, {b}, nr, remain)) =
             {x \in BlkNrs : nr <= x /\ x < nr + remain}
               \cup UNION {ChunkBlks(m, c) : c \in Chunks(m) \ {b}}
      BY <2>6, ReplacedFreeBlks, Zenon
    <3> QED
      BY <3>1, <3>2
  <2>8. {x \in BlkNrs : nr <= x /\ x < nr + remain} = ChunkBlks(m, b) \ BlksOf(ext)
    BY <1>3, <1>5, <2>1, ExtentAssumption DEF ChunkBlks, BlkNrs, BlkCnts, nr
  <2>9. \A c \in Chunks(m) \ {b} : ChunkBlks(m, b) \cap ChunkBlks(m, c) = {}
    BY ChunkBlksDisjoint
  <2>10. FreeBlksOf(AllocFrom(m, p, cnt)) = FreeBlksOf(m) \ BlksOf(ext)
    <3> DEFINE others == UNION {ChunkBlks(m, c) : c \in Chunks(m) \ {b}}
    <3>1. FreeBlksOf(m) = ChunkBlks(m, b) \cup others
      BY <1>7
    <3>2. others \cap ChunkBlks(m, b) = {}
      BY <2>9
    <3>3. FreeBlksOf(AllocFrom(m, p, cnt)) = (ChunkBlks(m, b) \ BlksOf(ext)) \cup others
      BY <2>5, <2>7, <2>8
    <3> HIDE DEF others, ext
    <3> QED BY <1>6, <3>1, <3>2, <3>3
  <2>11. BlksOf(ext) \subseteq FreeBlksOf(m)
    BY <1>6, <1>7
  <2>12. WellFormed(AllocFrom(m, p, cnt))
    BY <2>5, <2>7
  <2> QED
    BY <1>4, <2>10, <2>11, <2>12
<1> QED
  BY <1>8, <1>9

\* A release that does not throw takes exactly the blocks of its chunk.
LEMMA ReleaseCorrect ==
  ASSUME NEW m, WellFormed(m), NEW e \in FullExtents, IsChunk(m, e)
  PROVE  /\ WellFormed(Release(m, e))
         /\ BlksOf(e) \subseteq FreeBlksOf(m)
         /\ FreeBlksOf(Release(m, e)) = FreeBlksOf(m) \ BlksOf(e)
<1>1. e.blk_nr \in Chunks(m) /\ m.fr_by_nr[e.blk_nr] = e.blk_cnt
  BY DEF IsChunk
<1>2. Release(m, e) = Removed(m, e.blk_nr)
  BY <1>1 DEF Release, Removed
<1>3. BlksOf(e) = ChunkBlks(m, e.blk_nr)
  BY <1>1, FullExtentFacts DEF ChunkBlks
<1>4. FreeBlksOf(m) = UNION {ChunkBlks(m, c) : c \in Chunks(m)}
  BY WellFormedFacts
<1> QED
  BY <1>1, <1>2, <1>3, <1>4, RemovedCorrect

\* The hint of a failed alloc is 0 or the greatest count of a chunk among
\* those smaller than the request.
LEMMA ClosestFacts ==
  ASSUME NEW m, WellFormed(m), NEW cnt \in BlkCnts \ {0}
  PROVE  LET closest == ClosestBlkCnt(m, cnt)
         IN  /\ closest \in BlkCnts
             /\ closest < cnt
             /\ closest # 0 => \E p \in m.fr_by_cnt : p[1] = closest
             /\ \A p \in m.fr_by_cnt : p[1] < cnt => p[1] <= closest
<1> DEFINE below == {p[1] : p \in {q \in m.fr_by_cnt : q[1] < cnt}}
           greatest == CHOOSE c \in below : \A d \in below : d <= c
<1>1. \A p \in m.fr_by_cnt : p[1] \in BlkCnts
  BY DEF WellFormed, FreeMaps
<1>2. cnt \in Nat /\ cnt > 0 /\ 0 \in BlkCnts /\ BlkCnts \subseteq Nat
  BY ExtentAssumption DEF BlkCnts
<1>3. CASE below = {}
  <2>1. ClosestBlkCnt(m, cnt) = 0
    BY <1>3 DEF ClosestBlkCnt
  <2>2. \A p \in m.fr_by_cnt : ~ (p[1] < cnt)
    BY <1>3
  <2> QED BY <1>2, <2>1, <2>2
<1>4. CASE below # {}
  <2>1. below \in SUBSET Nat /\ \A d \in below : d <= cnt
    <3>1. \A d \in below : d \in BlkCnts /\ d < cnt
      BY <1>1
    <3>2. ASSUME NEW d \in below PROVE d \in Nat /\ d <= cnt
      <4>1. d \in BlkCnts /\ d < cnt
        BY <3>1
      <4> HIDE DEF below
      <4> QED BY <1>2, <4>1
    <3> HIDE DEF below
    <3> QED BY <3>2
  <2> HIDE DEF below
  <2>2. \E c \in below : \A d \in below : d <= c
    BY <1>2, <1>4, <2>1, GreatestExists
  <2>3. greatest \in below /\ \A d \in below : d <= greatest
    BY <2>2
  <2>4. ClosestBlkCnt(m, cnt) = greatest
    BY <1>4 DEF ClosestBlkCnt, below
  <2> HIDE DEF greatest
  <2>5. PICK p \in m.fr_by_cnt : p[1] < cnt /\ p[1] = greatest
    BY <2>3 DEF below
  <2>6. \A q \in m.fr_by_cnt : q[1] < cnt => q[1] <= greatest
    BY <2>3 DEF below
  <2> QED BY <1>1, <2>4, <2>5, <2>6
<1> QED BY <1>3, <1>4

-----------------------------------------------------------------------------
(* A failed alloc *)

\* lower_bound finds nothing only if every count is smaller.
LEMMA LowerBoundEmpty ==
  ASSUME NEW m, WellFormed(m), NEW cnt \in Nat, LowerBound(m, cnt) = {}
  PROVE  \A p \in m.fr_by_cnt : p[1] < cnt
<1> SUFFICES ASSUME NEW p \in m.fr_by_cnt, p[1] >= cnt PROVE FALSE
  BY ExtentAssumption DEF WellFormed, FreeMaps, BlkCnts
<1> DEFINE S == {q[1] : q \in {q \in m.fr_by_cnt : q[1] >= cnt}}
<1>1. S \in SUBSET Nat /\ S # {}
  <2>1. \A q \in m.fr_by_cnt : q[1] \in BlkCnts
    BY DEF WellFormed, FreeMaps
  <2> QED BY <2>1, ExtentAssumption DEF BlkCnts
<1>2. PICK c \in S : \A d \in S : c <= d
  BY <1>1, LeastExists
<1>3. PICK q \in m.fr_by_cnt : q[1] >= cnt /\ q[1] = c
  BY <1>2
<1>4. q \in LowerBound(m, cnt)
  BY <1>2, <1>3 DEF LowerBound
<1> QED BY <1>4

\* alloc gives up only if every chunk is smaller than the request or would
\* leave too small a remainder.
LEMMA UsableEmpty ==
  ASSUME NEW m, WellFormed(m), NEW cnt \in BlkCnts \ {0}, Usable(m, cnt) = {}
  PROVE  \A p \in m.fr_by_cnt : p[1] # cnt /\ p[1] <= cnt + SplitAboveThreshold
<1> DEFINE T == SplitAboveThreshold
           best == LowerBound(m, cnt)
<1>1. /\ cnt \in Nat /\ T \in Nat /\ T <= MaxBlkCnt /\ MaxBlkCnt \in Nat /\ cnt > 0
      /\ \A p \in m.fr_by_cnt : p[1] \in Nat /\ p[1] <= MaxBlkCnt
  BY ExtentAssumption, FreeMapAssumption DEF WellFormed, FreeMaps, BlkCnts
<1>2. CASE best = {}
  BY <1>1, <1>2, LowerBoundEmpty
<1>3. CASE best # {}
  <2>1. PICK p \in best : p[1] # cnt /\ p[1] - cnt <= T
    BY <1>1, <1>3 DEF Usable, LowerBound
  <2>2. \A q \in m.fr_by_cnt : q[1] # cnt
    BY <1>1, <2>1 DEF LowerBound
  <2>3. CASE NextBlkCnt(cnt) <= cnt
    BY <1>1, <2>2, <2>3 DEF NextBlkCnt
  <2>4. CASE ~ (NextBlkCnt(cnt) <= cnt)
    <3>1. NextBlkCnt(cnt) \in Nat /\ NextBlkCnt(cnt) <= cnt + T + 1
      BY <1>1 DEF NextBlkCnt
    <3>2. LowerBound(m, NextBlkCnt(cnt)) = {}
      BY <1>1, <2>1, <2>4 DEF Usable
    <3>3. \A q \in m.fr_by_cnt : q[1] < NextBlkCnt(cnt)
      BY <3>1, <3>2, LowerBoundEmpty
    <3> QED BY <1>1, <2>2, <3>1, <3>3
  <2> QED BY <2>3, <2>4
<1> QED BY <1>2, <1>3

-----------------------------------------------------------------------------
(* The map of free subblocks *)

SubWellFormed(m) == m \in SubFreeMaps /\ BinsAgreeIn(m)

\* A bitmap that is not empty has a bin; the last bin is the one of full blocks.
LEMMA BinOfFacts ==
  /\ \A bitmap \in Bitmaps : bitmap # {} => BinOf(bitmap) \in Bins
  /\ BinOf(Subblks) = SubblkCntPerBlk - 1
  /\ Subblks # {}
<1>1. IsFiniteSet(Subblks) /\ Cardinality(Subblks) = SubblkCntPerBlk
  BY FS_Interval, ExtentAssumption DEF Subblks
<1>2. ASSUME NEW bitmap \in Bitmaps, bitmap # {} PROVE BinOf(bitmap) \in Bins
  <2>1. IsFiniteSet(bitmap) /\ Cardinality(bitmap) <= SubblkCntPerBlk
    BY <1>1, FS_Subset DEF Bitmaps
  <2>2. Cardinality(bitmap) \in Nat /\ Cardinality(bitmap) # 0
    BY <1>2, <2>1, FS_CardinalityType, FS_EmptySet
  <2> QED
    BY <2>1, <2>2, ExtentAssumption DEF BinOf, Bins
<1>3. 0 \in Subblks
  BY ExtentAssumption DEF Subblks
<1> QED
  BY <1>1, <1>2, <1>3 DEF BinOf

\* What is counted of a block is a number.
LEMMA CountIsInt == \A s \in SUBSET Subblks : Cardinality(s) \in Int
<1>1. IsFiniteSet(Subblks)
  BY FS_Interval, ExtentAssumption DEF Subblks
<1> QED
  BY <1>1, FS_Subset, FS_CardinalityType

\* The bins of a well formed map, element by element.
LEMMA InBin ==
  ASSUME NEW m, SubWellFormed(m), NEW i \in Bins, NEW x
  PROVE  x \in m.exts_bin[i] <=>
           \E b \in BlkNrs : /\ x = <<b, m.fr_by_nr[b]>>
                             /\ m.fr_by_nr[b] # {} /\ BinOf(m.fr_by_nr[b]) = i
BY DEF SubWellFormed, BinsAgreeIn, InSubMap

\* Every call but release moves one block between two bins, or in or out.
LEMMA RebinnedCorrect ==
  ASSUME NEW m, SubWellFormed(m), NEW nr \in BlkNrs, NEW after \in Bitmaps
  PROVE  LET r == Rebinned(m, nr, m.fr_by_nr[nr], after)
         IN  /\ SubWellFormed(r)
             /\ r.fr_by_nr = [m.fr_by_nr EXCEPT ![nr] = after]
<1> DEFINE before == m.fr_by_nr[nr]
           r == Rebinned(m, nr, before, after)
           f == m.fr_by_nr
           g == r.fr_by_nr
<1>1. /\ f \in [BlkNrs -> Bitmaps]
      /\ m.exts_bin \in [Bins -> SUBSET (BlkNrs \X Bitmaps)]
  BY DEF SubWellFormed, SubFreeMaps
<1>2. /\ g = [f EXCEPT ![nr] = after]
      /\ g \in [BlkNrs -> Bitmaps]
      /\ g[nr] = after
      /\ \A b \in BlkNrs : b # nr => g[b] = f[b]
  BY <1>1 DEF Rebinned
<1>3. \A i \in Bins : r.exts_bin[i] =
        (IF before # {} /\ i = BinOf(before)
         THEN {x \in m.exts_bin[i] : x[1] # nr} ELSE m.exts_bin[i])
          \cup (IF after # {} /\ i = BinOf(after) THEN {<<nr, after>>} ELSE {})
  BY DEF Rebinned
<1>4. ASSUME NEW i \in Bins
      PROVE  r.exts_bin[i] = {<<b, g[b]>> : b \in {c \in BlkNrs : g[c] # {} /\ BinOf(g[c]) = i}}
  <2> DEFINE old == {<<b, f[b]>> : b \in {c \in BlkNrs : c # nr /\ f[c] # {} /\ BinOf(f[c]) = i}}
             new == IF after # {} /\ i = BinOf(after) THEN {<<nr, after>>} ELSE {}
  <2>1. m.exts_bin[i] = {<<b, f[b]>> : b \in {c \in BlkNrs : f[c] # {} /\ BinOf(f[c]) = i}}
    BY DEF SubWellFormed, BinsAgreeIn, InSubMap
  <2>2. (IF before # {} /\ i = BinOf(before)
         THEN {x \in m.exts_bin[i] : x[1] # nr} ELSE m.exts_bin[i]) = old
    <3>1. CASE before # {} /\ i = BinOf(before)
      BY <2>1, <3>1
    <3>2. CASE ~ (before # {} /\ i = BinOf(before))
      BY <2>1, <3>2
    <3> QED BY <3>1, <3>2
  <2>3. {<<b, g[b]>> : b \in {c \in BlkNrs : g[c] # {} /\ BinOf(g[c]) = i}} = old \cup new
    BY <1>2
  <2> QED
    BY <1>3, <2>2, <2>3
<1>5. r.exts_bin \in [Bins -> SUBSET (BlkNrs \X Bitmaps)]
  <2>1. r.exts_bin = [i \in Bins |-> r.exts_bin[i]]
    BY DEF Rebinned
  <2>2. \A i \in Bins : r.exts_bin[i] \in SUBSET (BlkNrs \X Bitmaps)
    BY <1>2, <1>4
  <2> HIDE DEF r
  <2> QED BY <2>1, <2>2
<1>6. r \in SubFreeMaps
  <2>1. r = [fr_by_nr |-> r.fr_by_nr, exts_bin |-> r.exts_bin]
    BY DEF Rebinned
  <2> QED BY <1>2, <1>5, <2>1 DEF SubFreeMaps
<1>7. BinsAgreeIn(r)
  BY <1>4 DEF BinsAgreeIn, InSubMap
<1> QED
  BY <1>2, <1>6, <1>7 DEF SubWellFormed

\* release takes its blocks out of the map, and nothing else.
LEMMA ReleaseSubCorrect ==
  ASSUME NEW m, SubWellFormed(m),
         NEW blks \in SUBSET BlkNrs, \A b \in blks : m.fr_by_nr[b] = Subblks
  PROVE  /\ SubWellFormed(ReleaseSub(m, blks))
         /\ ReleaseSub(m, blks).fr_by_nr =
              [b \in BlkNrs |-> IF b \in blks THEN {} ELSE m.fr_by_nr[b]]
<1> DEFINE r == ReleaseSub(m, blks)
           f == m.fr_by_nr
           g == r.fr_by_nr
           last == SubblkCntPerBlk - 1
<1>1. /\ f \in [BlkNrs -> Bitmaps]
      /\ m.exts_bin \in [Bins -> SUBSET (BlkNrs \X Bitmaps)]
  BY DEF SubWellFormed, SubFreeMaps
<1>2. /\ g = [b \in BlkNrs |-> IF b \in blks THEN {} ELSE f[b]]
      /\ g \in [BlkNrs -> Bitmaps]
  BY <1>1 DEF ReleaseSub, Bitmaps
<1>3. \A i \in Bins : r.exts_bin[i] =
        IF i = last THEN {x \in m.exts_bin[i] : x[1] \notin blks} ELSE m.exts_bin[i]
  BY <1>1 DEF ReleaseSub
<1>4. ASSUME NEW i \in Bins
      PROVE  r.exts_bin[i] = {<<b, g[b]>> : b \in {c \in BlkNrs : g[c] # {} /\ BinOf(g[c]) = i}}
  <2>1. m.exts_bin[i] = {<<b, f[b]>> : b \in {c \in BlkNrs : f[c] # {} /\ BinOf(f[c]) = i}}
    BY DEF SubWellFormed, BinsAgreeIn, InSubMap
  <2> DEFINE kept == {c \in BlkNrs : c \notin blks /\ f[c] # {} /\ BinOf(f[c]) = i}
  <2>2. {c \in BlkNrs : g[c] # {} /\ BinOf(g[c]) = i} = kept /\ \A c \in kept : g[c] = f[c]
    BY <1>2
  <2>3. r.exts_bin[i] = {<<b, f[b]>> : b \in kept}
    <3>1. CASE i = last
      <4>1. r.exts_bin[i] = {x \in m.exts_bin[i] : x[1] \notin blks}
        BY <1>3, <3>1
      <4>2. {x \in {<<b, f[b]>> : b \in {c \in BlkNrs : f[c] # {} /\ BinOf(f[c]) = i}} :
               x[1] \notin blks} = {<<b, f[b]>> : b \in kept}
        OBVIOUS
      <4> QED BY <2>1, <4>1, <4>2
    <3>2. CASE i # last
      <4>1. \A c \in blks : BinOf(f[c]) # i
        BY <3>2, BinOfFacts
      <4>2. kept = {c \in BlkNrs : f[c] # {} /\ BinOf(f[c]) = i}
        BY <4>1
      <4> QED BY <1>3, <2>1, <3>2, <4>2
    <3> QED BY <3>1, <3>2
  <2> HIDE DEF kept
  <2> QED BY <2>2, <2>3
<1>5. r.exts_bin \in [Bins -> SUBSET (BlkNrs \X Bitmaps)]
  BY <1>1 DEF ReleaseSub
<1>6. r \in SubFreeMaps
  <2>1. r = [fr_by_nr |-> r.fr_by_nr, exts_bin |-> r.exts_bin]
    BY DEF ReleaseSub
  <2> QED BY <1>2, <1>5, <2>1 DEF SubFreeMaps
<1>7. BinsAgreeIn(r)
  BY <1>4 DEF BinsAgreeIn, InSubMap
<1> QED
  BY <1>2, <1>6, <1>7 DEF SubWellFormed

-----------------------------------------------------------------------------
(* The subblocks that are taken of a block *)

\* At least one subblock is taken, from those that are free.
LEMMA TakenBitsFacts ==
  ASSUME NEW bitmap \in Bitmaps, bitmap # {}, NEW cnt \in Nat \ {0}
  PROVE  TakenBits(bitmap, cnt) # {} /\ TakenBits(bitmap, cnt) \subseteq bitmap
<1>1. /\ bitmap \in SUBSET Nat /\ \A i \in bitmap : i <= SubblkCntPerBlk
      /\ SubblkCntPerBlk \in Nat
  BY ExtentAssumption DEF Bitmaps, Subblks
<1>2. PICK i \in bitmap : \A j \in bitmap : j <= i
  BY <1>1, GreatestExists
<1>3. {j \in bitmap : j > i} = {}
  <2>1. \A j \in bitmap : j \in Int /\ i \in Int /\ ~ (j > i)
    BY <1>1, <1>2
  <2> QED
    BY <2>1
<1>4. Cardinality({j \in bitmap : j > i}) = 0
  BY <1>3, FS_EmptySet
<1>5. i \in TakenBits(bitmap, cnt)
  BY <1>4 DEF TakenBits
<1> QED
  BY <1>5 DEF TakenBits

\* Of the subblocks of a block, as many are taken as asked for.
LEMMA TakenBitsCount ==
  ASSUME NEW bitmap \in Bitmaps
  PROVE  \A cnt \in Nat : cnt <= Cardinality(bitmap) =>
           Cardinality(TakenBits(bitmap, cnt)) = cnt
<1> DEFINE Above(i) == {j \in bitmap : j > i}
           R(i) == Cardinality(Above(i))
           T(n) == {i \in bitmap : R(i) < n}
           Bad == {n \in Nat : n <= Cardinality(bitmap) /\ Cardinality(T(n)) # n}
<1>1. /\ bitmap \in SUBSET Nat /\ IsFiniteSet(bitmap) /\ Cardinality(bitmap) \in Nat
      /\ \A i \in bitmap : i <= SubblkCntPerBlk
      /\ SubblkCntPerBlk \in Nat
      /\ \A s \in SUBSET bitmap : IsFiniteSet(s) /\ Cardinality(s) \in Nat
  <2>1. /\ \A i \in Subblks : i \in Nat /\ i <= SubblkCntPerBlk
        /\ IsFiniteSet(Subblks) /\ SubblkCntPerBlk \in Nat
    BY ExtentAssumption, FS_Interval DEF Subblks
  <2>2. bitmap \subseteq Subblks
    BY DEF Bitmaps
  <2>3. IsFiniteSet(bitmap)
    BY <2>1, <2>2, FS_Subset
  <2>4. \A s \in SUBSET bitmap : IsFiniteSet(s) /\ Cardinality(s) \in Nat
    BY <2>3, FS_Subset, FS_CardinalityType
  <2> QED
    BY <2>1, <2>2, <2>3, <2>4
<1>2. \A i \in bitmap : R(i) \in Nat
  BY <1>1
<1>3. ASSUME NEW i \in bitmap, NEW j \in bitmap, i < j PROVE R(j) < R(i)
  <2>0. i \in Nat /\ \A k \in bitmap : k \in Nat
    BY <1>1
  <2>1. j \notin Above(j) /\ Above(j) \cup {j} \subseteq Above(i)
    <3>1. \A k \in bitmap : k > j => k > i
      BY <1>3, <2>0
    <3>2. j \in Nat /\ j > i
      BY <1>3, <2>0
    <3>3. Above(j) \subseteq Above(i)
      BY ONLY <3>1
    <3>4. j \in Above(i)
      BY <3>2
    <3>5. j \notin Above(j)
      BY <3>2
    <3> QED
      BY <3>3, <3>4, <3>5
  <2>2. Cardinality(Above(j) \cup {j}) = R(j) + 1
    BY <1>1, <2>1, FS_AddElement
  <2>3. Cardinality(Above(j) \cup {j}) <= R(i)
    BY <1>1, <2>1, FS_Subset
  <2> HIDE DEF R
  <2> QED
    BY <1>2, <2>2, <2>3
<1>4. \A n \in Nat : TakenBits(bitmap, n) = T(n)
  BY DEF TakenBits
<1>5. ASSUME NEW n \in Nat, n \notin Bad, n < Cardinality(bitmap)
      PROVE  n + 1 \notin Bad
  <2>1. Cardinality(T(n)) = n
    <3>1. n <= Cardinality(bitmap)
      BY <1>1, <1>5
    <3> HIDE DEF T
    <3> QED
      BY <1>5, <3>1
  <2> DEFINE Rest == bitmap \ T(n)
  <2>2. Rest # {}
    <3>1. ASSUME Rest = {} PROVE FALSE
      <4>1. T(n) = bitmap
        BY <3>1
      <4>2. n = Cardinality(bitmap)
        BY <2>1, <4>1
      <4> QED
        BY <1>1, <1>5, <4>2
    <3> QED
      BY <3>1
  <2>3. PICK g \in Rest : \A i \in Rest : i <= g
    <3>1. Rest \subseteq bitmap
      OBVIOUS
    <3> HIDE DEF Rest
    <3>2. Rest \in SUBSET Nat /\ \A i \in Rest : i <= SubblkCntPerBlk
      BY <1>1, <3>1
    <3> QED
      BY <1>1, <2>2, <3>2, GreatestExists
  <2> HIDE DEF R
  <2>4. g \in bitmap /\ ~ (R(g) < n) /\ \A i \in bitmap : ~ (R(i) < n) => i <= g
    BY <2>3
  <2>5. Above(g) = T(n)
    <3>1. ASSUME NEW j \in bitmap, j > g PROVE R(j) < n
      BY <1>1, <2>4, <3>1
    <3>2. ASSUME NEW j \in bitmap, R(j) < n PROVE j > g
      <4>1. j # g
        BY <2>4, <3>2
      <4>2. ~ (j < g)
        <5>1. ASSUME j < g PROVE FALSE
          <6>1. R(g) < R(j)
            BY <1>3, <2>4, <5>1
          <6> QED
            BY <1>2, <2>4, <3>2, <6>1
        <5> QED
          BY <5>1
      <4> QED
        BY <1>1, <2>4, <4>1, <4>2
    <3> QED
      BY <3>1, <3>2
  <2>6. R(g) = n
    BY <2>1, <2>5 DEF R
  <2>7. T(n + 1) = T(n) \cup {g}
    <3>1. ASSUME NEW i \in bitmap, R(i) < n + 1, ~ (R(i) < n) PROVE i = g
      <4>1. R(i) = n
        BY <1>2, <3>1
      <4>2. ~ (i < g)
        <5>1. ASSUME i < g PROVE FALSE
          <6>1. R(g) < R(i)
            BY <1>3, <2>4, <5>1
          <6> QED
            BY <2>6, <4>1, <6>1
        <5> QED
          BY <5>1
      <4> QED
        BY <1>1, <2>4, <3>1, <4>2
    <3>2. \A i \in bitmap : R(i) < n => R(i) < n + 1
      BY <1>2
    <3>3. R(g) < n + 1
      BY <2>6
    <3> QED
      BY <2>4, <3>1, <3>2, <3>3
  <2>8. Cardinality(T(n) \cup {g}) = n + 1
    <3>1. T(n) \in SUBSET bitmap /\ g \notin T(n)
      BY <2>4
    <3> HIDE DEF T
    <3> QED
      BY <1>1, <2>1, <3>1, FS_AddElement
  <2>9. Cardinality(T(n + 1)) = n + 1
    BY <2>7, <2>8
  <2> QED
    BY <2>9
<1>6. 0 \notin Bad
  <2>1. T(0) = {}
    <3> HIDE DEF R
    <3> QED
      BY <1>2
  <2>2. Cardinality(T(0)) = 0
    BY <2>1, FS_EmptySet
  <2> QED
    BY <2>2
<1>7. Bad = {}
  <2>1. Bad \in SUBSET Nat /\ \A n \in Bad : n <= Cardinality(bitmap)
    OBVIOUS
  <2> HIDE DEF Bad
  <2>2. ASSUME Bad # {} PROVE FALSE
    <3>1. PICK n \in Bad : \A k \in Bad : n <= k
      BY <2>1, <2>2, LeastExists
    <3>2. n \in Nat /\ n # 0 /\ n <= Cardinality(bitmap)
      BY <1>6, <2>1
    <3>3. n - 1 \in Nat /\ ~ (n <= n - 1) /\ (n - 1) + 1 = n
      BY <3>2
    <3>4. n - 1 \notin Bad
      BY <3>1, <3>3
    <3>5. n - 1 < Cardinality(bitmap)
      BY <1>1, <3>2, <3>3
    <3>6. (n - 1) + 1 \notin Bad
      BY <1>5, <3>3, <3>4, <3>5
    <3> QED
      BY <3>3, <3>6
  <2> QED
    BY <2>2
<1> QED
  <2> SUFFICES ASSUME NEW cnt \in Nat, cnt <= Cardinality(bitmap)
               PROVE  Cardinality(TakenBits(bitmap, cnt)) = cnt
    OBVIOUS
  <2>1. cnt \notin Bad
    BY <1>7
  <2>2. Cardinality(T(cnt)) = cnt
    BY <2>1
  <2> HIDE DEF T
  <2> QED
    BY <1>4, <2>2

-----------------------------------------------------------------------------
(* Division *)

\* The quotient and the remainder of a division.
LEMMA DivMod ==
  ASSUME NEW a \in Nat, NEW n \in Nat \ {0}
  PROVE  /\ (a % n) \in 0 .. n - 1
         /\ (a \div n) \in Nat
         /\ a = n * (a \div n) + (a % n)
OBVIOUS

\* There are no other two numbers like them.
LEMMA DivModUnique ==
  ASSUME NEW n \in Nat \ {0}, NEW q \in Nat, NEW r \in 0 .. n - 1
  PROVE  ((n * q + r) % n) = r /\ ((n * q + r) \div n) = q
<1> DEFINE a == n * q + r
           p == a \div n
           s == a % n
<1>1. a \in Nat
  OBVIOUS
<1>2. /\ s \in 0 .. n - 1
      /\ p \in Nat
      /\ a = n * p + s
  BY <1>1, DivMod
<1> HIDE DEF p, s
<1>3. n * q + r = n * p + s
  BY <1>2
<1>4. ~ (q < p)
  <2> SUFFICES ASSUME q < p PROVE FALSE
    OBVIOUS
  <2>1. PICK k \in Nat : p = q + 1 + k
    <3>1. p - q - 1 \in Nat /\ p = q + 1 + (p - q - 1)
      BY <1>2
    <3> QED
      BY <3>1
  <2>2. n * p = n * q + n + n * k
    BY <1>2, <2>1
  <2>3. n * k \in Nat /\ n * q \in Nat
    BY <2>1
  <2> QED
    BY <1>2, <1>3, <2>2, <2>3
<1>5. ~ (p < q)
  <2> SUFFICES ASSUME p < q PROVE FALSE
    OBVIOUS
  <2>1. PICK k \in Nat : q = p + 1 + k
    <3>1. q - p - 1 \in Nat /\ q = p + 1 + (q - p - 1)
      BY <1>2
    <3> QED
      BY <3>1
  <2>2. n * q = n * p + n + n * k
    BY <1>2, <2>1
  <2>3. n * k \in Nat /\ n * p \in Nat
    BY <1>2, <2>1
  <2> QED
    BY <1>2, <1>3, <2>2, <2>3
<1>6. p = q /\ s = r
  BY <1>2, <1>3, <1>4, <1>5
<1> QED
  BY <1>6 DEF p, s

-----------------------------------------------------------------------------
(* The words of an extent *)

\* The extents of any segment, and the one before the first.
AnyExtents ==
  [is_suballoc : {FALSE}, blk_nr : Nat, blk_cnt : Nat]
    \cup [is_suballoc : {TRUE}, blk_nr : Nat, blk_bitmap : Bitmaps]

\* No block of one is of the other, other than in two bitmaps of one block.
ClearOf(ref, target) ==
  /\ ref.blk_nr < target.blk_nr => ref.blk_nr + BlkSpan(ref) <= target.blk_nr
  /\ target.blk_nr < ref.blk_nr => target.blk_nr + BlkSpan(target) <= ref.blk_nr

LEMMA ExtentFacts ==
  ASSUME NEW e \in AnyExtents
  PROVE  /\ e.is_suballoc \in BOOLEAN
         /\ e.blk_nr \in Nat /\ BlkSpan(e) \in Nat
         /\ e.is_suballoc => /\ e = SubExtent(e.blk_nr, e.blk_bitmap) /\ BlkSpan(e) = 1
         /\ ~ e.is_suballoc => /\ e = FullExtent(e.blk_nr, e.blk_cnt)
                               /\ e.blk_cnt \in Nat /\ BlkSpan(e) = e.blk_cnt
<1>1. CASE e \in [is_suballoc : {FALSE}, blk_nr : Nat, blk_cnt : Nat]
  <2>1. e = [is_suballoc |-> FALSE, blk_nr |-> e.blk_nr, blk_cnt |-> e.blk_cnt]
    BY <1>1
  <2>2. e.is_suballoc = FALSE /\ e.blk_nr \in Nat /\ e.blk_cnt \in Nat
    BY <1>1
  <2> QED  BY <2>1, <2>2 DEF FullExtent, BlkSpan
<1>2. CASE e \in [is_suballoc : {TRUE}, blk_nr : Nat, blk_bitmap : Bitmaps]
  <2>1. e = [is_suballoc |-> TRUE, blk_nr |-> e.blk_nr, blk_bitmap |-> e.blk_bitmap]
    BY <1>2
  <2>2. e.is_suballoc = TRUE /\ e.blk_nr \in Nat
    BY <1>2
  <2> QED  BY <2>1, <2>2 DEF SubExtent, BlkSpan
<1> QED
  BY <1>1, <1>2 DEF AnyExtents

LEMMA DistanceIsNat ==
  ASSUME NEW prev \in AnyExtents, NEW e \in AnyExtents, ClearOf(prev, e)
  PROVE  DistanceInBlks(prev, e) \in Nat
<1>1. /\ prev.blk_nr \in Nat /\ BlkSpan(prev) \in Nat
      /\ e.blk_nr \in Nat /\ BlkSpan(e) \in Nat
  BY ExtentFacts
<1> QED
  BY <1>1 DEF DistanceInBlks, PastEndBlkNr, ClearOf

(***************************************************************************)
(* A near extent is where its distance and direction say: the one case     *)
(* that no distance tells, another extent of the same block, is far.       *)
(***************************************************************************)
LEMMA NearIsExact ==
  ASSUME NEW prev \in AnyExtents, NEW e \in AnyExtents, ClearOf(prev, e), IsNear(prev, e)
  PROVE  e.blk_nr = IF IsBackwards(prev, e)
                    THEN prev.blk_nr - DistanceInBlks(prev, e) - BlkSpan(e)
                    ELSE prev.blk_nr + DistanceInBlks(prev, e) + BlkSpan(prev)
<1>1. /\ prev.blk_nr \in Nat /\ BlkSpan(prev) \in Nat
      /\ e.blk_nr \in Nat /\ BlkSpan(e) \in Nat
  BY ExtentFacts
<1>2. ~ (prev.blk_nr = e.blk_nr /\ BlkSpan(prev) # 0)
  BY DEF IsNear, ForceFar
<1> QED
  BY <1>1, <1>2 DEF DistanceInBlks, IsBackwards, PastEndBlkNr

-----------------------------------------------------------------------------
LEMMA NrIsExact ==
  ASSUME NEW n \in Nat
  PROVE  (n \div LoBlkNrCnt) * LoBlkNrCnt + (n % LoBlkNrCnt) = n
BY SegmentRecordAssumption

Nr(prev, e) ==
  IF IsNear(prev, e)
  THEN [jmp_offset |-> DistanceInBlks(prev, e), is_backward_dir |-> IsBackwards(prev, e)]
  ELSE [hi_blk_nr |-> e.blk_nr \div LoBlkNrCnt]

Header(prev, e) ==
  [is_inline |-> FALSE, is_suballoc |-> e.is_suballoc,
   smallcnt |-> SmallCnt(e), is_near |-> IsNear(prev, e)]

\* The words of the number, then at most one for the count or the bitmap.
NrWords(prev, e) ==
  IF IsNear(prev, e)
  THEN <<[hdr |-> Header(prev, e), nr |-> Nr(prev, e)]>>
  ELSE <<[hdr |-> Header(prev, e), nr |-> Nr(prev, e)], [lo_blk_nr |-> e.blk_nr % LoBlkNrCnt]>>

LEMMA ExtentWordsAre ==
  ASSUME NEW prev, NEW e
  PROVE  ExtentWords(prev, e) = NrWords(prev, e) \o CntWords(e)
BY DEF ExtentWords, NrWords, Header, Nr

LEMMA ShortSequences ==
  ASSUME NEW S, NEW a \in S, NEW b \in S
  PROVE  /\ << >> \in Seq(S) /\ Len(<< >>) = 0
         /\ <<a>> \in Seq(S) /\ Len(<<a>>) = 1
         /\ <<a, b>> \in Seq(S) /\ Len(<<a, b>>) = 2
OBVIOUS

LEMMA WordsOfExtent ==
  ASSUME NEW prev, NEW e
  PROVE  /\ Len(ExtentWords(prev, e)) = Len(NrWords(prev, e)) + Len(CntWords(e))
         /\ \A i \in 1 .. Len(NrWords(prev, e)) : ExtentWords(prev, e)[i] = NrWords(prev, e)[i]
         /\ Len(CntWords(e)) = 1
              => ExtentWords(prev, e)[Len(NrWords(prev, e)) + 1] = CntWords(e)[1]
<1> DEFINE s == NrWords(prev, e)
           t == CntWords(e)
           S == {s[1], s[2], t[1]}
<1>1. s \in Seq(S) /\ Len(s) \in {1, 2}
  <2> DEFINE first == [hdr |-> Header(prev, e), nr |-> Nr(prev, e)]
             low == [lo_blk_nr |-> e.blk_nr % LoBlkNrCnt]
  <2>1. s = <<first>> \/ s = <<first, low>>
    BY DEF NrWords
  <2> HIDE DEF first, low, s, t
  <2>2. CASE s = <<first>>
    <3>1. first \in S
      BY <2>2 DEF S
    <3> QED  BY <2>2, <3>1, ShortSequences
  <2>3. CASE s = <<first, low>>
    <3>1. first \in S /\ low \in S
      BY <2>3 DEF S
    <3> QED  BY <2>3, <3>1, ShortSequences
  <2> QED  BY <2>1, <2>2, <2>3
<1>2. t \in Seq(S) /\ Len(t) \in {0, 1}
  <2>1. t = << >> \/ \E w : t = <<w>>
    BY DEF CntWords
  <2> HIDE DEF s, t
  <2>2. s[1] \in S
    BY DEF S
  <2>3. CASE t = << >>
    BY <2>2, <2>3, ShortSequences
  <2>4. CASE \E w : t = <<w>>
    <3>1. PICK w : t = <<w>>
      BY <2>4
    <3>2. w \in S
      BY <3>1 DEF S
    <3> QED  BY <3>1, <3>2, ShortSequences
  <2> QED  BY <2>1, <2>3, <2>4
<1>3. ExtentWords(prev, e) = s \o t
  BY ExtentWordsAre
<1> HIDE DEF s, t, S
<1>4. /\ Len(s \o t) = Len(s) + Len(t)
      /\ \A i \in 1 .. Len(s) + Len(t) : (s \o t)[i] = IF i <= Len(s) THEN s[i] ELSE t[i - Len(s)]
  BY <1>1, <1>2, ConcatProperties
<1>5. \A i \in 1 .. Len(s) : (s \o t)[i] = s[i]
  BY <1>1, <1>2, <1>4
<1>6. Len(t) = 1 => (s \o t)[Len(s) + 1] = t[1]
  BY <1>1, <1>2, <1>4
<1> QED
  BY <1>3, <1>4, <1>5, <1>6 DEF s, t

LEMMA LenOfNrWords ==
  ASSUME NEW prev, NEW e
  PROVE  /\ Len(NrWords(prev, e)) = IF IsNear(prev, e) THEN 1 ELSE 2
         /\ NrWords(prev, e)[1] = [hdr |-> Header(prev, e), nr |-> Nr(prev, e)]
         /\ ~ IsNear(prev, e)
              => NrWords(prev, e)[2] = [lo_blk_nr |-> e.blk_nr % LoBlkNrCnt]
<1> DEFINE first == [hdr |-> Header(prev, e), nr |-> Nr(prev, e)]
           low == [lo_blk_nr |-> e.blk_nr % LoBlkNrCnt]
<1>1. NrWords(prev, e) = IF IsNear(prev, e) THEN <<first>> ELSE <<first, low>>
  BY DEF NrWords
<1> HIDE DEF first, low
<1>2. CASE IsNear(prev, e)
  BY <1>1, <1>2, ShortSequences DEF first
<1>3. CASE ~ IsNear(prev, e)
  BY <1>1, <1>3, ShortSequences DEF first, low
<1> QED
  BY <1>2, <1>3

LEMMA CntWordsTellTheCount ==
  ASSUME NEW e \in AnyExtents
  PROVE  /\ SmallCnt(e) \in Nat
         /\ Len(CntWords(e)) = IF ~ e.is_suballoc /\ SmallCnt(e) # 0 THEN 0 ELSE 1
         /\ e.is_suballoc => SmallCnt(e) = 0 /\ CntWords(e)[1].blk_bitmap = e.blk_bitmap
         /\ ~ e.is_suballoc =>
              e.blk_cnt = IF SmallCnt(e) # 0 THEN SmallCnt(e) ELSE CntWords(e)[1].blk_cnt
         /\ SmallCnt(e) # 0
              <=> ~ (e.is_suballoc \/ e.blk_cnt > SmallCntMax \/ e.blk_cnt = 0)
<1>1. CASE e.is_suballoc
  <2>1. SmallCnt(e) = 0
    BY <1>1 DEF SmallCnt
  <2>2. CntWords(e) = <<[blk_bitmap |-> e.blk_bitmap]>>
    BY <1>1 DEF CntWords
  <2> QED  BY <1>1, <2>1, <2>2
<1>2. CASE ~ e.is_suballoc
  <2>1. e.blk_cnt \in Nat
    BY <1>2, ExtentFacts
  <2>2. SmallCnt(e) = IF e.blk_cnt <= SmallCntMax THEN e.blk_cnt ELSE 0
    BY <1>2 DEF SmallCnt
  <2>3. SmallCnt(e) # 0 <=> ~ (e.blk_cnt > SmallCntMax \/ e.blk_cnt = 0)
    BY <2>1, <2>2, SegmentRecordAssumption
  <2>4. SmallCnt(e) # 0 => SmallCnt(e) = e.blk_cnt
    BY <2>2
  <2>5. CntWords(e) = IF SmallCnt(e) = 0 THEN <<[blk_cnt |-> e.blk_cnt]>> ELSE << >>
    BY <1>2 DEF CntWords
  <2>6. SmallCnt(e) \in Nat
    BY <2>1, <2>2
  <2>7. CASE SmallCnt(e) = 0
    <3>1. Len(CntWords(e)) = 1 /\ CntWords(e)[1].blk_cnt = e.blk_cnt
      BY <2>5, <2>7
    <3> QED  BY <1>2, <2>3, <2>7, <3>1
  <2>8. CASE SmallCnt(e) # 0
    <3>1. Len(CntWords(e)) = 0
      BY <2>5, <2>8
    <3> QED  BY <1>2, <2>3, <2>4, <2>6, <2>8, <3>1
  <2> QED  BY <2>7, <2>8
<1> QED
  BY <1>1, <1>2

-----------------------------------------------------------------------------
(***************************************************************************)
(* calc_struct_footprint_size counts the words that write_struct_into      *)
(* writes of each extent (segment.cpp:27-75 and 100-200).                  *)
(***************************************************************************)
THEOREM FootprintIsExact ==
  ASSUME NEW prev \in AnyExtents, NEW e \in AnyExtents
  PROVE  Len(ExtentWords(prev, e)) = ExtentFootprint(prev, e)
<1>1. Len(ExtentWords(prev, e)) = Len(NrWords(prev, e)) + Len(CntWords(e))
  BY WordsOfExtent
<1>2. Len(NrWords(prev, e)) = IF IsNear(prev, e) THEN 1 ELSE 2
  BY LenOfNrWords
<1>3. Len(CntWords(e)) =
        IF e.is_suballoc \/ e.blk_cnt > SmallCntMax \/ e.blk_cnt = 0 THEN 1 ELSE 0
  BY CntWordsTellTheCount
<1> QED
  BY <1>1, <1>2, <1>3 DEF ExtentFootprint

(***************************************************************************)
(* read_struct_from: an extent is read as it was written, with its words   *)
(* anywhere in a row, and the next one is looked for right after them. The *)
(* one before it may be of any kind; that they share no subblock is what   *)
(* the allocator keeps (segment.cpp:100-330).                              *)
(***************************************************************************)
THEOREM ExtentIsReadBack ==
  ASSUME NEW prev \in AnyExtents, NEW e \in AnyExtents, ClearOf(prev, e),
         NEW stream, NEW at \in Nat,
         \A i \in 1 .. Len(ExtentWords(prev, e)) :
           stream[at + i - 1] = ExtentWords(prev, e)[i]
  PROVE  ReadExtent(stream, at, prev) =
           [ext |-> e, at |-> at + Len(ExtentWords(prev, e))]
<1> DEFINE n == IF IsNear(prev, e) THEN 1 ELSE 2
           word == stream[at]
           at_cnt == at + (IF word.hdr.is_near THEN 1 ELSE 2)
           cnt == IF word.hdr.smallcnt # 0 THEN word.hdr.smallcnt ELSE stream[at_cnt].blk_cnt
           span == IF word.hdr.is_suballoc THEN 1 ELSE cnt
           nr == IF word.hdr.is_near THEN NearBlkNr(word, prev, span)
                 ELSE word.nr.hi_blk_nr * LoBlkNrCnt + stream[at + 1].lo_blk_nr
<1>n. n = Len(NrWords(prev, e)) /\ n \in {1, 2}
  BY LenOfNrWords
<1>1. Len(ExtentWords(prev, e)) = n + Len(CntWords(e))
  <2>1. Len(ExtentWords(prev, e)) = Len(NrWords(prev, e)) + Len(CntWords(e))
    BY WordsOfExtent
  <2> HIDE DEF n
  <2> QED  BY <1>n, <2>1
<1>2. Len(CntWords(e)) \in {0, 1}
  BY CntWordsTellTheCount
<1>w. \A i \in 1 .. n : stream[at + i - 1] = NrWords(prev, e)[i]
  <2> HIDE DEF n
  <2>1. \A i \in 1 .. n : ExtentWords(prev, e)[i] = NrWords(prev, e)[i]
    BY <1>n, WordsOfExtent
  <2> QED  BY <1>n, <1>1, <1>2, <2>1
<1>3. word = [hdr |-> Header(prev, e), nr |-> Nr(prev, e)]
  <2> HIDE DEF n
  <2>1. stream[at + 1 - 1] = NrWords(prev, e)[1]
    BY <1>n, <1>w
  <2>2. at + 1 - 1 = at
    OBVIOUS
  <2>3. NrWords(prev, e)[1] = [hdr |-> Header(prev, e), nr |-> Nr(prev, e)]
    BY LenOfNrWords
  <2> QED  BY <2>1, <2>2, <2>3
<1>4. /\ word.hdr.is_suballoc = e.is_suballoc
      /\ word.hdr.smallcnt = SmallCnt(e)
      /\ word.hdr.is_near = IsNear(prev, e)
      /\ word.nr = Nr(prev, e)
  BY <1>3 DEF Header
<1>5. at_cnt = at + n
  BY <1>4
<1>6. Len(CntWords(e)) = 1 => stream[at_cnt] = CntWords(e)[1]
  <2> HIDE DEF n
  <2>1. Len(CntWords(e)) = 1 => stream[at + (n + 1) - 1] = ExtentWords(prev, e)[n + 1]
    BY <1>n, <1>1
  <2>2. Len(CntWords(e)) = 1 => ExtentWords(prev, e)[n + 1] = CntWords(e)[1]
    BY <1>n, WordsOfExtent
  <2>3. at + (n + 1) - 1 = at + n
    BY <1>n
  <2> HIDE DEF at_cnt
  <2> QED  BY <1>5, <2>1, <2>2, <2>3
<1>7. ~ e.is_suballoc => cnt = e.blk_cnt
  BY <1>4, <1>6, CntWordsTellTheCount
<1>8. span = BlkSpan(e)
  BY <1>4, <1>7, ExtentFacts
<1>9. nr = e.blk_nr
  <2>1. CASE IsNear(prev, e)
    <3>1. /\ word.nr.jmp_offset = DistanceInBlks(prev, e)
          /\ word.nr.is_backward_dir = IsBackwards(prev, e)
      BY <1>4, <2>1 DEF Nr
    <3>2. nr = NearBlkNr(word, prev, BlkSpan(e))
      BY <1>4, <1>8, <2>1
    <3> QED  BY <2>1, <3>1, <3>2, NearIsExact DEF NearBlkNr
  <2>2. CASE ~ IsNear(prev, e)
    <3>1. word.nr.hi_blk_nr = e.blk_nr \div LoBlkNrCnt
      BY <1>4, <2>2 DEF Nr
    <3>2. stream[at + 1].lo_blk_nr = e.blk_nr % LoBlkNrCnt
      <4>1. stream[at + 2 - 1] = NrWords(prev, e)[2]
        BY <1>w, <2>2
      <4>2. NrWords(prev, e)[2] = [lo_blk_nr |-> e.blk_nr % LoBlkNrCnt]
        BY <2>2, LenOfNrWords
      <4>3. at + 2 - 1 = at + 1
        OBVIOUS
      <4> QED  BY <4>1, <4>2, <4>3
    <3>3. e.blk_nr \in Nat
      BY ExtentFacts
    <3> QED  BY <1>4, <2>2, <3>1, <3>2, <3>3, NrIsExact
  <2> QED  BY <2>1, <2>2
<1>10. ReadExtent(stream, at, prev) =
         IF word.hdr.is_suballoc
         THEN [ext |-> SubExtent(nr, stream[at_cnt].blk_bitmap), at |-> at_cnt + 1]
         ELSE [ext |-> FullExtent(nr, cnt),
               at |-> at_cnt + (IF word.hdr.smallcnt # 0 THEN 0 ELSE 1)]
  BY DEF ReadExtent
<1> HIDE DEF n, word, at_cnt, cnt, span, nr
<1>11. CASE e.is_suballoc
  <2>1. Len(CntWords(e)) = 1 /\ stream[at_cnt].blk_bitmap = e.blk_bitmap
    BY <1>6, <1>11, CntWordsTellTheCount
  <2>2. e = SubExtent(e.blk_nr, e.blk_bitmap)
    BY <1>11, ExtentFacts
  <2>3. at_cnt + 1 = at + Len(ExtentWords(prev, e))
    BY <1>n, <1>1, <1>5, <2>1
  <2> QED  BY <1>4, <1>9, <1>10, <1>11, <2>1, <2>2, <2>3
<1>12. CASE ~ e.is_suballoc
  <2>1. e = FullExtent(e.blk_nr, e.blk_cnt)
    BY <1>12, ExtentFacts
  <2>2. at_cnt + (IF SmallCnt(e) # 0 THEN 0 ELSE 1) = at + Len(ExtentWords(prev, e))
    <3>1. Len(CntWords(e)) = IF SmallCnt(e) # 0 THEN 0 ELSE 1
      BY <1>12, CntWordsTellTheCount
    <3>2. at_cnt + Len(CntWords(e)) = at + Len(ExtentWords(prev, e))
      BY <1>n, <1>1, <1>5, CntWordsTellTheCount
    <3> QED  BY <3>1, <3>2
  <2> QED  BY <1>4, <1>7, <1>9, <1>10, <1>12, <2>1, <2>2
<1> QED
  BY <1>11, <1>12

-----------------------------------------------------------------------------
(* Rows: sequences of anything, and of which nothing else is known *)

IsRow(s) == \E n \in Nat : s = [i \in 1 .. n |-> s[i]]

LEMMA RowFacts ==
  ASSUME NEW s, NEW n \in Nat, s = [i \in 1 .. n |-> s[i]]
  PROVE  /\ s \in Seq({s[i] : i \in 1 .. n})
         /\ Len(s) = n /\ DOMAIN s = 1 .. n /\ IsRow(s)
<1>1. s \in [1 .. n -> {s[i] : i \in 1 .. n}]
  OBVIOUS
<1>2. s \in Seq({s[i] : i \in 1 .. n})
  BY <1>1, IsASeq
<1>3. DOMAIN s = 1 .. n
  BY <1>1
<1>4. Len(s) \in Nat /\ DOMAIN s = 1 .. Len(s)
  BY <1>2, LenProperties
<1>5. Len(s) = n
  BY <1>3, <1>4
<1> QED
  BY <1>2, <1>3, <1>5 DEF IsRow

LEMMA RowLen ==
  ASSUME NEW s, IsRow(s)
  PROVE  /\ Len(s) \in Nat /\ DOMAIN s = 1 .. Len(s)
         /\ s = [i \in 1 .. Len(s) |-> s[i]]
         /\ s \in Seq({s[i] : i \in 1 .. Len(s)})
<1>1. PICK n \in Nat : s = [i \in 1 .. n |-> s[i]]
  BY DEF IsRow
<1>2. Len(s) = n
  BY <1>1, RowFacts
<1> QED
  BY <1>1, <1>2, RowFacts

LEMMA SeqIsRow ==
  ASSUME NEW S, NEW s \in Seq(S)
  PROVE  IsRow(s)
<1>1. Len(s) \in Nat /\ s \in [1 .. Len(s) -> S]
  BY LenProperties
<1>2. s = [i \in 1 .. Len(s) |-> s[i]]
  BY <1>1
<1> QED
  BY <1>1, <1>2 DEF IsRow

LEMMA ShortRows ==
  /\ IsRow(<< >>) /\ Len(<< >>) = 0
  /\ \A a : IsRow(<<a>>) /\ Len(<<a>>) = 1 /\ <<a>>[1] = a
  /\ \A a, b : IsRow(<<a, b>>) /\ Len(<<a, b>>) = 2 /\ <<a, b>>[1] = a /\ <<a, b>>[2] = b
<1>1. << >> \in Seq({})
  OBVIOUS
<1>2. \A a : <<a>> \in Seq({a})
  OBVIOUS
<1>3. \A a, b : <<a, b>> \in Seq({a, b})
  OBVIOUS
<1> QED
  BY <1>1, <1>2, <1>3, SeqIsRow

LEMMA RowsAreEqual ==
  ASSUME NEW s, NEW t, IsRow(s), IsRow(t), Len(s) = Len(t),
         \A i \in 1 .. Len(s) : s[i] = t[i]
  PROVE  s = t
<1>1. s = [i \in 1 .. Len(s) |-> s[i]] /\ t = [i \in 1 .. Len(t) |-> t[i]]
  BY RowLen
<1>2. [i \in 1 .. Len(s) |-> s[i]] = [i \in 1 .. Len(t) |-> t[i]]
  OBVIOUS
<1> QED
  BY <1>1, <1>2

LEMMA ConcatRows ==
  ASSUME NEW s, NEW t, IsRow(s), IsRow(t)
  PROVE  /\ IsRow(s \o t) /\ Len(s \o t) = Len(s) + Len(t)
         /\ \A i \in 1 .. Len(s) + Len(t) :
              (s \o t)[i] = IF i <= Len(s) THEN s[i] ELSE t[i - Len(s)]
         /\ \A i \in 1 .. Len(s) : (s \o t)[i] = s[i]
         /\ \A i \in 1 .. Len(t) : (s \o t)[Len(s) + i] = t[i]
<1> DEFINE S == {s[i] : i \in 1 .. Len(s)} \cup {t[i] : i \in 1 .. Len(t)}
<1>1. /\ Len(s) \in Nat /\ s = [i \in 1 .. Len(s) |-> s[i]]
      /\ Len(t) \in Nat /\ t = [i \in 1 .. Len(t) |-> t[i]]
  BY RowLen
<1>2. s \in [1 .. Len(s) -> S] /\ t \in [1 .. Len(t) -> S]
  <2>1. \A i \in 1 .. Len(s) : s[i] \in S
    OBVIOUS
  <2>2. \A i \in 1 .. Len(t) : t[i] \in S
    OBVIOUS
  <2> HIDE DEF S
  <2> QED
    BY <1>1, <2>1, <2>2
<1> HIDE DEF S
<1>3. s \in Seq(S) /\ t \in Seq(S)
  BY <1>1, <1>2, IsASeq
<1>4. /\ s \o t \in Seq(S) /\ Len(s \o t) = Len(s) + Len(t)
      /\ \A i \in 1 .. Len(s) + Len(t) :
           (s \o t)[i] = IF i <= Len(s) THEN s[i] ELSE t[i - Len(s)]
  BY <1>3, ConcatProperties
<1>5. IsRow(s \o t)
  BY <1>4, SeqIsRow
<1>6. \A i \in 1 .. Len(s) : (s \o t)[i] = s[i]
  BY <1>1, <1>4
<1>7. ASSUME NEW i \in 1 .. Len(t) PROVE (s \o t)[Len(s) + i] = t[i]
  <2>1. Len(s) + i \in 1 .. Len(s) + Len(t) /\ ~ (Len(s) + i <= Len(s)) /\ Len(s) + i - Len(s) = i
    BY <1>1
  <2> QED
    BY <1>4, <2>1
<1> QED
  BY <1>4, <1>5, <1>6, <1>7

-----------------------------------------------------------------------------
(* A row inside another *)

Holds(stream, at, s) ==
  \A i \in 1 .. Len(s) : at + i - 1 \in 1 .. Len(stream) /\ stream[at + i - 1] = s[i]

LEMMA HoldsConcat ==
  ASSUME NEW stream, NEW at \in Nat, NEW s, NEW t, IsRow(s), IsRow(t),
         Holds(stream, at, s \o t)
  PROVE  Holds(stream, at, s) /\ Holds(stream, at + Len(s), t)
<1>1. /\ Len(s) \in Nat /\ Len(t) \in Nat /\ Len(s \o t) = Len(s) + Len(t)
      /\ \A i \in 1 .. Len(s) : (s \o t)[i] = s[i]
      /\ \A i \in 1 .. Len(t) : (s \o t)[Len(s) + i] = t[i]
  BY ConcatRows, RowLen
<1>2. Holds(stream, at, s)
  <2>1. \A i \in 1 .. Len(s) : i \in 1 .. Len(s) + Len(t)
    BY <1>1
  <2> QED
    BY <1>1, <2>1 DEF Holds
<1>3. ASSUME NEW i \in 1 .. Len(t)
      PROVE  /\ at + Len(s) + i - 1 \in 1 .. Len(stream)
             /\ stream[at + Len(s) + i - 1] = t[i]
  <2>1. Len(s) + i \in 1 .. Len(s \o t) /\ at + (Len(s) + i) - 1 = at + Len(s) + i - 1
    BY <1>1
  <2> QED
    BY <1>1, <2>1 DEF Holds
<1> QED
  BY <1>2, <1>3 DEF Holds

\* The first of the words that are held.
LEMMA HoldsFirst ==
  ASSUME NEW stream, NEW at \in Nat, NEW s, Len(s) \in Nat \ {0}, Holds(stream, at, s)
  PROVE  at \in 1 .. Len(stream) /\ stream[at] = s[1]
<1>1. 1 \in 1 .. Len(s) /\ at + 1 - 1 = at
  OBVIOUS
<1> QED
  BY <1>1 DEF Holds

-----------------------------------------------------------------------------
(* Rows one after the other *)

\* What is flattened of n rows, row by row.
Flattens(f, ss, n) ==
  /\ f[0] = << >>
  /\ \A k \in 1 .. n : f[k] = f[k - 1] \o ss[k]
  /\ FlattenSeq(ss) = f[n]
  /\ \A k \in 0 .. n : IsRow(f[k])

LEMMA FlattenSteps ==
  ASSUME NEW n \in Nat, NEW ss, ss = [k \in 1 .. n |-> ss[k]], \A k \in 1 .. n : IsRow(ss[k])
  PROVE  \E f : Flattens(f, ss, n)
<1> DEFINE Body(i, g) == IF i = 1 THEN ss[i] ELSE g[i - 1] \o ss[i]
           UpTo(k, g) == g = [i \in 1 .. k |-> Body(i, g)]
           None == {k \in 1 .. n : ~ \E g : UpTo(k, g)}
<1>0. Len(ss) = n
  BY RowFacts
<1>1. None = {}
  <2> SUFFICES ASSUME None # {} PROVE FALSE
    OBVIOUS
  <2> HIDE DEF UpTo
  <2>1. None \in SUBSET Nat
    OBVIOUS
  <2>2. PICK k \in None : \A j \in None : k <= j
    <3> HIDE DEF None
    <3> QED
      BY <2>1, LeastExists
  <2>3. k \in 1 .. n /\ ~ \E g : UpTo(k, g)
    BY <2>2
  <2>4. CASE k = 1
    <3> DEFINE g == [i \in 1 .. 1 |-> ss[1]]
    <3>1. UpTo(1, g)
      BY DEF UpTo
    <3> QED
      BY <2>3, <2>4, <3>1
  <2>5. CASE k # 1
    <3>1. k - 1 \in 1 .. n /\ k - 1 \notin None
      <4>1. k - 1 \in 1 .. n /\ k \in Nat /\ ~ (k <= k - 1)
        BY <2>3, <2>5
      <4> HIDE DEF None
      <4> QED
        BY <2>2, <4>1
    <3>2. PICK g : UpTo(k - 1, g)
      BY <3>1
    <3> DEFINE h == [i \in 1 .. k |-> IF i = k THEN Body(k, g) ELSE g[i]]
    <3> HIDE DEF Body
    <3>3. /\ \A i \in 1 .. k - 1 : h[i] = g[i] /\ i \in 1 .. k
          /\ h[k] = Body(k, g)
      BY <2>3
    <3>4. \A i \in 1 .. k - 1 : g[i] = Body(i, g)
      BY <3>2 DEF UpTo
    <3> HIDE DEF h
    <3>5. ASSUME NEW i \in 1 .. k PROVE h[i] = Body(i, h)
      <4>1. i # 1 => i - 1 \in 1 .. k - 1
        BY <2>3
      <4>2. i # 1 => h[i - 1] = g[i - 1]
        BY <3>3, <4>1
      <4>3. Body(i, h) = Body(i, g)
        BY <4>2 DEF Body
      <4>4. i = k \/ i \in 1 .. k - 1
        BY <2>3
      <4> QED
        BY <3>3, <3>4, <4>3, <4>4
    <3>6. h = [i \in 1 .. k |-> Body(i, h)]
      <4>1. h = [i \in 1 .. k |-> h[i]]
        BY DEF h
      <4> QED
        BY <3>5, <4>1
    <3>7. UpTo(k, h)
      BY <3>6 DEF UpTo
    <3> QED
      BY <2>3, <3>7
  <2> QED
    BY <2>4, <2>5
<1>2. CASE n = 0
  <2> DEFINE f == [k \in 0 .. 0 |-> << >>]
  <2>1. ss = << >>
    BY <1>2
  <2>2. FlattenSeq(ss) = << >>
    BY <1>0, <1>2, <2>1 DEF FlattenSeq
  <2>3. f[0] = << >> /\ \A k \in 0 .. 0 : f[k] = << >>
    OBVIOUS
  <2> HIDE DEF f
  <2>4. Flattens(f, ss, n)
    BY <1>2, <2>2, <2>3, ShortRows DEF Flattens
  <2> QED
    BY <2>4
<1>3. CASE n # 0
  <2>1. n \in 1 .. n
    BY <1>3
  <2>2. \E g : UpTo(n, g)
    <3> HIDE DEF UpTo
    <3> QED
      BY <1>1, <2>1
  <2> DEFINE g == CHOOSE g : UpTo(n, g)
  <2>3. UpTo(n, g)
    <3> HIDE DEF UpTo
    <3> QED
      BY <2>2
  <2>4. FlattenSeq(ss) = g[n]
    BY <1>0, <1>3 DEF FlattenSeq
  <2> HIDE DEF g
  <2>5. \A i \in 1 .. n : g[i] = Body(i, g)
    <3> HIDE DEF Body
    <3> QED
      BY <2>3
  <2> DEFINE f == [k \in 0 .. n |-> IF k = 0 THEN << >> ELSE g[k]]
             Bad == {k \in 0 .. n : ~ IsRow(f[k])}
  <2>6. f[0] = << >> /\ \A k \in 1 .. n : f[k] = g[k]
    OBVIOUS
  <2> HIDE DEF f
  <2>7. ASSUME NEW k \in 1 .. n PROVE f[k] = f[k - 1] \o ss[k]
    <3>1. CASE k = 1
      <4>1. << >> \o ss[k] = ss[k]
        <5>1. PICK s : s = ss[k]
          OBVIOUS
        <5>2. IsRow(s)
          BY <5>1
        <5>3. s \in Seq({s[i] : i \in 1 .. Len(s)})
          BY <5>2, RowLen
        <5>4. << >> \o s = s
          BY <5>3, ConcatEmptySeq
        <5> QED
          BY <5>1, <5>4
      <4>2. k - 1 = 0 /\ f[0] = << >> /\ f[k] = ss[k]
        BY <2>5, <2>6, <3>1
      <4>3. f[k - 1] = << >>
        BY <4>2
      <4> QED
        BY <4>1, <4>2, <4>3
    <3>2. CASE k # 1
      <4>1. k - 1 \in 1 .. n
        BY <3>2
      <4> QED
        BY <2>5, <2>6, <3>2, <4>1
    <3> QED
      BY <3>1, <3>2
  <2>8. Bad = {}
    <3> SUFFICES ASSUME Bad # {} PROVE FALSE
      OBVIOUS
    <3>1. Bad \in SUBSET Nat
      OBVIOUS
    <3>2. PICK k \in Bad : \A j \in Bad : k <= j
      <4> HIDE DEF Bad
      <4> QED
        BY <3>1, LeastExists
    <3>3. k \in 0 .. n /\ ~ IsRow(f[k])
      BY <3>2
    <3>4. CASE k = 0
      BY <2>6, <3>3, <3>4, ShortRows
    <3>5. CASE k # 0
      <4>1. k \in 1 .. n /\ k - 1 \in 0 .. n /\ ~ (k <= k - 1)
        BY <3>3, <3>5
      <4>2. k - 1 \notin Bad
        <5> HIDE DEF Bad
        <5> QED
          BY <3>2, <4>1
      <4>3. IsRow(f[k - 1]) /\ IsRow(ss[k])
        BY <4>1, <4>2
      <4>4. IsRow(f[k - 1] \o ss[k])
        BY <4>3, ConcatRows
      <4> QED
        BY <2>7, <3>3, <4>1, <4>4
    <3> QED
      BY <3>4, <3>5
  <2>9. \A k \in 0 .. n : IsRow(f[k])
    BY <2>8
  <2>10. f[n] = g[n]
    BY <2>1, <2>6
  <2>11. Flattens(f, ss, n)
    BY <2>4, <2>6, <2>7, <2>9, <2>10 DEF Flattens
  <2> QED
    BY <2>11
<1> QED
  BY <1>2, <1>3

\* Induction over the numbers up to n, of what a set has.
LEMMA AllUpTo ==
  ASSUME NEW n \in Nat, NEW S, 0 \in S, \A k \in 1 .. n : k - 1 \in S => k \in S
  PROVE  \A k \in 0 .. n : k \in S
<1> DEFINE Bad == {k \in 0 .. n : k \notin S}
<1> SUFFICES ASSUME Bad # {} PROVE FALSE
  OBVIOUS
<1>1. Bad \in SUBSET Nat
  OBVIOUS
<1>2. PICK k \in Bad : \A j \in Bad : k <= j
  <2> HIDE DEF Bad
  <2> QED
    BY <1>1, LeastExists
<1>3. k \in 0 .. n /\ k \notin S
  BY <1>2
<1>4. k # 0
  BY <1>3
<1>5. k \in 1 .. n /\ k - 1 \in 0 .. n /\ ~ (k <= k - 1)
  BY <1>3, <1>4
<1>6. k - 1 \notin Bad
  <2> HIDE DEF Bad
  <2> QED
    BY <1>2, <1>5
<1>7. k - 1 \in S
  BY <1>5, <1>6
<1> QED
  BY <1>3, <1>5, <1>7

LEMMA FlattenLens ==
  ASSUME NEW n \in Nat, NEW ss, \A k \in 1 .. n : IsRow(ss[k]), NEW f, Flattens(f, ss, n)
  PROVE  /\ Len(f[0]) = 0
         /\ \A k \in 0 .. n : Len(f[k]) \in Nat
         /\ \A k \in 1 .. n : Len(f[k]) = Len(f[k - 1]) + Len(ss[k])
<1>1. Len(f[0]) = 0
  BY ShortRows DEF Flattens
<1>2. \A k \in 0 .. n : IsRow(f[k]) /\ Len(f[k]) \in Nat
  BY RowLen DEF Flattens
<1>3. ASSUME NEW k \in 1 .. n PROVE Len(f[k]) = Len(f[k - 1]) + Len(ss[k])
  <2>1. k - 1 \in 0 .. n
    OBVIOUS
  <2>2. f[k] = f[k - 1] \o ss[k] /\ IsRow(f[k - 1]) /\ IsRow(ss[k])
    BY <1>2, <2>1 DEF Flattens
  <2> QED
    BY <2>2, ConcatRows
<1> QED
  BY <1>1, <1>2, <1>3

\* Rows of one word or more have at least as many words as rows there are.
LEMMA FlattenIsLong ==
  ASSUME NEW n \in Nat, NEW ss, \A k \in 1 .. n : IsRow(ss[k]) /\ Len(ss[k]) > 0,
         NEW f, Flattens(f, ss, n)
  PROVE  n <= Len(f[n])
<1> DEFINE S == {k \in 0 .. n : k <= Len(f[k])}
<1>1. \A k \in 1 .. n : IsRow(ss[k])
  OBVIOUS
<1>2. /\ Len(f[0]) = 0
      /\ \A k \in 0 .. n : Len(f[k]) \in Nat
      /\ \A k \in 1 .. n : Len(f[k]) = Len(f[k - 1]) + Len(ss[k])
  BY <1>1, FlattenLens
<1>3. 0 \in S
  BY <1>2
<1>4. ASSUME NEW k \in 1 .. n, k - 1 \in S PROVE k \in S
  <2>1. Len(f[k - 1]) \in Nat /\ Len(f[k]) = Len(f[k - 1]) + Len(ss[k])
    BY <1>2, <1>4
  <2>2. Len(ss[k]) \in Nat /\ Len(ss[k]) > 0
    BY RowLen
  <2>3. k - 1 <= Len(f[k - 1])
    BY <1>4
  <2>4. k <= Len(f[k])
    <3>1. \A a, b, c \in Nat : a = b + c /\ c > 0 /\ k - 1 <= b => k <= a
      OBVIOUS
    <3>2. Len(f[k]) \in Nat
      BY <1>2
    <3> QED
      BY <2>1, <2>2, <2>3, <3>1, <3>2
  <2> QED
    BY <2>4
<1> HIDE DEF S
<1>5. \A k \in 0 .. n : k \in S
  BY <1>3, <1>4, AllUpTo
<1>6. n \in S
  BY <1>5
<1> QED
  BY <1>6 DEF S

\* A place that holds rows one after the other holds each of them.
LEMMA HoldsFlattened ==
  ASSUME NEW n \in Nat, NEW ss, \A k \in 1 .. n : IsRow(ss[k]), NEW f, Flattens(f, ss, n),
         NEW stream, NEW at \in Nat, Holds(stream, at, f[n])
  PROVE  \A k \in 1 .. n : Holds(stream, at + Len(f[k - 1]), ss[k])
<1> DEFINE S == {k \in 0 .. n : Holds(stream, at, f[n - k])}
<1>1. 0 \in S
  OBVIOUS
<1>2. ASSUME NEW k \in 1 .. n, Holds(stream, at, f[k])
      PROVE  Holds(stream, at, f[k - 1]) /\ Holds(stream, at + Len(f[k - 1]), ss[k])
  <2>1. k - 1 \in 0 .. n
    OBVIOUS
  <2>2. f[k] = f[k - 1] \o ss[k] /\ IsRow(f[k - 1]) /\ IsRow(ss[k])
    BY <2>1 DEF Flattens
  <2>3. Holds(stream, at, f[k - 1] \o ss[k])
    BY <1>2, <2>2
  <2> QED
    BY <2>2, <2>3, HoldsConcat
<1>3. ASSUME NEW k \in 1 .. n, k - 1 \in S PROVE k \in S
  <2>1. n - (k - 1) \in 1 .. n /\ n - (k - 1) - 1 = n - k /\ k \in 0 .. n
    OBVIOUS
  <2>2. Holds(stream, at, f[n - (k - 1) - 1])
    BY <1>2, <1>3, <2>1
  <2> QED
    BY <2>1, <2>2
<1>4. \A k \in 0 .. n : k \in S
  <2> HIDE DEF S
  <2> QED
    BY <1>1, <1>3, AllUpTo
<1>5. ASSUME NEW k \in 1 .. n PROVE Holds(stream, at, f[k])
  <2>1. n - k \in 0 .. n /\ n - (n - k) = k
    OBVIOUS
  <2>2. Holds(stream, at, f[n - (n - k)])
    BY <1>4, <2>1
  <2> QED
    BY <2>1, <2>2
<1> QED
  BY <1>2, <1>5

-----------------------------------------------------------------------------
(* The words of a segment *)

SegmentRow(segm) ==
  /\ segm = [exts |-> segm.exts, raw |-> segm.raw]
  /\ IsRow(segm.exts) /\ IsRow(segm.raw)
  /\ \A k \in 1 .. Len(segm.exts) :
       segm.exts[k] \in AnyExtents /\ ClearOf(PrevOf(segm.exts, k), segm.exts[k])

PiecesOf(exts) == [k \in 1 .. Len(exts) |-> ExtentWords(PrevOf(exts, k), exts[k])]

LEMMA ExtentWordsRow ==
  ASSUME NEW prev, NEW e
  PROVE  /\ IsRow(ExtentWords(prev, e)) /\ Len(ExtentWords(prev, e)) > 0
         /\ ExtentWords(prev, e)[1].hdr = Header(prev, e)
<1>1. IsRow(NrWords(prev, e)) /\ Len(NrWords(prev, e)) \in {1, 2}
  BY ShortRows DEF NrWords
<1>2. IsRow(CntWords(e)) /\ Len(CntWords(e)) \in Nat
  <2>1. IsRow(CntWords(e))
    BY ShortRows DEF CntWords
  <2> QED
    BY <2>1, RowLen
<1>3. ExtentWords(prev, e) = NrWords(prev, e) \o CntWords(e)
  BY ExtentWordsAre
<1>4. /\ IsRow(ExtentWords(prev, e))
      /\ Len(ExtentWords(prev, e)) = Len(NrWords(prev, e)) + Len(CntWords(e))
      /\ \A i \in 1 .. Len(NrWords(prev, e)) : ExtentWords(prev, e)[i] = NrWords(prev, e)[i]
  BY <1>1, <1>2, <1>3, ConcatRows
<1>5. ExtentWords(prev, e)[1] = [hdr |-> Header(prev, e), nr |-> Nr(prev, e)]
  <2>1. 1 \in 1 .. Len(NrWords(prev, e))
    BY <1>1
  <2> QED
    BY <1>4, <2>1, LenOfNrWords
<1>6. ExtentWords(prev, e)[1].hdr = Header(prev, e)
  BY ONLY <1>5
<1>7. Len(ExtentWords(prev, e)) > 0
  BY ONLY <1>1, <1>2, <1>4
<1> QED
  BY ONLY <1>4, <1>6, <1>7

LEMMA InlineWordsRow ==
  ASSUME NEW raw, IsRow(raw)
  PROVE  LET odd == IF Len(raw) % 2 = 1 THEN <<raw[Len(raw)]>> ELSE << >>
             first == [hdr |-> [is_inline |-> TRUE, inline_sz |-> Len(raw)], last |-> odd]
         IN  /\ IsRow(InlineWords(raw)) /\ Len(InlineWords(raw)) = 1 + Len(raw) \div 2
             /\ Len(InlineWords(raw)) \in Nat \ {0}
             /\ InlineWords(raw)[1] = first
             /\ \A k \in 1 .. Len(raw) \div 2 :
                  InlineWords(raw)[1 + k] = [bytes |-> <<raw[2 * k - 1], raw[2 * k]>>]
<1> DEFINE odd == IF Len(raw) % 2 = 1 THEN <<raw[Len(raw)]>> ELSE << >>
           first == [hdr |-> [is_inline |-> TRUE, inline_sz |-> Len(raw)], last |-> odd]
           m == Len(raw) \div 2
           Pair(k) == [bytes |-> <<raw[2 * k - 1], raw[2 * k]>>]
           pairs == [k \in 1 .. m |-> Pair(k)]
<1>1. m \in Nat
  BY RowLen
<1>2. InlineWords(raw) = <<first>> \o pairs
  BY DEF InlineWords
<1> HIDE DEF first, m, Pair
<1>3. pairs = [k \in 1 .. m |-> pairs[k]] /\ \A k \in 1 .. m : pairs[k] = Pair(k)
  OBVIOUS
<1> HIDE DEF pairs
<1>4. Len(pairs) = m /\ IsRow(pairs)
  BY <1>1, <1>3, RowFacts
<1>5. IsRow(<<first>>) /\ Len(<<first>>) = 1 /\ <<first>>[1] = first
  BY ShortRows
<1>6. /\ IsRow(<<first>> \o pairs) /\ Len(<<first>> \o pairs) = 1 + m
      /\ \A i \in 1 .. 1 : (<<first>> \o pairs)[i] = <<first>>[i]
      /\ \A i \in 1 .. m : (<<first>> \o pairs)[1 + i] = pairs[i]
  BY <1>4, <1>5, ConcatRows
<1>7. (<<first>> \o pairs)[1] = first
  BY <1>5, <1>6
<1>8. 1 + m \in Nat \ {0}
  BY <1>1
<1>9. Len(InlineWords(raw)) \in Nat \ {0}
  BY <1>2, <1>6, <1>8
<1> QED
  BY <1>2, <1>3, <1>6, <1>7, <1>9 DEF first, m, Pair

(***************************************************************************)
(* Pairs of bytes and the odd one are the bytes that were written.         *)
(***************************************************************************)
LEMMA InlineIsReadBack ==
  ASSUME NEW raw, IsRow(raw), NEW stream, NEW at \in Nat, Holds(stream, at, InlineWords(raw))
  PROVE  /\ stream[at].hdr.is_inline = TRUE
         /\ ReadInline(stream, at) = [raw |-> raw, at |-> at + Len(InlineWords(raw))]
<1> DEFINE odd == IF Len(raw) % 2 = 1 THEN <<raw[Len(raw)]>> ELSE << >>
           m == Len(raw) \div 2
           ss == [k \in 1 .. m |-> stream[at + k].bytes]
<1>1. /\ Len(raw) \in Nat /\ m \in Nat
      /\ Len(raw) = 2 * m + (Len(raw) % 2) /\ Len(raw) % 2 \in {0, 1}
  <2>1. Len(raw) \in Nat
    BY RowLen
  <2> QED
    BY <2>1
<1>2. /\ Len(InlineWords(raw)) = 1 + m
      /\ InlineWords(raw)[1] =
           [hdr |-> [is_inline |-> TRUE, inline_sz |-> Len(raw)], last |-> odd]
      /\ \A k \in 1 .. m : InlineWords(raw)[1 + k] = [bytes |-> <<raw[2 * k - 1], raw[2 * k]>>]
  BY InlineWordsRow
<1> HIDE DEF odd, m
<1>3. stream[at] = [hdr |-> [is_inline |-> TRUE, inline_sz |-> Len(raw)], last |-> odd]
  <2>1. Len(InlineWords(raw)) \in Nat \ {0}
    BY <1>1, <1>2
  <2> QED
    BY <1>2, <2>1, HoldsFirst
<1>4. stream[at].hdr.is_inline = TRUE /\ stream[at].hdr.inline_sz = Len(raw) /\ stream[at].last = odd
  BY <1>3
<1>5. ASSUME NEW k \in 1 .. m PROVE ss[k] = <<raw[2 * k - 1], raw[2 * k]>>
  <2>1. 1 + k \in 1 .. Len(InlineWords(raw)) /\ at + (1 + k) - 1 = at + k
    BY <1>1, <1>2
  <2>2. stream[at + k] = [bytes |-> <<raw[2 * k - 1], raw[2 * k]>>]
    BY <1>2, <2>1 DEF Holds
  <2> QED
    BY <2>2
<1>6. ss = [k \in 1 .. m |-> ss[k]]
  OBVIOUS
<1>7. ReadInline(stream, at) = [raw |-> FlattenSeq(ss) \o odd, at |-> at + m + 1]
  BY <1>4 DEF ReadInline, m
<1> HIDE DEF ss
<1>8. ASSUME NEW k \in 1 .. m
      PROVE  /\ IsRow(ss[k]) /\ Len(ss[k]) = 2
             /\ ss[k][1] = raw[2 * k - 1] /\ ss[k][2] = raw[2 * k]
  <2>1. PICK a, b : a = raw[2 * k - 1] /\ b = raw[2 * k]
    OBVIOUS
  <2>2. ss[k] = <<a, b>>
    BY <1>5, <2>1
  <2> QED
    BY <2>1, <2>2, ShortRows
<1>9. PICK f : Flattens(f, ss, m)
  BY <1>1, <1>6, <1>8, FlattenSteps
<1> DEFINE Right(k) == Len(f[k]) = 2 * k /\ \A i \in 1 .. 2 * k : f[k][i] = raw[i]
           S == {k \in 0 .. m : Right(k)}
<1>10. Right(0)
  BY <1>9, ShortRows DEF Flattens
<1>11. ASSUME NEW k \in 1 .. m, Right(k - 1) PROVE Right(k)
  <2>1. k - 1 \in 0 .. m
    BY <1>1
  <2>2. f[k] = f[k - 1] \o ss[k] /\ IsRow(f[k - 1]) /\ IsRow(ss[k]) /\ Len(ss[k]) = 2
    BY <1>8, <1>9, <2>1 DEF Flattens
  <2>3. Len(f[k - 1]) = 2 * (k - 1)
    BY <1>11
  <2>4. /\ Len(f[k]) = 2 * (k - 1) + 2
        /\ \A i \in 1 .. 2 * (k - 1) : f[k][i] = f[k - 1][i]
        /\ \A i \in 1 .. 2 : f[k][2 * (k - 1) + i] = ss[k][i]
    <3>1. PICK s, t, n : s = f[k - 1] /\ t = ss[k] /\ n = 2 * (k - 1)
      OBVIOUS
    <3>2. IsRow(s) /\ IsRow(t)
      BY <2>2, <3>1
    <3>3. f[k] = s \o t /\ Len(s) = n /\ Len(t) = 2
      BY <2>2, <2>3, <3>1
    <3>4. /\ Len(s \o t) = Len(s) + Len(t)
          /\ \A i \in 1 .. Len(s) : (s \o t)[i] = s[i]
          /\ \A i \in 1 .. Len(t) : (s \o t)[Len(s) + i] = t[i]
      BY <3>2, ConcatRows
    <3>5. /\ Len(f[k]) = n + 2
          /\ \A i \in 1 .. n : f[k][i] = s[i]
          /\ \A i \in 1 .. 2 : f[k][n + i] = t[i]
      BY <3>3, <3>4
    <3> QED
      BY <3>1, <3>5
  <2>5. ASSUME NEW i \in 1 .. 2 * k PROVE f[k][i] = raw[i]
    <3>1. CASE i \in 1 .. 2 * (k - 1)
      BY <1>11, <2>4, <3>1
    <3>2. CASE i = 2 * k - 1
      <4>1. f[k][2 * (k - 1) + 1] = raw[2 * k - 1] /\ 2 * (k - 1) + 1 = 2 * k - 1
        BY <1>8, <2>4
      <4> QED
        BY <3>2, <4>1
    <3>3. CASE i = 2 * k
      <4>1. f[k][2 * (k - 1) + 2] = raw[2 * k] /\ 2 * (k - 1) + 2 = 2 * k
        BY <1>8, <2>4
      <4> QED
        BY <3>3, <4>1
    <3> QED
      BY <3>1, <3>2, <3>3
  <2> QED
    BY <2>4, <2>5
<1>12. \A k \in 0 .. m : k \in S
  <2>1. 0 \in S
    BY <1>1, <1>10
  <2>2. ASSUME NEW k \in 1 .. m, k - 1 \in S PROVE k \in S
    <3> HIDE DEF Right
    <3> QED
      BY <1>11, <2>2
  <2> HIDE DEF S
  <2> QED
    BY <1>1, <2>1, <2>2, AllUpTo
<1>13. Right(m)
  <2> HIDE DEF Right
  <2>1. m \in 0 .. m
    BY <1>1
  <2> QED
    BY <1>12, <2>1
<1>14. FlattenSeq(ss) = f[m] /\ IsRow(f[m])
  BY <1>1, <1>9 DEF Flattens
<1>15. IsRow(odd) /\ Len(odd) = Len(raw) % 2 /\ (Len(raw) % 2 = 1 => odd[1] = raw[Len(raw)])
  BY <1>1, ShortRows DEF odd
<1>16. /\ IsRow(f[m] \o odd) /\ Len(f[m] \o odd) = 2 * m + (Len(raw) % 2)
       /\ \A i \in 1 .. 2 * m : (f[m] \o odd)[i] = f[m][i]
       /\ \A i \in 1 .. (Len(raw) % 2) : (f[m] \o odd)[2 * m + i] = odd[i]
  <2>1. PICK s : s = f[m]
    OBVIOUS
  <2>2. IsRow(s) /\ Len(s) = 2 * m
    BY <1>13, <1>14, <2>1
  <2> HIDE DEF Right
  <2>3. /\ IsRow(s \o odd) /\ Len(s \o odd) = Len(s) + Len(odd)
        /\ \A i \in 1 .. Len(s) : (s \o odd)[i] = s[i]
        /\ \A i \in 1 .. Len(odd) : (s \o odd)[Len(s) + i] = odd[i]
    BY <1>15, <2>2, ConcatRows
  <2> QED
    BY <1>15, <2>1, <2>2, <2>3
<1>17. ASSUME NEW i \in 1 .. Len(raw) PROVE raw[i] = (f[m] \o odd)[i]
  <2>1. CASE i \in 1 .. 2 * m
    BY <1>13, <1>16, <2>1
  <2>2. CASE i \notin 1 .. 2 * m
    <3>1. Len(raw) % 2 = 1 /\ i = 2 * m + 1 /\ i = Len(raw)
      BY <1>1, <2>2
    <3>2. (f[m] \o odd)[2 * m + 1] = odd[1]
      BY <1>16, <3>1
    <3> QED
      BY <1>15, <3>1, <3>2
  <2> QED
    BY <2>1, <2>2
<1>18. raw = f[m] \o odd
  BY <1>1, <1>16, <1>17, RowsAreEqual
<1>19. at + m + 1 = at + Len(InlineWords(raw))
  BY <1>1, <1>2
<1> QED
  BY <1>4, <1>7, <1>14, <1>18, <1>19

LEMMA AppendOfSubSeq ==
  ASSUME NEW s, IsRow(s), NEW k \in 1 .. Len(s)
  PROVE  /\ Len(SubSeq(s, 1, k - 1)) = k - 1
         /\ Append(SubSeq(s, 1, k - 1), s[k]) = SubSeq(s, 1, k)
         /\ SubSeq(s, 1, Len(s)) = s /\ SubSeq(s, 1, 0) = << >>
         /\ k > 1 => SubSeq(s, 1, k - 1)[k - 1] = s[k - 1]
<1> DEFINE S == {s[i] : i \in 1 .. Len(s)}
<1>1. s \in Seq(S) /\ Len(s) \in Nat
  BY RowLen
<1> HIDE DEF S
<1>2. /\ SubSeq(s, 1, k - 1) \in Seq(S) /\ Len(SubSeq(s, 1, k - 1)) = k - 1
      /\ \A i \in 1 .. k - 1 : SubSeq(s, 1, k - 1)[i] = s[i]
  BY <1>1, SubSeqProperties
<1>3. Append(SubSeq(s, 1, k - 1), s[k]) = SubSeq(s, 1, k)
  BY <1>1, SubSeqRecursiveSecond
<1> QED
  BY <1>1, <1>2, <1>3, SubSeqFull, SubSeqEmpty

\* The words of a segment, extent by extent, and those of its inline bytes.
SegmentIsHeld(segm, f, stream, at) ==
  LET n == Len(segm.exts)
  IN  /\ f[0] = << >>
      /\ \A k \in 0 .. n : Len(f[k]) \in Nat
      /\ \A k \in 1 .. n :
           /\ Len(f[k]) = Len(f[k - 1]) + Len(ExtentWords(PrevOf(segm.exts, k), segm.exts[k]))
           /\ Holds(stream, at + Len(f[k - 1]), ExtentWords(PrevOf(segm.exts, k), segm.exts[k]))
      /\ Holds(stream, at + Len(f[n]), InlineWords(segm.raw))
      /\ n <= Len(f[n])
      /\ Len(SegmentWords(segm)) = Len(f[n]) + Len(InlineWords(segm.raw))

LEMMA SegmentWordsRow ==
  ASSUME NEW segm, IsRow(segm.exts), IsRow(segm.raw)
  PROVE  /\ IsRow(SegmentWords(segm)) /\ Len(SegmentWords(segm)) \in Nat \ {0}
         /\ \A stream, at : at \in Nat /\ Holds(stream, at, SegmentWords(segm))
              => \E f : SegmentIsHeld(segm, f, stream, at)
<1> DEFINE n == Len(segm.exts)
           ss == PiecesOf(segm.exts)
           inline == InlineWords(segm.raw)
<1>1. n \in Nat
  BY RowLen
<1>2. ss = [k \in 1 .. n |-> ss[k]]
      /\ \A k \in 1 .. n : ss[k] = ExtentWords(PrevOf(segm.exts, k), segm.exts[k])
  BY DEF PiecesOf
<1>3. ASSUME NEW k \in 1 .. n PROVE IsRow(ss[k]) /\ Len(ss[k]) > 0
  <2>1. ss[k] = ExtentWords(PrevOf(segm.exts, k), segm.exts[k])
    BY <1>2
  <2> QED
    BY <2>1, ExtentWordsRow
<1>4. SegmentWords(segm) = FlattenSeq(ss) \o inline
  BY DEF SegmentWords, PiecesOf
<1>5. IsRow(inline) /\ Len(inline) \in Nat \ {0}
  BY InlineWordsRow
<1> HIDE DEF n, ss, inline
<1>6. PICK f : Flattens(f, ss, n)
  BY <1>1, <1>2, <1>3, FlattenSteps
<1>7. FlattenSeq(ss) = f[n] /\ IsRow(f[n]) /\ Len(f[n]) \in Nat
  BY <1>1, <1>6, RowLen DEF Flattens
<1>8. /\ IsRow(f[n] \o inline) /\ Len(f[n] \o inline) = Len(f[n]) + Len(inline)
  BY <1>5, <1>7, ConcatRows
<1>9. IsRow(SegmentWords(segm)) /\ Len(SegmentWords(segm)) = Len(f[n]) + Len(inline)
  BY <1>4, <1>7, <1>8
<1>10. ASSUME NEW stream, NEW at \in Nat, Holds(stream, at, SegmentWords(segm))
       PROVE  SegmentIsHeld(segm, f, stream, at)
  <2>1. Holds(stream, at, f[n] \o inline)
    BY <1>4, <1>7, <1>10
  <2>2. Holds(stream, at, f[n]) /\ Holds(stream, at + Len(f[n]), inline)
    BY <1>5, <1>7, <2>1, HoldsConcat
  <2>3. \A k \in 1 .. n : IsRow(ss[k])
    BY <1>3
  <2>4. \A k \in 1 .. n : Holds(stream, at + Len(f[k - 1]), ss[k])
    BY <1>1, <1>6, <2>2, <2>3, HoldsFlattened
  <2>5. /\ \A k \in 0 .. n : Len(f[k]) \in Nat
        /\ \A k \in 1 .. n : Len(f[k]) = Len(f[k - 1]) + Len(ss[k])
    BY <1>1, <1>6, <2>3, FlattenLens
  <2>6. n <= Len(f[n])
    BY <1>1, <1>3, <1>6, FlattenIsLong
  <2>7. f[0] = << >>
    BY <1>6 DEF Flattens
  <2> QED
    BY <1>2, <1>9, <2>2, <2>4, <2>5, <2>6, <2>7 DEF SegmentIsHeld, n, inline
<1>11. Len(SegmentWords(segm)) \in Nat \ {0}
  BY <1>5, <1>7, <1>9
<1> QED
  BY <1>9, <1>10, <1>11

\* One turn of the loop of read_struct_from.
ReadStep(stream, was) ==
  IF was.done \/ was.at > Len(stream) THEN was
  ELSE IF stream[was.at].hdr.is_inline
  THEN LET inline == ReadInline(stream, was.at)
       IN  [was EXCEPT !.segm.raw = inline.raw, !.at = inline.at, !.done = TRUE]
  ELSE LET e == ReadExtent(stream, was.at, PrevOf(was.segm.exts, Len(was.segm.exts) + 1))
       IN  [was EXCEPT !.segm.exts = Append(@, e.ext), !.at = e.at]

\* What the loop has once it found the end, and while it has not.
Ended(exts, raw, at) == [segm |-> [exts |-> exts, raw |-> raw], at |-> at, done |-> TRUE]
Going(exts, at) == [segm |-> [exts |-> exts, raw |-> << >>], at |-> at, done |-> FALSE]

LEMMA ReadStepDone ==
  ASSUME NEW stream, NEW exts, NEW raw, NEW at
  PROVE  ReadStep(stream, Ended(exts, raw, at)) = Ended(exts, raw, at)
<1>1. Ended(exts, raw, at).done
  BY DEF Ended
<1> QED
  BY <1>1 DEF ReadStep

LEMMA ReadStepInline ==
  ASSUME NEW stream, NEW exts, NEW at, NEW raw, NEW past,
         ~ (at > Len(stream)), stream[at].hdr.is_inline,
         ReadInline(stream, at) = [raw |-> raw, at |-> past]
  PROVE  ReadStep(stream, Going(exts, at)) = Ended(exts, raw, past)
<1> DEFINE was == Going(exts, at)
<1>1. /\ was.done = FALSE /\ was.at = at /\ was.segm = [exts |-> exts, raw |-> << >>]
      /\ was.segm.exts = exts
  BY DEF Going
<1>2. ASSUME NEW r, NEW a
      PROVE  [was EXCEPT !.segm.raw = r, !.at = a, !.done = TRUE] = Ended(exts, r, a)
  <2>1. PICK w, x : w = was /\ x = was.segm
    OBVIOUS
  <2>2. x = [exts |-> exts, raw |-> << >>]
    BY <1>1, <2>1
  <2>3. w = [segm |-> x, at |-> at, done |-> FALSE]
    BY <2>1, <2>2 DEF Ended, Going
  <2>4. [x EXCEPT !.raw = r] = [exts |-> exts, raw |-> r]
    BY <2>2
  <2>5. PICK y : y = [x EXCEPT !.raw = r]
    OBVIOUS
  <2>6. [w EXCEPT !.segm = y, !.at = a, !.done = TRUE] = [segm |-> y, at |-> a, done |-> TRUE]
    <3>1. PICK v : v = [w EXCEPT !.segm = y]
      OBVIOUS
    <3>2. v = [segm |-> y, at |-> at, done |-> FALSE]
      BY <2>3, <3>1
    <3>3. PICK u : u = [v EXCEPT !.at = a]
      OBVIOUS
    <3>4. u = [segm |-> y, at |-> a, done |-> FALSE]
      BY <3>2, <3>3
    <3>5. PICK z : z = [u EXCEPT !.done = TRUE]
      OBVIOUS
    <3>6. z = [segm |-> y, at |-> a, done |-> TRUE]
      BY <3>4, <3>5
    <3> QED
      BY ONLY <3>1, <3>3, <3>5, <3>6, Zenon
  <2> HIDE DEF was
  <2> QED
    BY <2>1, <2>4, <2>5, <2>6 DEF Ended, Going
<1> DEFINE r == ReadInline(stream, at).raw
           a == ReadInline(stream, at).at
<1> HIDE DEF was
<1>3. ReadStep(stream, was) = [was EXCEPT !.segm.raw = r, !.at = a, !.done = TRUE]
  BY <1>1 DEF ReadStep
<1>4. r = raw /\ a = past
  OBVIOUS
<1> HIDE DEF r, a
<1>5. ReadStep(stream, was) = Ended(exts, r, a)
  BY <1>2, <1>3
<1> QED
  BY <1>4, <1>5 DEF was

LEMMA ReadStepExtent ==
  ASSUME NEW stream, NEW exts, NEW at, NEW ext, NEW past,
         ~ (at > Len(stream)), ~ stream[at].hdr.is_inline,
         ReadExtent(stream, at, PrevOf(exts, Len(exts) + 1)) = [ext |-> ext, at |-> past]
  PROVE  ReadStep(stream, Going(exts, at)) = Going(Append(exts, ext), past)
<1> DEFINE was == Going(exts, at)
<1>1. /\ was.done = FALSE /\ was.at = at /\ was.segm = [exts |-> exts, raw |-> << >>]
      /\ was.segm.exts = exts
  BY DEF Going
<1>2. ASSUME NEW e, NEW a
      PROVE  [was EXCEPT !.segm.exts = Append(@, e), !.at = a] = Going(Append(exts, e), a)
  <2>1. PICK w, x : w = was /\ x = was.segm
    OBVIOUS
  <2>2. x = [exts |-> exts, raw |-> << >>]
    BY <1>1, <2>1
  <2>3. w = [segm |-> x, at |-> at, done |-> FALSE]
    BY <2>1, <2>2 DEF Going
  <2>4. [x EXCEPT !.exts = Append(exts, e)] = [exts |-> Append(exts, e), raw |-> << >>]
    BY ONLY <2>2
  <2>5. PICK y : y = [x EXCEPT !.exts = Append(exts, e)]
    OBVIOUS
  <2>6. [w EXCEPT !.segm = y, !.at = a] = [segm |-> y, at |-> a, done |-> FALSE]
    <3>1. PICK v : v = [w EXCEPT !.segm = y]
      OBVIOUS
    <3>2. v = [segm |-> y, at |-> at, done |-> FALSE]
      BY <2>3, <3>1
    <3>3. PICK z : z = [v EXCEPT !.at = a]
      OBVIOUS
    <3>4. z = [segm |-> y, at |-> a, done |-> FALSE]
      BY <3>2, <3>3
    <3> QED
      BY ONLY <3>1, <3>3, <3>4, Zenon
  <2> HIDE DEF was
  <2> QED
    BY <1>1, <2>1, <2>4, <2>5, <2>6 DEF Ended, Going
<1> DEFINE x == ReadExtent(stream, at, PrevOf(exts, Len(exts) + 1)).ext
           a == ReadExtent(stream, at, PrevOf(exts, Len(exts) + 1)).at
<1> HIDE DEF was
<1>3. ReadStep(stream, was) = [was EXCEPT !.segm.exts = Append(@, x), !.at = a]
  BY <1>1 DEF ReadStep
<1>4. x = ext /\ a = past
  OBVIOUS
<1> HIDE DEF x, a
<1>5. ReadStep(stream, was) = Going(Append(exts, x), a)
  BY <1>2, <1>3
<1> QED
  BY <1>4, <1>5 DEF was

\* What a loop of L turns leaves, knowing what each leaves.
LEMMA ReadLoop ==
  ASSUME NEW stream, NEW at, Len(stream) \in Nat, NEW W,
         W[0] = Going(<< >>, at),
         \A k \in 1 .. Len(stream) : ReadStep(stream, W[k - 1]) = W[k]
  PROVE  ReadSegment(stream, at) = W[Len(stream)]
<1> DEFINE L == Len(stream)
           None == Going(<< >>, at)
           Read(g) == g = [k \in 0 .. L |-> IF k = 0 THEN None ELSE ReadStep(stream, g[k - 1])]
           w == [k \in 0 .. L |-> W[k]]
<1>1. Read(w)
  <2>1. \A k \in 0 .. L : w[k] = W[k]
    OBVIOUS
  <2>2. ASSUME NEW k \in 0 .. L PROVE W[k] = IF k = 0 THEN None ELSE ReadStep(stream, w[k - 1])
    <3> HIDE DEF None, w
    <3>1. CASE k = 0
      BY <3>1 DEF None
    <3>2. CASE k # 0
      <4>1. k \in 1 .. L /\ k - 1 \in 0 .. L
        BY <3>2
      <4> QED
        BY <2>1, <3>2, <4>1
    <3> QED
      BY <3>1, <3>2
  <2> HIDE DEF None
  <2> QED
    BY <2>2
<1> DEFINE g == CHOOSE g : Read(g)
<1>2. Read(g)
  <2> HIDE DEF Read, w
  <2> QED
    BY <1>1
<1>3. ReadSegment(stream, at) = g[L]
  BY DEF ReadSegment, ReadStep, Ended, Going
<1> HIDE DEF g
<1>4. \A k \in 0 .. L : g[k] = IF k = 0 THEN None ELSE ReadStep(stream, g[k - 1])
  <2> HIDE DEF None
  <2> QED
    BY <1>2
<1> DEFINE S == {k \in 0 .. L : g[k] = W[k]}
<1>5. 0 \in S
  <2>1. 0 \in 0 .. L
    OBVIOUS
  <2> QED
    BY <1>4, <2>1
<1>6. ASSUME NEW k \in 1 .. L, k - 1 \in S PROVE k \in S
  <2>1. k \in 0 .. L /\ k # 0 /\ g[k - 1] = W[k - 1]
    BY <1>6
  <2>2. g[k] = ReadStep(stream, W[k - 1])
    BY <1>4, <2>1
  <2> QED
    BY <2>1, <2>2
<1> HIDE DEF S
<1>7. \A k \in 0 .. L : k \in S
  BY <1>5, <1>6, AllUpTo
<1>8. L \in S
  BY <1>7
<1> QED
  BY <1>3, <1>8 DEF S

LEMMA PlusAssociative == \A a, b, c, d \in Nat : d = b + c => (a + b) + c = a + d
OBVIOUS

(***************************************************************************)
(* Segment::read_struct_from: a segment of any number of extents, in any   *)
(* order, near or far, whole blocks or subblocks, and with any inline      *)
(* bytes, is read as it was written, wherever its words are, and what      *)
(* follows is looked for right after them (segment.cpp:184-325).           *)
(***************************************************************************)
THEOREM SegmentIsReadBack ==
  ASSUME NEW segm, SegmentRow(segm), NEW stream, IsRow(stream), NEW at \in Nat,
         Holds(stream, at, SegmentWords(segm))
  PROVE  ReadSegment(stream, at) =
           [segm |-> segm, at |-> at + Len(SegmentWords(segm)), done |-> TRUE]
<1> DEFINE exts == segm.exts
           raw == segm.raw
           n == Len(exts)
           L == Len(stream)
           ext_words(k) == ExtentWords(PrevOf(exts, k), exts[k])
<1>1. /\ segm = [exts |-> exts, raw |-> raw] /\ IsRow(exts) /\ IsRow(raw)
      /\ \A k \in 1 .. n : exts[k] \in AnyExtents /\ ClearOf(PrevOf(exts, k), exts[k])
  BY DEF SegmentRow
<1>2. n \in Nat /\ L \in Nat
  BY <1>1, RowLen
<1>3. PICK f : SegmentIsHeld(segm, f, stream, at)
  BY <1>1, SegmentWordsRow
<1>4. /\ Len(f[0]) = 0
      /\ \A k \in 0 .. n : Len(f[k]) \in Nat
      /\ \A k \in 1 .. n : /\ Len(f[k]) = Len(f[k - 1]) + Len(ext_words(k))
                           /\ Holds(stream, at + Len(f[k - 1]), ext_words(k))
      /\ Holds(stream, at + Len(f[n]), InlineWords(raw)) /\ n <= Len(f[n])
      /\ Len(SegmentWords(segm)) = Len(f[n]) + Len(InlineWords(raw))
  BY <1>3, ShortRows DEF SegmentIsHeld
<1>5. Len(InlineWords(raw)) \in Nat \ {0} /\ Len(SegmentWords(segm)) \in Nat \ {0}
  BY <1>1, InlineWordsRow, SegmentWordsRow
<1> DEFINE A(k) == at + Len(f[k])
           last == at + Len(SegmentWords(segm))
<1>6. A(0) = at /\ \A k \in 0 .. n : A(k) \in Nat
  BY <1>4
<1>7. ASSUME NEW k \in 1 .. n
      PROVE  A(k) = A(k - 1) + Len(ext_words(k)) /\ Holds(stream, A(k - 1), ext_words(k))
  <2>1. k - 1 \in 0 .. n /\ k \in 0 .. n
    BY <1>2
  <2>2. Len(ext_words(k)) \in Nat
    BY ExtentWordsRow, RowLen
  <2> HIDE DEF ext_words, n
  <2>3. Len(f[k - 1]) \in Nat /\ Len(f[k]) \in Nat /\ Len(f[k]) = Len(f[k - 1]) + Len(ext_words(k))
    BY <1>4, <2>1
  <2>4. A(k) = A(k - 1) + Len(ext_words(k))
    BY <2>2, <2>3, PlusAssociative
  <2> QED
    BY <1>4, <2>4
<1>8. A(n) \in Nat /\ last = A(n) + Len(InlineWords(raw)) /\ Holds(stream, A(n), InlineWords(raw))
  <2>1. n \in 0 .. n
    BY <1>2
  <2> HIDE DEF n, raw
  <2>2. Len(f[n]) \in Nat
    BY <1>4, <2>1
  <2>3. last = A(n) + Len(InlineWords(raw))
    BY <1>4, <1>5, <2>2, PlusAssociative
  <2> QED
    BY <1>4, <1>6, <2>1, <2>3
<1>9. A(n) \in 1 .. L /\ at \in 1 .. L
  <2> HIDE DEF A, L, raw
  <2> QED
    BY <1>5, <1>8, HoldsFirst DEF L
<1>10. n + 1 <= L
  <2>1. \A m \in Nat : at + m \in 1 .. L /\ n <= m => n + 1 <= L
    BY <1>2, <1>9
  <2>2. Len(f[n]) \in Nat
    BY <1>2, <1>4
  <2> QED
    BY <1>4, <1>9, <2>1, <2>2
<1> HIDE DEF A, last
<1>11. /\ stream[A(n)].hdr.is_inline = TRUE
       /\ ReadInline(stream, A(n)) = [raw |-> raw, at |-> last]
  <2> HIDE DEF raw, n
  <2> QED
    BY <1>1, <1>8, InlineIsReadBack
<1>12. ASSUME NEW k \in 1 .. n
       PROVE  /\ stream[A(k - 1)].hdr.is_inline = FALSE /\ A(k - 1) \in 1 .. L
              /\ ReadExtent(stream, A(k - 1), PrevOf(exts, k)) = [ext |-> exts[k], at |-> A(k)]
  <2>1. A(k - 1) \in Nat /\ Holds(stream, A(k - 1), ext_words(k)) /\ A(k) = A(k - 1) + Len(ext_words(k))
    <3>1. k - 1 \in 0 .. n
      BY <1>2
    <3> HIDE DEF n, ext_words
    <3> QED
      BY <1>6, <1>7, <3>1
  <2>2. /\ IsRow(ext_words(k)) /\ Len(ext_words(k)) \in Nat \ {0}
        /\ ext_words(k)[1].hdr = Header(PrevOf(exts, k), exts[k])
    <3>1. IsRow(ext_words(k)) /\ Len(ext_words(k)) > 0
      BY ExtentWordsRow
    <3> QED
      BY <3>1, ExtentWordsRow, RowLen
  <2>3. A(k - 1) \in 1 .. L /\ stream[A(k - 1)] = ext_words(k)[1]
    <3> HIDE DEF ext_words
    <3> QED
      BY <2>1, <2>2, HoldsFirst
  <2>4. stream[A(k - 1)].hdr.is_inline = FALSE
    BY <2>2, <2>3 DEF Header
  <2>5. PrevOf(exts, k) \in AnyExtents /\ exts[k] \in AnyExtents /\ ClearOf(PrevOf(exts, k), exts[k])
    <3>1. NoExtent \in AnyExtents
      BY DEF NoExtent, AnyExtents, FullExtent
    <3>2. k = 1 \/ k - 1 \in 1 .. n
      BY <1>2
    <3> QED
      BY <1>1, <3>1, <3>2 DEF PrevOf
  <2>6. \A i \in 1 .. Len(ext_words(k)) : stream[A(k - 1) + i - 1] = ext_words(k)[i]
    <3> HIDE DEF ext_words
    <3> QED
      BY <2>1 DEF Holds
  <2>7. ReadExtent(stream, A(k - 1), PrevOf(exts, k)) =
          [ext |-> exts[k], at |-> A(k - 1) + Len(ext_words(k))]
    BY <2>1, <2>5, <2>6, ExtentIsReadBack
  <2> QED
    BY <2>1, <2>3, <2>4, <2>7
<1> HIDE DEF ext_words
<1> DEFINE Found(k) == Going(SubSeq(exts, 1, k), A(k))
           All == Ended(exts, raw, last)
           W == [k \in 0 .. L |-> IF k <= n THEN Found(k) ELSE All]
<1>13. ASSUME NEW k \in 1 .. n PROVE ReadStep(stream, Found(k - 1)) = Found(k)
  <2>1. /\ Len(SubSeq(exts, 1, k - 1)) = k - 1
        /\ Append(SubSeq(exts, 1, k - 1), exts[k]) = SubSeq(exts, 1, k)
        /\ k > 1 => SubSeq(exts, 1, k - 1)[k - 1] = exts[k - 1]
    BY <1>1, AppendOfSubSeq
  <2>2. PrevOf(SubSeq(exts, 1, k - 1), k - 1 + 1) = PrevOf(exts, k)
    <3>1. k - 1 + 1 = k /\ (k = 1 \/ k > 1)
      OBVIOUS
    <3> QED
      BY <2>1, <3>1 DEF PrevOf
  <2>3. PICK es, a, past, e : es = SubSeq(exts, 1, k - 1) /\ a = A(k - 1) /\ past = A(k) /\ e = exts[k]
    OBVIOUS
  <2>4. a \in 1 .. L /\ ~ stream[a].hdr.is_inline
    BY <1>12, <2>3
  <2>5. ReadExtent(stream, a, PrevOf(es, Len(es) + 1)) = [ext |-> e, at |-> past]
    <3>1. ReadExtent(stream, A(k - 1), PrevOf(exts, k)) = [ext |-> exts[k], at |-> A(k)]
      BY <1>12
    <3>2. PrevOf(es, Len(es) + 1) = PrevOf(exts, k)
      BY <2>1, <2>2, <2>3
    <3> HIDE DEF exts
    <3> QED
      BY <2>3, <3>1, <3>2
  <2>6. ~ (a > Len(stream))
    BY <1>2, <2>4
  <2>7. ReadStep(stream, Going(es, a)) = Going(Append(es, e), past)
    BY <2>4, <2>5, <2>6, ReadStepExtent
  <2> HIDE DEF exts
  <2> QED
    BY <2>1, <2>3, <2>7
<1>14. ReadStep(stream, Found(n)) = All
  <2>1. PICK a : a = A(n)
    OBVIOUS
  <2>4. a \in 1 .. L /\ stream[a].hdr.is_inline
        /\ ReadInline(stream, a) = [raw |-> raw, at |-> last]
    <3> HIDE DEF n, raw
    <3> QED
      BY <1>9, <1>11, <2>1
  <2>5. ~ (a > Len(stream))
    BY <1>2, <2>4
  <2>2. SubSeq(exts, 1, n) = exts
    <3>1. exts \in Seq({exts[i] : i \in 1 .. n})
      BY <1>1, RowLen
    <3> HIDE DEF exts
    <3> QED
      BY <3>1, SubSeqFull
  <2>3. ReadStep(stream, Going(exts, a)) = Ended(exts, raw, last)
    BY <2>4, <2>5, ReadStepInline
  <2> HIDE DEF n, exts, raw
  <2> QED
    BY <2>1, <2>2, <2>3
<1>15. ReadStep(stream, All) = All
  <2>1. PICK es, r, a : es = exts /\ r = raw /\ a = last
    OBVIOUS
  <2>2. ReadStep(stream, Ended(es, r, a)) = Ended(es, r, a)
    BY ReadStepDone
  <2> HIDE DEF exts, raw
  <2> QED
    BY <2>1, <2>2
<1>16. W[0] = Going(<< >>, at)
  <2>1. SubSeq(exts, 1, 0) = << >>
    <3>1. exts \in Seq({exts[i] : i \in 1 .. n})
      BY <1>1, RowLen
    <3> HIDE DEF exts
    <3> QED
      BY <3>1, SubSeqEmpty
  <2>2. W[0] = Found(0)
    <3>1. 0 \in 0 .. L /\ 0 <= n
      BY <1>2
    <3> HIDE DEF Found, All, n, L
    <3> QED
      BY <3>1
  <2> QED
    BY <1>6, <2>1, <2>2
<1> HIDE DEF Found, All
<1>17. ASSUME NEW k \in 1 .. L PROVE ReadStep(stream, W[k - 1]) = W[k]
  <2>1. /\ W[k - 1] = (IF k - 1 <= n THEN Found(k - 1) ELSE All)
        /\ W[k] = (IF k <= n THEN Found(k) ELSE All)
    BY <1>2
  <2> HIDE DEF W, n
  <2>2. CASE k <= n
    <3>1. k \in 1 .. n /\ k - 1 <= n
      BY <1>2, <2>2
    <3> QED
      BY <1>13, <2>1, <2>2, <3>1
  <2>3. CASE k - 1 = n
    <3>1. k - 1 <= n /\ ~ (k <= n)
      BY <1>2, <2>3
    <3>2. W[k - 1] = Found(n) /\ W[k] = All
      BY <2>1, <2>3, <3>1
    <3> QED
      BY <1>14, <3>2
  <2>4. CASE ~ (k - 1 <= n)
    <3>1. ~ (k <= n)
      BY <1>2, <2>4
    <3> QED
      BY <1>15, <2>1, <2>4, <3>1
  <2>5. k <= n \/ k - 1 = n \/ ~ (k - 1 <= n)
    BY <1>2
  <2> QED
    BY <2>2, <2>3, <2>4, <2>5
<1>18. W[L] = All
  BY <1>2, <1>10
<1> HIDE DEF W
<1>19. ReadSegment(stream, at) = W[L]
  BY <1>2, <1>16, <1>17, ReadLoop
<1>20. All = [segm |-> segm, at |-> at + Len(SegmentWords(segm)), done |-> TRUE]
  BY <1>1 DEF All, Ended, Going, last
<1> QED
  BY ONLY <1>18, <1>19, <1>20

Alike(g, w, n) == g[0] = w[0] /\ \A k \in 1 .. n : g[k - 1] = w[k - 1] => g[k] = w[k]

\* Two functions that start alike, and go on alike, are alike at the end.
LEMMA SameSteps ==
  ASSUME NEW n \in Nat, NEW g, NEW w, Alike(g, w, n)
  PROVE  g[n] = w[n]
<1>0. g[0] = w[0] /\ \A k \in 1 .. n : g[k - 1] = w[k - 1] => g[k] = w[k]
  BY DEF Alike
<1> DEFINE S == {k \in 0 .. n : g[k] = w[k]}
<1>1. 0 \in S
  BY <1>0
<1>2. \A k \in 1 .. n : k - 1 \in S => k \in S
  BY <1>0
<1> HIDE DEF S
<1>3. n \in S
  BY <1>1, <1>2, AllUpTo
<1> QED
  BY <1>3 DEF S

IsTotal(g, n, c) == g = [k \in 0 .. n |-> IF k = 0 THEN 0 ELSE g[k - 1] + c[k]]
TotalOf(n, c, m) == (CHOOSE g : IsTotal(g, n, c))[m]

TotalSteps(w, n, c) == w[0] = 0 /\ \A k \in 1 .. n : w[k] = w[k - 1] + c[k]

\* A sum of the n first of c, as the steps of w tell it.
LEMMA TotalIs ==
  ASSUME NEW n \in Nat, NEW c, NEW w, TotalSteps(w, n, c),
         NEW g, IsTotal(g, n, c),
         NEW m \in 0 .. n
  PROVE  g[m] = w[m]
<1>0. w[0] = 0 /\ \A k \in 1 .. n : w[k] = w[k - 1] + c[k]
  BY DEF TotalSteps
<1>1. 0 \in 0 .. n
  OBVIOUS
<1>2. g[0] = w[0]
  BY <1>0, <1>1 DEF IsTotal
<1>3. ASSUME NEW k \in 1 .. n, g[k - 1] = w[k - 1] PROVE g[k] = w[k]
  <2>1. k \in 0 .. n /\ k # 0
    OBVIOUS
  <2>2. g[k] = g[k - 1] + c[k]
    BY <2>1 DEF IsTotal
  <2> QED
    BY <1>0, <1>3, <2>2
<1>4. m \in Nat /\ \A k \in 1 .. m : k \in 1 .. n
  OBVIOUS
<1>5. Alike(g, w, m)
  BY <1>0, <1>2, <1>3, <1>4 DEF Alike
<1> QED
  BY <1>4, <1>5, SameSteps

\* The sum that a recursive function computes is that of any such steps.
LEMMA TotalFound ==
  ASSUME NEW n \in Nat, NEW c, NEW w, TotalSteps(w, n, c), NEW m \in 0 .. n
  PROVE  TotalOf(n, c, m) = w[m]
<1>0. w[0] = 0 /\ \A k \in 1 .. n : w[k] = w[k - 1] + c[k]
  BY DEF TotalSteps
<1> DEFINE u == [k \in 0 .. n |-> w[k]]
<1>1. IsTotal(u, n, c)
  <2>1. \A k \in 0 .. n : u[k] = w[k]
    OBVIOUS
  <2>2. ASSUME NEW k \in 0 .. n PROVE w[k] = IF k = 0 THEN 0 ELSE u[k - 1] + c[k]
    <3>1. k # 0 => k \in 1 .. n /\ k - 1 \in 0 .. n
      OBVIOUS
    <3> HIDE DEF u
    <3> QED
      BY <1>0, <2>1, <3>1
  <2> QED
    BY <2>2 DEF IsTotal
<1> DEFINE g == CHOOSE g : IsTotal(g, n, c)
<1>2. IsTotal(g, n, c)
  <2> HIDE DEF u
  <2> QED
    BY <1>1
<1>3. g[m] = w[m]
  <2> HIDE DEF g
  <2> QED
    BY <1>2, TotalIs
<1> QED
  BY <1>3 DEF TotalOf

(***************************************************************************)
(* calc_struct_footprint_size: the words of all the extents and those of   *)
(* the inline bytes, whatever there is of them (segment.cpp:27-75).        *)
(***************************************************************************)
THEOREM SegmentFootprintIsExact ==
  ASSUME NEW segm, SegmentRow(segm)
  PROVE  Len(SegmentWords(segm)) = SegmentFootprint(segm)
<1> DEFINE exts == segm.exts
           raw == segm.raw
           n == Len(exts)
           stored == SegmentWords(segm)
           c == [k \in 1 .. n |-> ExtentFootprint(PrevOf(exts, k), exts[k])]
<1>1. /\ IsRow(exts) /\ IsRow(raw) /\ n \in Nat
      /\ \A k \in 1 .. n : exts[k] \in AnyExtents
  BY RowLen DEF SegmentRow
<1>2. IsRow(stored) /\ Len(stored) \in Nat
  BY <1>1, SegmentWordsRow
<1>3. Holds(stored, 1, stored)
  <2> HIDE DEF stored
  <2>1. \A i \in 1 .. Len(stored) : 1 + i - 1 = i
    BY <1>2
  <2> QED
    BY <2>1 DEF Holds
<1>4. PICK f : SegmentIsHeld(segm, f, stored, 1)
  BY <1>1, <1>3, SegmentWordsRow
<1>5. /\ Len(f[0]) = 0
      /\ \A k \in 0 .. n : Len(f[k]) \in Nat
      /\ \A k \in 1 .. n : Len(f[k]) = Len(f[k - 1]) + Len(ExtentWords(PrevOf(exts, k), exts[k]))
      /\ Len(stored) = Len(f[n]) + Len(InlineWords(raw))
  BY <1>4, ShortRows DEF SegmentIsHeld
<1>6. Len(InlineWords(raw)) = 1 + Len(raw) \div 2 /\ Len(raw) \div 2 \in Nat
  <2>1. Len(raw) \in Nat
    BY <1>1, RowLen
  <2> HIDE DEF raw
  <2>2. Len(InlineWords(raw)) = 1 + Len(raw) \div 2
    BY <1>1, InlineWordsRow
  <2> QED
    BY <2>1, <2>2
<1>7. ASSUME NEW k \in 1 .. n
      PROVE  Len(ExtentWords(PrevOf(exts, k), exts[k])) = c[k]
  <2>1. NoExtent \in AnyExtents
    BY DEF NoExtent, AnyExtents, FullExtent
  <2>2. k = 1 \/ k - 1 \in 1 .. n
    BY <1>1
  <2>3. PrevOf(exts, k) \in AnyExtents /\ exts[k] \in AnyExtents
    BY <1>1, <2>1, <2>2 DEF PrevOf
  <2> QED
    BY <2>3, FootprintIsExact
<1> DEFINE w == [k \in 0 .. n |-> Len(f[k])]
           h == CHOOSE h : h = [k \in 0 .. n |->
                  IF k = 0 THEN 0 ELSE h[k - 1] + ExtentFootprint(PrevOf(exts, k), exts[k])]
<1>8. w[0] = 0 /\ w[n] = Len(f[n]) /\ \A k \in 1 .. n : w[k] = w[k - 1] + c[k]
  <2>1. 0 \in 0 .. n /\ n \in 0 .. n
    BY <1>1
  <2>2. ASSUME NEW k \in 1 .. n PROVE w[k] = w[k - 1] + c[k]
    <3>1. k \in 0 .. n /\ k - 1 \in 0 .. n
      BY <1>1
    <3> HIDE DEF c
    <3> QED
      BY <1>5, <1>7, <3>1
  <2> QED
    BY <1>5, <2>1, <2>2
<1>9. TotalOf(n, c, n) = h[n]
  <2>1. ASSUME NEW k \in 0 .. n, k # 0 PROVE c[k] = ExtentFootprint(PrevOf(exts, k), exts[k])
    <3>1. k \in 1 .. n
      BY <1>1, <2>1
    <3> QED
      BY <3>1
  <2>2. \A u : [k \in 0 .. n |-> IF k = 0 THEN 0 ELSE u[k - 1] + c[k]] =
               [k \in 0 .. n |->
                  IF k = 0 THEN 0 ELSE u[k - 1] + ExtentFootprint(PrevOf(exts, k), exts[k])]
    <3> HIDE DEF c, n
    <3> QED
      BY <2>1
  <2> HIDE DEF c, n, exts
  <2> QED
    BY <2>2 DEF TotalOf, IsTotal
<1>10. SegmentFootprint(segm) = h[n] + 1 + (Len(raw) \div 2)
  BY DEF SegmentFootprint
<1> HIDE DEF c, w, h
<1>11. TotalOf(n, c, n) = w[n]
  <2>1. n \in Nat /\ n \in 0 .. n
    BY <1>1
  <2>2. w[0] = 0
    BY <1>8
  <2>3. \A k \in 1 .. n : w[k] = w[k - 1] + c[k]
    BY <1>8
  <2> HIDE DEF n
  <2>4. TotalSteps(w, n, c)
    BY <2>2, <2>3 DEF TotalSteps
  <2> QED
    BY <2>1, <2>4, TotalFound
<1>12. n \in 0 .. n
  BY <1>1
<1>13. Len(f[n]) \in Nat
  BY <1>5, <1>12
<1>14. PICK a, b \in Nat : a = Len(f[n]) /\ b = Len(raw) \div 2
  BY <1>6, <1>13
<1> HIDE DEF n, raw, stored
<1>15. SegmentFootprint(segm) = a + 1 + b /\ Len(stored) = a + (1 + b)
  BY <1>5, <1>6, <1>8, <1>9, <1>10, <1>11, <1>14
<1> QED
  BY <1>15 DEF stored
=============================================================================
