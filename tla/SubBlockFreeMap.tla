-------------------------- MODULE SubBlockFreeMap ---------------------------
(***************************************************************************)
(* xoz/alloc/subblock_free_map: the map of the blocks that are partially   *)
(* free, each with the bitmap of its free subblocks.                       *)
(*                                                                         *)
(* The code keeps every such block twice: in fr_by_nr, from its number to  *)
(* the extent with its bitmap, and in one of the bins exts_bin[], chosen   *)
(* by how many subblocks are free. Here fr_by_nr is a total function in    *)
(* which {} is "not in the map" (a block with no free subblock is dropped  *)
(* from it) and each bin is a set of pairs <<blk_nr, bitmap>>.             *)
(*                                                                         *)
(* Each operator takes the map `m` before a call and returns the map after *)
(* it.                                                                     *)
(***************************************************************************)
EXTENDS Extent

\* Bin i holds the blocks with i + 1 free subblocks.
Bins == 0 .. SubblkCntPerBlk - 1
BinOf(bitmap) == Cardinality(bitmap) - 1

EmptySubFreeMap ==
  [fr_by_nr |-> [b \in BlkNrs |-> {}], exts_bin |-> [i \in Bins |-> {}]]

SubFreeMaps ==
  [fr_by_nr : [BlkNrs -> Bitmaps], exts_bin : [Bins -> SUBSET (BlkNrs \X Bitmaps)]]

InSubMap(m, nr) == m.fr_by_nr[nr] # {}

\* Every block of the map is in the bin of its bitmap, and nothing else is in
\* a bin.
BinsAgreeIn(m) ==
  \A i \in Bins :
    m.exts_bin[i] = {<<b, m.fr_by_nr[b]>> : b \in {c \in BlkNrs : /\ InSubMap(m, c)
                                                               /\ BinOf(m.fr_by_nr[c]) = i}}

\* Mutant of Rebinned: the block stays in the bin it was in.
RebinnedTwice(m, nr, before, after) ==
  [fr_by_nr |-> [m.fr_by_nr EXCEPT ![nr] = after],
   exts_bin |-> [i \in Bins |-> m.exts_bin[i] \cup
                   (IF after # {} /\ i = BinOf(after) THEN {<<nr, after>>} ELSE {})]]

(***************************************************************************)
(* The block nr goes from one bitmap, looked up in the bin of that bitmap, *)
(* to another one: an empty bitmap is never in a bin.                      *)
(***************************************************************************)
Rebinned(m, nr, before, after) ==
  [fr_by_nr |-> [m.fr_by_nr EXCEPT ![nr] = after],
   exts_bin |-> [i \in Bins |->
                   (IF before # {} /\ i = BinOf(before)
                    THEN {x \in m.exts_bin[i] : x[1] # nr} ELSE m.exts_bin[i])
                     \cup (IF after # {} /\ i = BinOf(after) THEN {<<nr, after>>} ELSE {})]]

-----------------------------------------------------------------------------

\* provide(ext) of an extent for suballocation; the code throws if the block
\* is already in the map. An extent of one whole block has every bit set.
ProvideSub(m, nr, bitmap) == Rebinned(m, nr, {}, bitmap)

\* The first bin, from the best one on, that has a block.
UsableBins(m, cnt) ==
  {i \in Bins : /\ i >= cnt - 1 /\ m.exts_bin[i] # {}
                /\ \A j \in Bins : cnt - 1 <= j /\ j < i => m.exts_bin[j] = {}}

\* The block alloc(cnt) takes: begin() of that bin, the lowest block number.
\* This set is empty if alloc fails.
UsableBlk(m, cnt) ==
  {x \in UNION {m.exts_bin[i] : i \in UsableBins(m, cnt)} :
     \A i \in UsableBins(m, cnt) : \A y \in m.exts_bin[i] : x[1] <= y[1]}

\* The subblocks are taken from the most significant bit down.
TakenBits(bitmap, cnt) == {i \in bitmap : Cardinality({j \in bitmap : j > i}) < cnt}

AllocFromBlk(m, x, cnt) == Rebinned(m, x[1], x[2], x[2] \ TakenBits(x[2], cnt))

\* dealloc throws on the double free of a subblock of a block in the map. The
\* free subblocks of a block that is not in the map are the ones given back.
SubAlreadyFreed(m, nr, bitmap) == bitmap \cap m.fr_by_nr[nr] # {}

\* Mutant of DeallocSub: the block is free only where it was given back.
DeallocSubForgets(m, nr, bitmap) == Rebinned(m, nr, m.fr_by_nr[nr], bitmap)

DeallocSub(m, nr, bitmap) ==
  Rebinned(m, nr, m.fr_by_nr[nr], m.fr_by_nr[nr] \cup bitmap)

\* The blocks with no subblock in use: [cbegin_full_blk(), cend_full_blk()).
FullyFreeBlks(m) == {x[1] : x \in m.exts_bin[SubblkCntPerBlk - 1]}

\* release(exts) of whole blocks throws unless each is in the map, fully free.
Releasable(m, nr) == m.fr_by_nr[nr] = Subblks /\ nr \in FullyFreeBlks(m)

ReleaseSub(m, blks) ==
  [fr_by_nr |-> [b \in BlkNrs |-> IF b \in blks THEN {} ELSE m.fr_by_nr[b]],
   exts_bin |-> [m.exts_bin EXCEPT ![SubblkCntPerBlk - 1] = {x \in @ : x[1] \notin blks}]]
=============================================================================
