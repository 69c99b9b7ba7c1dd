------------------------ MODULE DescriptorSetProofs -------------------------
(***************************************************************************)
(* What is true of the descriptor sets of a file, for any number of sets   *)
(* and of descriptors, however they are nested, and for any sizes. The     *)
(* calls of the user are in DescriptorSetLemmas; here are the sync of a    *)
(* set, stage by stage, what its stream has then, opening the file again,  *)
(* and the theorems.                                                       *)
(***************************************************************************)
EXTENDS DescriptorSetLemmas

-----------------------------------------------------------------------------
(* The sync of a set: what its steps keep *)

\* Who owns whom, and who is to be destroyed by whom, does not change.
SameTree(w, v) ==
  /\ \A d \in Dscs : v.dsc[d].owner = w.dsc[d].owner
  /\ \A t \in Sets : v.sets[t].to_destroy = w.sets[t].to_destroy

LEMMA SameTreeFacts ==
  ASSUME NEW w, NEW v, SameTree(w, v)
  PROVE  /\ Holders(v.dsc, v.sets) = Holders(w.dsc, w.sets)
         /\ \A d \in Dscs : Holder(v.dsc, v.sets, d) = Holder(w.dsc, w.sets, d)
         /\ Owners(v.dsc) = Owners(w.dsc)
         /\ \A d \in Dscs : IsThere(v, d) <=> IsThere(w, d)
         /\ \A d \in Dscs : Rooted(v.dsc, d) <=> Rooted(w.dsc, d)
         /\ \A s \in Sets : Members(v.dsc, s) = Members(w.dsc, s)
<1>1. ASSUME NEW x \in Dscs PROVE Holder(v.dsc, v.sets, x) = Holder(w.dsc, w.sets, x)
  <2> DEFINE H1 == {t \in Sets : x \in v.sets[t].to_destroy}
             H2 == {t \in Sets : x \in w.sets[t].to_destroy}
  <2>1. H1 = H2
    BY DEF SameTree
  <2>2. v.dsc[x].owner = w.dsc[x].owner
    BY DEF SameTree
  <2>3. Holder(v.dsc, v.sets, x) = IF v.dsc[x].owner # NoSet THEN v.dsc[x].owner
                                   ELSE IF H1 = {} THEN NoSet ELSE CHOOSE s \in H1 : TRUE
    BY DEF Holder
  <2>4. Holder(w.dsc, w.sets, x) = IF w.dsc[x].owner # NoSet THEN w.dsc[x].owner
                                   ELSE IF H2 = {} THEN NoSet ELSE CHOOSE s \in H2 : TRUE
    BY DEF Holder
  <2> HIDE DEF H1, H2
  <2> QED
    BY <2>1, <2>2, <2>3, <2>4
<1>2. Holders(v.dsc, v.sets) = Holders(w.dsc, w.sets)
  BY <1>1 DEF Holders
<1>3. Owners(v.dsc) = Owners(w.dsc)
  BY DEF Owners, SameTree
<1>4. \A s \in Sets : Members(v.dsc, s) = Members(w.dsc, s)
  BY DEF Members, SameTree
<1> QED
  BY <1>1, <1>2, <1>3, <1>4 DEF IsThere, Rooted

LEMMA TreeKept ==
  ASSUME NEW w, NEW v, TreeInv(w), SameTree(w, v),
         \A t \in Sets : v.sets[t].to_destroy # {} => v.sets[t].to_remove # {},
         \A d \in Dscs : ~ IsThere(w, d) => /\ v.dsc[d] = w.dsc[d]
                                            /\ d \in Sets => v.sets[d] = w.sets[d]
  PROVE  TreeInv(v)
<1>1. /\ Holders(v.dsc, v.sets) = Holders(w.dsc, w.sets)
      /\ \A d \in Dscs : IsThere(v, d) <=> IsThere(w, d)
      /\ \A d \in Dscs : Rooted(v.dsc, d) <=> Rooted(w.dsc, d)
  BY SameTreeFacts
<1>2. \A s, t \in Sets : s # t => v.sets[s].to_destroy \cap v.sets[t].to_destroy = {}
  BY DEF TreeInv, SameTree
<1>3. \A d \in Dscs : IsThere(v, d) => IsHeld(v, d)
  BY <1>1 DEF TreeInv, IsHeld
<1>4. \A d \in Dscs : ~ IsThere(v, d) => /\ v.dsc[d] = Absent
                                         /\ d \in Sets => v.sets[d] = EmptySet
  BY <1>1 DEF TreeInv
<1>5. \A s \in Sets : v.sets[s].to_destroy \cap Sets # {} => Rooted(v.dsc, s)
  BY <1>1, SetsAreFinite DEF TreeInv, SameTree
<1> QED
  BY <1>2, <1>3, <1>4, <1>5 DEF TreeInv

\* The segment of one set gets blocks that nobody has.
LEMMA BlocksGrown ==
  ASSUME NEW w, NEW v, BlockInv(w), NEW s \in Sets, NEW new, NEW old,
         old \in Seq(Pos), old = w.sets[s].segm,
         new \in Seq(Pos), IsInjective(new), ToSet(new) \cap w.in_use = {},
         v.sets[s].segm = old \o new,
         \A d \in Dscs : v.dsc[d].content = w.dsc[d].content,
         \A t \in Sets \ {s} : v.sets[t].segm = w.sets[t].segm,
         \A d \in Dscs : IsThere(v, d) => IsThere(w, d),
         v.in_use = w.in_use \cup ToSet(new)
  PROVE  BlockInv(v)
<1>1. s \in Dscs
  BY SetsAreFinite
<1>2. /\ \A d \in Dscs : BlksAt(w, d) \subseteq w.in_use
      /\ \A x, y \in Dscs : x # y => BlksAt(w, x) \cap BlksAt(w, y) = {}
      /\ w.in_use = UNION {BlksAt(w, d) : d \in Dscs}
  BY DEF BlockInv
<1> DEFINE all == old \o new
<1>3. /\ Len(old) \in Nat /\ Len(new) \in Nat /\ Len(all) = Len(old) + Len(new)
      /\ \A i \in 1 .. Len(old) : all[i] = old[i]
      /\ \A i \in 1 .. Len(new) : all[Len(old) + i] = new[i]
      /\ all \in Seq(Pos)
      /\ DOMAIN old = 1 .. Len(old) /\ DOMAIN new = 1 .. Len(new)
      /\ DOMAIN all = 1 .. Len(all)
  OBVIOUS
<1> HIDE DEF all
<1>4. \A i \in 1 .. Len(all) :
        \/ i \in 1 .. Len(old) /\ all[i] = old[i]
        \/ \E j \in 1 .. Len(new) : i = Len(old) + j /\ all[i] = new[j]
  <2> SUFFICES ASSUME NEW i \in 1 .. Len(all)
               PROVE  \/ i \in 1 .. Len(old) /\ all[i] = old[i]
                      \/ \E j \in 1 .. Len(new) : i = Len(old) + j /\ all[i] = new[j]
    OBVIOUS
  <2>1. CASE i <= Len(old)
    BY <1>3, <2>1
  <2>2. CASE i > Len(old)
    <3>1. i - Len(old) \in 1 .. Len(new) /\ i = Len(old) + (i - Len(old))
      BY <1>3, <2>2
    <3> QED
      BY <1>3, <3>1
  <2> QED
    BY <1>3, <2>1, <2>2
<1>5. ToSet(all) = ToSet(old) \cup ToSet(new)
  <2>1. /\ ToSet(all) = {all[i] : i \in 1 .. Len(all)}
        /\ ToSet(old) = {old[i] : i \in 1 .. Len(old)}
        /\ ToSet(new) = {new[i] : i \in 1 .. Len(new)}
    <3>1. ASSUME NEW q \in Seq(Pos) PROVE ToSet(q) = {q[i] : i \in 1 .. Len(q)}
      BY ToSetFacts
    <3> QED
      BY <1>3, <3>1
  <2>2. ASSUME NEW b \in ToSet(all) PROVE b \in ToSet(old) \cup ToSet(new)
    <3>1. PICK i \in 1 .. Len(all) : b = all[i]
      BY <2>1
    <3>2. CASE i \in 1 .. Len(old) /\ all[i] = old[i]
      BY <2>1, <3>1, <3>2
    <3>3. CASE \E j \in 1 .. Len(new) : i = Len(old) + j /\ all[i] = new[j]
      BY <2>1, <3>1, <3>3
    <3> QED
      BY <1>4, <3>2, <3>3
  <2>3. ASSUME NEW b \in ToSet(old) \cup ToSet(new) PROVE b \in ToSet(all)
    <3>1. CASE b \in ToSet(old)
      <4>1. PICK i \in 1 .. Len(old) : b = old[i]
        BY <2>1, <3>1
      <4>2. i \in 1 .. Len(all) /\ all[i] = b
        BY <1>3, <4>1
      <4> QED
        BY <2>1, <4>2
    <3>2. CASE b \in ToSet(new)
      <4>1. PICK i \in 1 .. Len(new) : b = new[i]
        BY <2>1, <3>2
      <4>2. Len(old) + i \in 1 .. Len(all) /\ all[Len(old) + i] = b
        BY <1>3, <4>1
      <4> QED
        BY <2>1, <4>2
    <3> QED
      BY <2>3, <3>1, <3>2
  <2> QED
    BY <2>2, <2>3
<1>6. ToSet(old) \subseteq w.in_use /\ IsInjective(old)
  BY <1>1, <1>2 DEF BlksAt, BlockInv
<1>7. IsInjective(all)
  <2>1. /\ \A i, j \in 1 .. Len(old) : old[i] = old[j] => i = j
        /\ \A i, j \in 1 .. Len(new) : new[i] = new[j] => i = j
    BY <1>3, <1>6 DEF IsInjective
  <2>2. /\ \A i \in 1 .. Len(old) : old[i] \in w.in_use
        /\ \A i \in 1 .. Len(new) : new[i] \notin w.in_use
    BY <1>6, ToSetFacts
  <2>3. ASSUME NEW i \in 1 .. Len(all), NEW j \in 1 .. Len(all), all[i] = all[j]
        PROVE  i = j
    <3>1. CASE i \in 1 .. Len(old) /\ all[i] = old[i]
      <4>1. CASE j \in 1 .. Len(old) /\ all[j] = old[j]
        BY <2>1, <2>3, <3>1, <4>1
      <4>2. CASE \E k \in 1 .. Len(new) : j = Len(old) + k /\ all[j] = new[k]
        BY <2>2, <2>3, <3>1, <4>2
      <4> QED
        BY <1>4, <4>1, <4>2
    <3>2. CASE \E k \in 1 .. Len(new) : i = Len(old) + k /\ all[i] = new[k]
      <4>1. CASE j \in 1 .. Len(old) /\ all[j] = old[j]
        BY <2>2, <2>3, <3>2, <4>1
      <4>2. CASE \E k \in 1 .. Len(new) : j = Len(old) + k /\ all[j] = new[k]
        BY <2>1, <2>3, <3>2, <4>2
      <4> QED
        BY <1>4, <4>1, <4>2
    <3> QED
      BY <1>4, <3>1, <3>2
  <2> QED
    BY <1>3, <2>3 DEF IsInjective
<1>8. /\ BlksAt(v, s) = BlksAt(w, s) \cup ToSet(new)
      /\ \A d \in Dscs \ {s} : BlksAt(v, d) = BlksAt(w, d)
  <2>1. v.sets[s].segm = all /\ w.sets[s].segm = old
    BY DEF all
  <2> QED
    BY <1>1, <1>5, <2>1 DEF BlksAt
<1>9. \A x, y \in Dscs : x # y => BlksAt(v, x) \cap BlksAt(v, y) = {}
  <2> SUFFICES ASSUME NEW x \in Dscs, NEW y \in Dscs, x # y
               PROVE  BlksAt(v, x) \cap BlksAt(v, y) = {}
    OBVIOUS
  <2>1. CASE x = s
    BY <1>2, <1>8, <2>1
  <2>2. CASE y = s
    BY <1>2, <1>8, <2>2
  <2>3. CASE x # s /\ y # s
    BY <1>2, <1>8, <2>3
  <2> QED
    BY <2>1, <2>2, <2>3
<1>10. v.in_use = UNION {BlksAt(v, d) : d \in Dscs}
  BY <1>1, <1>2, <1>8
<1>11. \A t \in Sets : IsInjective(v.sets[t].segm) /\ v.dsc[t].content = {}
  <2>1. \A t \in Sets : t \in Dscs
    BY SetsAreFinite
  <2> QED
    BY <1>7, <2>1 DEF BlockInv, all
<1>12. \A d \in WithContent : IsThere(v, d) => v.dsc[d].content # {}
  <2>1. \A d \in WithContent : d \in Dscs
    BY SetsAssumption, SetsAreFinite
  <2> QED
    BY <2>1 DEF BlockInv
<1> QED
  BY <1>9, <1>10, <1>11, <1>12 DEF BlockInv

LEMMA EmptyCellInv ==
  ASSUME NEW ds, NEW s \in Sets, Members(ds, s) = {}
  PROVE  CellInv(ds, EmptySet, s)
<1>1. /\ EmptySet.past = 0 /\ EmptySet.used = {} /\ EmptySet.cells = <<>>
      /\ EmptySet.segm = <<>> /\ EmptySet.to_remove = {} /\ EmptySet.sum = EmptyBag
  BY DEF EmptySet
<1>2. Room(EmptySet)
  <2>1. Len(<<>>) = 0 /\ CellsPerBlk \in Nat
    BY SetsAssumption
  <2> QED
    BY <1>1, <2>1 DEF Room, HeaderOf
<1>3. Claimed(ds, EmptySet, s)
  BY <1>1 DEF Claimed, HeaderOf
<1>4. Recorded(ds, EmptySet, s)
  BY DEF Recorded
<1>5. Padded(EmptySet)
  BY <1>1 DEF Padded
<1>6. EmptyBag = SetToBag(Records(ds, s))
  <2>1. Records(ds, s) = {}
    BY DEF Records
  <2> QED
    BY <2>1 DEF EmptyBag
<1> QED
  BY <1>1, <1>2, <1>3, <1>4, <1>5, <1>6 DEF CellInv

OthersInv(w, s) == \A t \in Sets \ {s} : CellInv(w.dsc, w.sets[t], t)

\* Only s and its descriptors change.
LEMMA OthersKept ==
  ASSUME NEW w, NEW v, NEW s, OthersInv(w, s),
         \A d \in Dscs : /\ v.dsc[d].owner = w.dsc[d].owner
                         /\ w.dsc[d].owner # s => v.dsc[d] = w.dsc[d],
         \A t \in Sets \ {s} : v.sets[t] = w.sets[t]
  PROVE  OthersInv(v, s)
<1> SUFFICES ASSUME NEW t \in Sets \ {s} PROVE CellInv(v.dsc, v.sets[t], t)
  BY DEF OthersInv
<1> DEFINE ds == w.dsc
           es == v.dsc
           S == w.sets[t]
<1>1. Members(es, t) = Members(ds, t)
  BY DEF Members
<1>2. \A x \in Members(ds, t) : es[x] = ds[x]
  BY DEF Members
<1>3. SameStream(S, S) /\ CellInv(ds, S, t) /\ v.sets[t] = S
  BY DEF SameStream, OthersInv
<1> HIDE DEF ds, es, S
<1>4. CellInv(es, S, t)
  BY <1>1, <1>2, <1>3, CellsKept
<1> QED
  BY <1>3, <1>4 DEF es

\* A cell without a record.
Blank(c, x) == x \in {Zero, Old} /\ (c \notin Leftover => x = Zero)

\* The free cells up to n are blank.
Cleared(S, n) ==
  \A c \in 1 .. n : c > HeaderCells /\ c \notin S.used => Blank(c, S.cells[c])

\* A stream that may not have its header written yet.
CellMid(ds, S, s) ==
  /\ Room(S) /\ Claimed(ds, S, s) /\ Recorded(ds, S, s) /\ Cleared(S, Len(S.cells))
  /\ S.sum = SetToBag(Records(ds, s))
  /\ S.past = 0 => Members(ds, s) = {}

\* The memory in the middle of the sync of s, but for the stream of s.
Mid(w, s) == Fine(w) /\ TreeInv(w) /\ BlockInv(w) /\ OthersInv(w, s)

LEMMA EmptyStream ==
  ASSUME NEW S \in SetT, Room(S), S.past = 0
  PROVE  S.segm = <<>> /\ S.cells = <<>> /\ S.used = {} /\ Len(S.cells) = 0
<1>1. S.cells \in Seq(Cell)
  BY SetTFacts
<1>2. S.segm = <<>> /\ Len(S.cells) = Len(S.segm) * CellsPerBlk /\ S.used \subseteq 1 .. 0
  BY DEF Room
<1>3. Len(S.cells) = 0
  <2>1. CellsPerBlk \in Nat /\ Len(<<>>) = 0
    BY SetsAssumption
  <2>2. 0 * CellsPerBlk = 0
    BY <2>1
  <2> QED
    BY <1>2, <2>1, <2>2
<1> QED
  BY <1>1, <1>2, <1>3

LEMMA HeaderStage ==
  ASSUME NEW w, Inv(w), NEW s \in Sets, Rooted(w.dsc, s)
  PROVE  LET h == WithHeader(w, s)
         IN /\ Mid(h, s) /\ CellMid(h.dsc, h.sets[s], s)
            /\ h.dsc = w.dsc /\ h.dirty = w.dirty
            /\ SamePending(h.sets[s], w.sets[s])
            /\ \A t \in Sets \ {s} : h.sets[t] = w.sets[t]
            /\ h = w \/ RequiresWrite(h.sets[s])
<1> DEFINE h == WithHeader(w, s)
           S == w.sets[s]
           ds == w.dsc
<1>1. /\ Fine(w) /\ w \in WT /\ GoodDscs(ds) /\ TreeInv(w) /\ ds \in [Dscs -> DscT]
      /\ w.sets \in [Sets -> SetT] /\ BlockInv(w)
      /\ \A t \in Sets : CellInv(ds, w.sets[t], t)
  BY WTFacts DEF Inv, Fine
<1>2. S \in SetT /\ CellInv(ds, S, s) /\ OthersInv(w, s)
  BY <1>1 DEF OthersInv
<1>3. /\ Fine(h)
      /\ \/ /\ S.past > 0 \/ Members(ds, s) = {}
            /\ h = w
         \/ /\ S.past = 0 /\ Members(ds, s) # {}
            /\ \E new, more : HeaderedWith(w, h, s, new, more)
  BY <1>1, WithHeaderFacts
<1> HIDE DEF h
<1>4. HeaderCells \in Nat /\ HeaderCells # 0 /\ CellsPerBlk \in Nat
  BY SetsAssumption
<1>5. Len(S.cells) \in Nat /\ DOMAIN S.cells = 1 .. Len(S.cells) /\ S.past \in Nat
  BY <1>2, SetTFacts
<1>6. CASE h = w /\ (S.past > 0 \/ Members(ds, s) = {})
  <2>1. Cleared(S, Len(S.cells))
    <3> HIDE DEF S
    <3> QED
      BY <1>2, <1>5 DEF CellInv, Padded, Cleared, Blank
  <2>2. CellMid(ds, S, s)
    <3>1. S.past = 0 => Members(ds, s) = {}
      BY <1>6
    <3> HIDE DEF S, ds
    <3> QED
      BY <1>2, <2>1, <3>1 DEF CellInv, CellMid
  <2>3. SamePending(S, S)
    BY DEF SamePending
  <2> QED
    BY <1>1, <1>2, <1>6, <2>2, <2>3 DEF Mid, h
<1>7. CASE S.past = 0 /\ Members(ds, s) # {} /\ \E new, more : HeaderedWith(w, h, s, new, more)
  <2>1. PICK new, more : HeaderedWith(w, h, s, new, more)
    BY <1>7
  <2> DEFINE T == [S EXCEPT !.past = HeaderCells, !.segm = @ \o new, !.cells = @ \o more,
                            !.used = 1 .. HeaderCells]
  <2>2. /\ new \in Seq(Pos) /\ IsInjective(new) /\ ToSet(new) \cap w.in_use = {}
        /\ Len(new) = Max({0, BlksFor(HeaderCells) - Len(S.segm)})
        /\ more \in Seq({Old, Zero}) /\ Len(more) = Len(new) * CellsPerBlk
        /\ h.dsc = ds /\ h.dirty = w.dirty /\ h.in_use = w.in_use \cup ToSet(new)
        /\ h.sets = [w.sets EXCEPT ![s] = T]
    BY <2>1 DEF HeaderedWith
  <2>3. S.segm = <<>> /\ S.cells = <<>> /\ S.used = {} /\ Len(S.cells) = 0
    BY <1>2, <1>7, EmptyStream DEF CellInv
  <2>4. /\ T.past = HeaderCells /\ T.segm = S.segm \o new /\ T.cells = S.cells \o more
        /\ T.used = 1 .. HeaderCells /\ T.to_add = S.to_add /\ T.to_update = S.to_update
        /\ T.to_remove = S.to_remove /\ T.to_destroy = S.to_destroy /\ T.sum = S.sum
    BY <1>2 DEF SetT
  <2> HIDE DEF T
  <2>5. h.sets[s] = T /\ \A t \in Sets \ {s} : h.sets[t] = w.sets[t]
    BY <1>1, <2>2
  <2>6. T.segm = new /\ T.cells = more
    BY <2>2, <2>3, <2>4
  <2>7. Len(new) = BlksFor(HeaderCells) /\ BlksFor(HeaderCells) \in Nat
    <3>1. PICK b \in Nat : b = BlksFor(HeaderCells)
      BY <1>4, BlksForFacts
    <3>2. Len(S.segm) = 0 /\ BlksFor(HeaderCells) - Len(S.segm) = b
      BY <2>3, <3>1
    <3>3. Max({0, b}) = b
      BY <3>1, NumMax
    <3> QED
      BY <2>2, <3>1, <3>2, <3>3
  <2>8. /\ HeaderCells <= Len(T.cells) /\ Len(T.cells) \in Nat
        /\ Len(T.cells) = Len(T.segm) * CellsPerBlk
        /\ \A c \in 1 .. Len(T.cells) : c > HeaderCells => c \in Leftover
    <3>1. HeaderCells <= BlksFor(HeaderCells) * CellsPerBlk
      BY <1>4, BlksForFacts
    <3>2. Len(T.cells) = BlksFor(HeaderCells) * CellsPerBlk /\ Len(more) \in Nat
      BY <2>2, <2>6, <2>7
    <3>4. PICK x \in Nat : x = BlksFor(HeaderCells) * CellsPerBlk
      BY <2>6, <3>2
    <3>5. Len(T.cells) = x /\ Len(T.segm) * CellsPerBlk = x
      BY <2>6, <2>7, <3>2, <3>4
    <3>6. HeaderCells <= x /\ HeaderCells \in Nat /\ x \in Nat
      BY <1>4, <3>1, <3>4
    <3>7. Leftover = HeaderCells + 1 .. x
      BY <3>4 DEF Leftover
    <3>8. \A c \in 1 .. x : c > HeaderCells => c \in Leftover
      BY <3>6, <3>7
    <3> QED
      BY <3>5, <3>6, <3>8
  <2>9. HeaderOf(T) = 1 .. HeaderCells /\ HeaderOf(S) = {}
    BY <1>4, <1>7, <2>4 DEF HeaderOf
  <2>10. \A d \in Members(ds, s) : ds[d].ext = {} /\ d \in S.to_add
    <3>1. \A d \in Members(ds, s) : ds[d].ext \subseteq S.used
      <4> HIDE DEF S, ds
      <4> QED
        BY <1>2 DEF CellInv, Claimed
    <3>2. \A d \in Members(ds, s) : ds[d].ext = {}
      BY <2>3, <3>1
    <3> HIDE DEF S, ds
    <3> QED
      BY <1>2, <3>2 DEF CellInv, Recorded
  <2>11. \A x \in S.to_remove : x = {}
    <3>1. \A x \in S.to_remove : x \subseteq S.used
      <4> HIDE DEF S, ds
      <4> QED
        BY <1>2 DEF CellInv, Claimed
    <3> QED
      BY <2>3, <3>1
  <2>12. CellMid(ds, T, s)
    <3>1. Room(T)
      BY <1>4, <2>4, <2>8, <2>9 DEF Room
    <3>2. Claimed(ds, T, s)
      BY <2>4, <2>9, <2>10, <2>11 DEF Claimed
    <3>3. Recorded(ds, T, s)
      <4>1. \A d \in Members(ds, s) : ds[d].ext = {} /\ d \in T.to_add
        BY <2>4, <2>10
      <4> HIDE DEF S, ds
      <4> QED
        BY <4>1 DEF Recorded
    <3>4. Cleared(T, Len(T.cells))
      <4> SUFFICES ASSUME NEW c \in 1 .. Len(T.cells), c > HeaderCells
                   PROVE  Blank(c, T.cells[c])
        BY DEF Cleared
      <4>1. c \in Leftover
        BY <2>8
      <4>2. T.cells[c] \in {Old, Zero}
        BY <2>2, <2>6
      <4> QED
        BY <4>1, <4>2 DEF Blank
    <3>5. T.sum = SetToBag(Records(ds, s))
      BY <1>2, <2>4 DEF CellInv
    <3>6. T.past # 0
      BY <1>4, <2>4
    <3> QED
      BY <3>1, <3>2, <3>3, <3>4, <3>5, <3>6 DEF CellMid
  <2>13. SameTree(w, h)
    <3>1. \A t \in Sets : h.sets[t].to_destroy = w.sets[t].to_destroy
      BY <2>4, <2>5
    <3> QED
      BY <2>2, <3>1 DEF SameTree
  <2>14. TreeInv(h)
    <3>1. \A t \in Sets : h.sets[t].to_destroy # {} => h.sets[t].to_remove # {}
      BY <1>1, <2>4, <2>5 DEF TreeInv
    <3>2. IsThere(w, s) /\ s \in Dscs
      BY <1>1, RootedHolders, SetsAreFinite
    <3>3. \A d \in Dscs : ~ IsThere(w, d) => /\ h.dsc[d] = w.dsc[d]
                                             /\ d \in Sets => h.sets[d] = w.sets[d]
      BY <2>2, <2>5, <3>2
    <3> QED
      BY <1>1, <2>13, <3>1, <3>3, TreeKept
  <2>15. BlockInv(h)
    <3>1. \A d \in Dscs : IsThere(h, d) => IsThere(w, d)
      BY <2>13, SameTreeFacts
    <3>2. PICK old \in Seq(Pos) : old = w.sets[s].segm
      BY <1>2, SetTFacts
    <3>3. h.sets[s].segm = old \o new
      BY <2>4, <2>5, <3>2
    <3>4. /\ \A d \in Dscs : h.dsc[d].content = w.dsc[d].content
          /\ \A t \in Sets \ {s} : h.sets[t].segm = w.sets[t].segm
      BY <2>2, <2>5
    <3> QED
      BY <1>1, <2>2, <3>1, <3>2, <3>3, <3>4, BlocksGrown
  <2>16. OthersInv(h, s)
    BY <1>2, <2>2, <2>5, OthersKept
  <2>17. RequiresWrite(T)
    BY <1>7, <2>4, <2>10 DEF RequiresWrite
  <2>18. SamePending(T, S)
    BY <2>4 DEF SamePending
  <2> QED
    BY <1>3, <2>2, <2>5, <2>12, <2>14, <2>15, <2>16, <2>17, <2>18 DEF Mid, h
<1> QED
  BY <1>3, <1>6, <1>7

\* d has as many cells as it needs now.
IsPlaced(d, r) == \E lo \in Pos : r.ext = lo .. lo + Footprint(d, r) - 1

\* d is not pending and has its record, in the cells up to had.
Stays(S, d, r, had) ==
  \E R \in r.written : HasRecord(S, d, r, R) /\ R.pid = r.pid /\ r.ext \subseteq 1 .. had

\* A stream where the ones of P have still no place, and whose cells up to
\* had, that it had before the additions, are not touched.
PlaceInv(ds, S, s, P, had) ==
  /\ Room(S) /\ Claimed(ds, S, s) /\ S.to_remove = {}
  /\ P \subseteq S.to_add /\ had <= Len(S.cells) /\ Cleared(S, had)
  /\ \A d \in Members(ds, s) :
       /\ ds[d].ext = {} <=> d \in P
       /\ d \in (S.to_add \cup S.to_update) \ P => IsPlaced(d, ds[d])
       /\ d \notin S.to_add \cup S.to_update => Stays(S, d, ds[d], had)
  /\ S.sum = SetToBag(Records(ds, s))
  /\ S.past = 0 => Members(ds, s) = {}

\* An interval, and its first cells.
LEMMA IntervalFacts ==
  ASSUME NEW lo \in Pos, NEW m \in Pos
  PROVE  /\ Min(lo .. lo + m - 1) = lo
         /\ Cardinality(lo .. lo + m - 1) = m
         /\ lo .. lo + m - 1 # {} /\ lo \in lo .. lo + m - 1
         /\ lo .. lo + m - 1 \in SUBSET Nat
<1> DEFINE I == lo .. lo + m - 1
<1>0. lo \in Nat /\ m \in Nat /\ m # 0
  BY DEF Pos
<1>1. I \in SUBSET Nat /\ lo \in I
  BY <1>0
<1>2. Min(I) = lo
  <2>1. Min(I) \in I /\ \A y \in I : Min(I) <= y
    <3> HIDE DEF I
    <3> QED
      BY <1>1, MinFacts
  <2>2. PICK x \in Nat : x = Min(I)
    BY <1>1, <2>1
  <2>3. x \in lo .. lo + m - 1 /\ x <= lo
    BY <1>1, <2>1, <2>2
  <2> QED
    BY <1>0, <2>2, <2>3
<1>5. Cardinality(I) = m
  <2>1. PICK hi \in Int : hi = lo + m - 1
    BY <1>0
  <2>2. lo \in Int /\ lo <= hi
    BY <1>0, <2>1
  <2>3. Cardinality(lo .. hi) = hi - lo + 1
    <3>1. Cardinality(lo .. hi) = IF lo > hi THEN 0 ELSE hi - lo + 1
      BY <2>2, FS_Interval
    <3> QED
      BY <2>2, <3>1
  <2> QED
    BY <1>0, <2>1, <2>3
<1> QED
  BY <1>1, <1>2, <1>5

LEMMA FirstCellsFacts ==
  ASSUME NEW lo \in Pos, NEW m \in Pos, NEW n \in Pos, n <= m
  PROVE  FirstCells(lo .. lo + m - 1, n) = lo .. lo + n - 1
<1>0. lo \in Nat /\ m \in Nat /\ n \in Nat
  BY DEF Pos
<1>1. FirstCells(lo .. lo + m - 1, n) = {c \in lo .. lo + m - 1 : c < lo + n}
  BY IntervalFacts DEF FirstCells
<1>2. ASSUME NEW c PROVE c \in lo .. lo + m - 1 /\ c < lo + n <=> c \in lo .. lo + n - 1
  <2>1. CASE c \in Int
    BY <1>0, <2>1
  <2> QED
    BY <1>0, <2>1
<1>3. {c \in lo .. lo + m - 1 : c < lo + n} = lo .. lo + n - 1
  BY ONLY <1>2
<1> QED
  BY <1>1, <1>3

LEMMA DeallocatedCells ==
  ASSUME NEW h, Fine(h), NEW s \in Sets, CellMid(h.dsc, h.sets[s], s),
         NEW a, DeallocatedWith(h, a, s)
  PROVE  /\ PlaceInv(a.dsc, a.sets[s], s, a.sets[s].to_add, Len(h.sets[s].cells))
         /\ a.sets[s].to_add = h.sets[s].to_add \cup TooSmall(h, s)
         /\ a.sets[s].to_update = h.sets[s].to_update
         /\ a.sets[s].to_destroy = h.sets[s].to_destroy
         /\ a.sets[s].segm = h.sets[s].segm
         /\ Len(a.sets[s].cells) = Len(h.sets[s].cells)
         /\ \A t \in Sets \ {s} : a.sets[t] = h.sets[t]
         /\ \A d \in Dscs : /\ a.dsc[d] \in DscT
                            /\ a.dsc[d].owner = h.dsc[d].owner /\ a.dsc[d].data = h.dsc[d].data
                            /\ a.dsc[d].pid = h.dsc[d].pid /\ a.dsc[d].written = h.dsc[d].written
                            /\ a.dsc[d].content = h.dsc[d].content
                            /\ a.dsc[d].notified = h.dsc[d].notified
                            /\ h.dsc[d].owner # s => a.dsc[d] = h.dsc[d]
         /\ a.in_use = h.in_use /\ a.dirty = h.dirty
<1> DEFINE S == h.sets[s]
           T == a.sets[s]
           ds == h.dsc
           es == a.dsc
           G == UNION GivenUp(h, s)
           Small == TooSmall(h, s)
           M == Members(ds, s)
<1>1. /\ ds \in [Dscs -> DscT] /\ h.sets \in [Sets -> SetT] /\ GoodDscs(ds)
      /\ GoodSets(ds, h.sets)
  BY WTFacts DEF Fine
<1>2. S \in SetT
  BY <1>1
<1>3. /\ S.past \in Nat /\ S.used \in SUBSET Nat /\ S.cells \in Seq(Cell)
      /\ S.to_add \in SUBSET Dscs /\ S.to_update \in SUBSET Dscs
      /\ Len(S.cells) \in Nat /\ DOMAIN S.cells = 1 .. Len(S.cells)
  BY <1>2, SetTFacts
<1>4. /\ Room(S) /\ Claimed(ds, S, s) /\ Recorded(ds, S, s) /\ Cleared(S, Len(S.cells))
      /\ S.sum = SetToBag(Records(ds, s)) /\ (S.past = 0 => M = {})
  BY DEF CellMid
<1>5. Small \subseteq S.to_update /\ S.to_update \subseteq M /\ S.to_add \subseteq M
  BY <1>1, <1>3 DEF TooSmall, GoodSets, Members
<1>6. ASSUME NEW d \in Dscs
      PROVE  /\ es[d] \in DscT /\ es[d].ext = ExtAfter(h, s, d)
             /\ es[d].owner = ds[d].owner /\ es[d].data = ds[d].data
             /\ es[d].pid = ds[d].pid /\ es[d].written = ds[d].written
             /\ es[d].content = ds[d].content /\ es[d].notified = ds[d].notified
             /\ d \notin S.to_update => es[d] = ds[d]
  <2>1. PICK r \in DscT : r = ds[d]
    BY <1>1
  <2>2. PICK X \in SUBSET Nat : X = ExtAfter(h, s, d)
    <3>1. r.ext \in SUBSET Nat
      BY DscTFacts
    <3>2. KeptExt(h, d) \subseteq r.ext
      BY <2>1 DEF KeptExt, FirstCells
    <3>3. ExtAfter(h, s, d) \subseteq Nat
      BY <2>1, <3>1, <3>2 DEF ExtAfter
    <3> QED
      BY <3>3
  <2>3. es[d] = [r EXCEPT !.ext = X]
    BY <2>1, <2>2 DEF DeallocatedWith
  <2>4. LET q == [r EXCEPT !.ext = X]
        IN /\ q \in DscT /\ q.ext = X /\ q.owner = r.owner /\ q.data = r.data
           /\ q.pid = r.pid /\ q.written = r.written /\ q.content = r.content
           /\ q.notified = r.notified
    BY DEF DscT
  <2>5. d \notin S.to_update => X = r.ext
    BY <1>5, <2>1, <2>2 DEF ExtAfter
  <2>6. [r EXCEPT !.ext = r.ext] = r
    BY DEF DscT
  <2> QED
    BY <2>1, <2>2, <2>3, <2>4, <2>5, <2>6
<1>7. /\ T = [S EXCEPT !.to_add = @ \cup Small, !.to_remove = {},
                       !.used = @ \ G, !.cells = Zeroed(@, G)]
      /\ \A t \in Sets \ {s} : a.sets[t] = h.sets[t]
      /\ a.in_use = h.in_use /\ a.dirty = h.dirty
  BY <1>1 DEF DeallocatedWith
<1> HIDE DEF S, T, ds, es, G, Small, M
<1>8. /\ Zeroed(S.cells, G) \in Seq(Cell) /\ Len(Zeroed(S.cells, G)) = Len(S.cells)
      /\ \A c \in 1 .. Len(S.cells) : Zeroed(S.cells, G)[c] = IF c \in G THEN Zero ELSE S.cells[c]
  BY <1>3, ZeroedFacts
<1>9. PICK Q \in Seq(Cell) : Q = Zeroed(S.cells, G)
  BY <1>8
<1>10. /\ T.to_add = S.to_add \cup Small /\ T.to_update = S.to_update /\ T.to_remove = {}
       /\ T.to_destroy = S.to_destroy /\ T.segm = S.segm /\ T.past = S.past
       /\ T.used = S.used \ G /\ T.cells = Q /\ T.sum = S.sum
  <2>1. T = [S EXCEPT !.to_add = @ \cup Small, !.to_remove = {}, !.used = @ \ G, !.cells = Q]
    BY <1>7, <1>9
  <2> QED
    BY ONLY <2>1, <1>2 DEF SetT
<1>11. /\ Len(T.cells) = Len(S.cells)
       /\ \A c \in 1 .. Len(S.cells) : T.cells[c] = IF c \in G THEN Zero ELSE S.cells[c]
  BY <1>8, <1>9, <1>10
<1>12. G = (UNION S.to_remove) \cup (UNION {ds[d].ext : d \in Small})
             \cup UNION {ds[d].ext \ KeptExt(h, d) : d \in S.to_update \ Small}
  BY DEF G, GivenUp, S, ds, Small
<1>13. /\ \A x \in S.to_remove : x \cap HeaderOf(S) = {}
       /\ \A d \in M : /\ ds[d].ext \cap HeaderOf(S) = {}
                       /\ ds[d].ext \cap UNION S.to_remove = {}
                       /\ \A e \in M : d # e => ds[d].ext \cap ds[e].ext = {}
       /\ S.used = HeaderOf(S) \cup (UNION S.to_remove) \cup UNION {ds[d].ext : d \in M}
  BY <1>4 DEF Claimed, M
<1>14. G \cap HeaderOf(S) = {}
  <2> SUFFICES ASSUME NEW c \in G, c \in HeaderOf(S) PROVE FALSE
    OBVIOUS
  <2>1. CASE c \in UNION S.to_remove
    BY <1>13, <2>1
  <2>2. CASE c \in UNION {ds[d].ext : d \in Small}
    BY <1>5, <1>13, <2>2
  <2>3. CASE c \in UNION {ds[d].ext \ KeptExt(h, d) : d \in S.to_update \ Small}
    BY <1>5, <1>13, <2>3
  <2> QED
    BY <1>12, <2>1, <2>2, <2>3
<1>15. ASSUME NEW d \in M
       PROVE  /\ d \in Dscs /\ es[d].ext = ds[d].ext \ G
              /\ d \notin S.to_update => es[d].ext = ds[d].ext /\ ds[d].ext \cap G = {}
  <2>0. d \in Dscs
    BY DEF M, Members
  <2>1. ASSUME NEW c \in ds[d].ext, c \in G
        PROVE  d \in Small \/ (d \in S.to_update \ Small /\ c \notin KeptExt(h, d))
    <3>1. c \notin UNION S.to_remove
      BY <1>13, <2>1
    <3>2. CASE c \in UNION {ds[e].ext : e \in Small}
      <4>1. PICK e \in Small : c \in ds[e].ext
        BY <3>2
      <4>2. e \in M
        BY <1>5
      <4>3. e = d
        BY <1>13, <2>1, <4>1, <4>2
      <4> QED
        BY <4>3
    <3>3. CASE c \in UNION {ds[e].ext \ KeptExt(h, e) : e \in S.to_update \ Small}
      <4>1. PICK e \in S.to_update \ Small : c \in ds[e].ext /\ c \notin KeptExt(h, e)
        BY <3>3
      <4>2. e \in M
        BY <1>5
      <4>3. e = d
        BY <1>13, <2>1, <4>1, <4>2
      <4> QED
        BY <4>1, <4>3
    <3> QED
      BY <1>12, <2>1, <3>1, <3>2, <3>3
  <2>2. CASE d \in Small
    <3>1. ExtAfter(h, s, d) = {} /\ ds[d].ext \subseteq G /\ d \in S.to_update
      BY <1>5, <1>12, <2>2 DEF ExtAfter, Small
    <3> QED
      BY <1>6, <2>0, <3>1
  <2>3. CASE d \in S.to_update \ Small
    <3>1. ExtAfter(h, s, d) = KeptExt(h, d)
      BY <2>3 DEF ExtAfter, Small, S
    <3>2. KeptExt(h, d) \subseteq ds[d].ext
      BY DEF KeptExt, FirstCells, ds
    <3>3. ds[d].ext \ KeptExt(h, d) \subseteq G
      BY <1>12, <2>3
    <3>4. ds[d].ext \ G = KeptExt(h, d)
      BY <2>1, <2>3, <3>2, <3>3
    <3> QED
      BY <1>6, <2>0, <2>3, <3>1, <3>4
  <2>4. CASE d \notin S.to_update
    <3>1. ExtAfter(h, s, d) = ds[d].ext /\ d \notin Small
      BY <1>5, <2>4 DEF ExtAfter, Small, S, ds
    <3>2. ds[d].ext \cap G = {}
      BY <2>1, <2>4, <3>1
    <3> QED
      BY <1>6, <2>0, <3>1, <3>2
  <2> QED
    BY <2>2, <2>3, <2>4
<1>16. Members(es, s) = M
  BY <1>6 DEF Members, M
<1>17. HeaderOf(T) = HeaderOf(S)
  BY <1>10 DEF HeaderOf
<1>18. Room(T)
  <2>1. HeaderOf(S) \subseteq S.used /\ S.used \subseteq 1 .. S.past /\ S.past <= Len(S.cells)
        /\ Len(S.cells) = Len(S.segm) * CellsPerBlk /\ (S.past = 0 => S.segm = <<>>)
    BY <1>4 DEF Room
  <2> QED
    BY <1>10, <1>11, <1>14, <1>17, <2>1 DEF Room
<1>19. Claimed(es, T, s)
  <2>1. T.used = HeaderOf(T) \cup (UNION T.to_remove) \cup UNION {es[d].ext : d \in M}
    <3>1. ASSUME NEW c \in T.used PROVE c \in HeaderOf(T) \cup UNION {es[d].ext : d \in M}
      <4>1. c \in S.used /\ c \notin G
        BY <1>10, <3>1
      <4>2. c \notin UNION S.to_remove
        BY <1>12, <4>1
      <4>3. CASE c \in HeaderOf(S)
        BY <1>17, <4>3
      <4>4. CASE c \in UNION {ds[d].ext : d \in M}
        <5>1. PICK d \in M : c \in ds[d].ext
          BY <4>4
        <5>2. c \in es[d].ext
          BY <1>15, <4>1, <5>1
        <5> QED
          BY <5>2
      <4> QED
        BY <1>13, <4>1, <4>2, <4>3, <4>4
    <3>2. HeaderOf(T) \subseteq T.used
      BY <1>10, <1>13, <1>14, <1>17
    <3>3. \A d \in M : es[d].ext \subseteq T.used
      BY <1>10, <1>13, <1>15
    <3>4. UNION T.to_remove = {}
      BY <1>10
    <3> QED
      BY <3>1, <3>2, <3>3, <3>4
  <2>2. \A d \in M : /\ es[d].ext \cap HeaderOf(T) = {} /\ es[d].ext \cap UNION T.to_remove = {}
                     /\ \A e \in M : d # e => es[d].ext \cap es[e].ext = {}
    <3>1. \A d \in M : es[d].ext \subseteq ds[d].ext
      BY <1>15
    <3> QED
      BY <1>10, <1>13, <1>17, <3>1
  <2>3. T.to_remove = {}
    BY <1>10
  <2> QED
    BY <1>16, <2>1, <2>2, <2>3 DEF Claimed
<1>20. Cleared(T, Len(S.cells))
  <2> SUFFICES ASSUME NEW c \in 1 .. Len(S.cells), c > HeaderCells, c \notin T.used
               PROVE  Blank(c, T.cells[c])
    BY DEF Cleared
  <2>1. CASE c \in G
    <3>1. T.cells[c] = Zero
      BY <1>11, <2>1
    <3> QED
      BY <3>1 DEF Blank
  <2>2. CASE c \notin G
    <3>1. c \notin S.used /\ T.cells[c] = S.cells[c]
      BY <1>10, <1>11, <2>2
    <3> QED
      BY <1>4, <3>1 DEF Cleared
  <2> QED
    BY <2>1, <2>2
<1>21. ASSUME NEW d \in M
       PROVE  /\ es[d].ext = {} <=> d \in T.to_add
              /\ d \in (T.to_add \cup T.to_update) \ T.to_add => IsPlaced(d, es[d])
              /\ d \notin T.to_add \cup T.to_update => Stays(T, d, es[d], Len(S.cells))
  <2>0. d \in Dscs
    BY <1>15
  <2>1. /\ ds[d].ext = {} <=> d \in S.to_add
        /\ ds[d].ext # {} => \E R \in ds[d].written : HasRecord(S, d, ds[d], R)
        /\ d \notin S.to_add \cup S.to_update => \A R \in ds[d].written : R.pid = ds[d].pid
    BY <1>4, RecordedFacts DEF M
  <2>2. CASE d \in Small
    <3>1. es[d].ext = {}
      BY <1>6, <2>0, <2>2 DEF ExtAfter, Small
    <3> QED
      BY <1>10, <2>2, <3>1
  <2>3. CASE d \in S.to_update \ Small
    <3>1. /\ ds[d].ext # {} /\ KeptExt(h, d) # {} /\ Footprint(d, ds[d]) \in Pos
      BY <2>3, KeptFacts DEF S, ds, Small
    <3>2. es[d].ext = KeptExt(h, d)
      BY <1>6, <2>0, <2>3 DEF ExtAfter, S, Small
    <3>3. d \notin T.to_add
      BY <1>10, <2>1, <2>3, <3>1
    <3>4. PICK R \in ds[d].written, lo \in Pos : ds[d].ext = lo .. lo + Footprint(d, R) - 1
      BY <2>1, <3>1 DEF HasRecord
    <3>5. R \in RecsOf(d)
      <4> QED
        BY <1>1, <2>0, <3>4, RecordsOfOne
    <3>6. Footprint(d, R) \in Pos
      <4>1. R.data \in DataOf(d)
        BY <3>5 DEF RecsOf
      <4> QED
        BY <2>0, <4>1, FootprintFacts
    <3>7. PICK m \in Pos, n \in Pos : m = Footprint(d, R) /\ n = Footprint(d, ds[d])
      BY <3>1, <3>6
    <3>8. Cardinality(ds[d].ext) >= n
      <4>1. ~ (Cardinality(ds[d].ext) < n)
        BY <2>3, <3>7 DEF TooSmall, Small, S, ds
      <4>2. Cardinality(lo .. lo + m - 1) = m
        BY IntervalFacts
      <4>3. Cardinality(ds[d].ext) = m
        BY <3>4, <3>7, <4>2
      <4>4. m \in Nat /\ n \in Nat
        BY DEF Pos
      <4> QED
        BY <4>1, <4>3, <4>4
    <3>9. n <= m
      <4>1. Cardinality(lo .. lo + m - 1) = m
        BY IntervalFacts
      <4> QED
        BY <3>4, <3>7, <3>8, <4>1
    <3>10. FirstCells(lo .. lo + m - 1, n) = lo .. lo + n - 1
      BY <3>7, <3>9, FirstCellsFacts
    <3>11. es[d].ext = lo .. lo + n - 1
      BY <3>2, <3>4, <3>7, <3>10 DEF KeptExt, ds
    <3>12. Footprint(d, es[d]) = n
      BY <1>6, <2>0, <3>7 DEF Footprint
    <3>13. IsPlaced(d, es[d])
      BY <3>4, <3>11, <3>12 DEF IsPlaced
    <3> QED
      BY <1>10, <2>3, <3>1, <3>2, <3>3, <3>13
  <2>4. CASE d \notin S.to_update
    <3>1. es[d] = ds[d] /\ d \notin Small /\ ds[d].ext \cap G = {}
      BY <1>5, <1>6, <1>15, <2>0, <2>4
    <3>2. d \in T.to_add <=> d \in S.to_add
      BY <1>10, <3>1
    <3>3. ASSUME d \notin T.to_add PROVE Stays(T, d, es[d], Len(S.cells))
      <4>1. ds[d].ext # {}
        BY <2>1, <3>2, <3>3
      <4>2. PICK R \in ds[d].written : HasRecord(S, d, ds[d], R)
        BY <2>1, <4>1
      <4>3. R.pid = ds[d].pid
        BY <2>1, <2>4, <3>2, <3>3
      <4>4. ds[d].ext \subseteq 1 .. Len(S.cells)
        <5>1. ds[d].ext \subseteq S.used
          BY <1>13
        <5>2. S.used \subseteq 1 .. S.past /\ S.past <= Len(S.cells)
          BY <1>4 DEF Room
        <5> QED
          BY <1>3, <5>1, <5>2
      <4>5. \A c \in ds[d].ext : T.cells[c] = S.cells[c]
        BY <1>11, <3>1, <4>4
      <4>6. HasRecord(T, d, ds[d], R)
        BY <4>2, <4>5 DEF HasRecord
      <4> QED
        BY <3>1, <4>2, <4>3, <4>4, <4>6 DEF Stays
    <3> QED
      BY <1>10, <2>1, <2>4, <3>1, <3>2, <3>3
  <2> QED
    BY <2>2, <2>3, <2>4
<1>22. T.sum = SetToBag(Records(es, s))
  <2>1. Records(es, s) = Records(ds, s)
    <3>1. \A d \in M : es[d].written = ds[d].written
      BY <1>6, <1>15
    <3> QED
      BY <1>16, <3>1 DEF Records, M
  <2> QED
    BY <1>4, <1>10, <2>1
<1>23. PlaceInv(es, T, s, T.to_add, Len(S.cells))
  <2>1. Len(S.cells) <= Len(T.cells)
    BY <1>3, <1>11
  <2>2. T.past = 0 => Members(es, s) = {}
    BY <1>4, <1>10, <1>16
  <2>3. T.to_remove = {} /\ T.to_add \subseteq T.to_add
    BY <1>10
  <2> QED
    BY <1>16, <1>18, <1>19, <1>20, <1>21, <1>22, <2>1, <2>2, <2>3 DEF PlaceInv
<1>24. \A d \in Dscs : ds[d].owner # s => es[d] = ds[d]
  <2> SUFFICES ASSUME NEW d \in Dscs, ds[d].owner # s PROVE es[d] = ds[d]
    OBVIOUS
  <2>1. d \notin S.to_update
    BY <1>5 DEF M, Members
  <2> QED
    BY <1>6, <2>1
<1> QED
  BY <1>6, <1>7, <1>10, <1>11, <1>23, <1>24 DEF S, T, ds, es, Small

\* The tree while s may have what to destroy and nothing to give back.
TreeMid(w, s) ==
  /\ \A t, u \in Sets : t # u => w.sets[t].to_destroy \cap w.sets[u].to_destroy = {}
  /\ \A d \in Dscs : IsThere(w, d) => IsHeld(w, d)
  /\ \A d \in Dscs : ~ IsThere(w, d) => /\ w.dsc[d] = Absent
                                        /\ d \in Sets => w.sets[d] = EmptySet
  /\ \A t \in Sets : w.sets[t].to_destroy \cap Sets # {} => Rooted(w.dsc, t)
  /\ \A t \in Sets \ {s} : w.sets[t].to_destroy # {} => w.sets[t].to_remove # {}

\* A set that is destroyed is below one that is to be destroyed, by owners
\* only, and the other way around.
LEMMA GoneSets ==
  ASSUME NEW w, Fine(w), NEW s \in Sets, TreeMid(w, s)
  PROVE  Below(w, s) = Gone(w, s) \cap Sets
<1> DEFINE Ow == Owners(w.dsc)
           Ha == Holders(w.dsc, w.sets)
           D == w.sets[s].to_destroy
           G == Gone(w, s)
<1>1. /\ w \in WT /\ w.dsc \in [Dscs -> DscT] /\ w.sets \in [Sets -> SetT] /\ GoodDscs(w.dsc)
      /\ GoodSets(w.dsc, w.sets)
  BY WTFacts DEF Fine
<1>2. Ow \in Ups /\ Ha \in Ups /\ Sets \subseteq Dscs /\ NoSet \notin Dscs
  BY <1>1, OwnersAreUps, HoldersAreUps, SetsAreFinite
<1>3. ASSUME NEW x \in Dscs
      PROVE  /\ Ow[x] = w.dsc[x].owner /\ Ha[x] = Holder(w.dsc, w.sets, x)
             /\ Ow[x] # NoSet => Ha[x] = Ow[x]
             /\ Ow[x] = NoSet /\ Ha[x] # NoSet => x \in w.sets[Ha[x]].to_destroy
             /\ Ha[x] \in Sets \cup {NoSet}
  BY <1>1, OwnersAreUps, HoldersAreUps, HolderFacts
<1> HIDE DEF Ow, Ha
<1>4. ASSUME NEW t \in Sets
      PROVE  /\ t \in Below(w, s) <=> Above(Ow, t) \cap D # {}
             /\ t \in G <=> Above(Ha, t) \cap D # {}
  BY <1>2 DEF Below, Gone, Ow, Ha
<1>5. ASSUME NEW t \in Below(w, s) PROVE t \in G
  <2>0. t \in Sets /\ t \in Dscs
    BY <1>2 DEF Below
  <2>1. t \in Above(Ha, t) /\ \A x \in Above(Ha, t) : Ha[x] # NoSet => Ha[x] \in Above(Ha, t)
    BY <1>2, <2>0, AboveFacts
  <2>2. \A x \in Dscs : x \in Above(Ha, t) /\ Ow[x] # NoSet => Ow[x] \in Above(Ha, t)
    BY <1>3, <2>1
  <2>3. Above(Ow, t) \subseteq Above(Ha, t)
    BY ONLY <1>2, <2>0, <2>1, <2>2, AboveLeast
  <2> QED
    BY <1>4, <2>0, <2>3
<1>6. ASSUME NEW t \in G, t \in Sets PROVE t \in Below(w, s)
  <2>0. t \in Dscs
    BY <1>2, <1>6
  <2> SUFFICES ASSUME Above(Ow, t) \cap D = {} PROVE FALSE
    BY <1>4, <1>6
  <2> DEFINE Q == {x \in Sets : x \in G /\ x \in Above(Ow, t) /\ Ow[x] # NoSet}
  <2>1. ASSUME NEW x \in Sets, x \in G, x \in Above(Ow, t)
        PROVE  Ow[x] # NoSet /\ Ow[x] \in G
    <3>0. x \in Dscs /\ x \notin D
      BY <1>2, <2>1
    <3>1. Holder(w.dsc, w.sets, x) \in G
      BY <1>1, <2>1, <3>0, GoneFacts
    <3>2. Ha[x] \in G /\ Ha[x] \in Dscs
      BY <1>3, <3>0, <3>1 DEF Gone
    <3>3. Ow[x] # NoSet
      <4> SUFFICES ASSUME Ow[x] = NoSet PROVE FALSE
        OBVIOUS
      <4>1. Ha[x] # NoSet
        BY <1>2, <3>2
      <4>2. x \in w.sets[Ha[x]].to_destroy /\ Ha[x] \in Sets
        BY <1>3, <3>0, <4>1
      <4>3. Rooted(w.dsc, Ha[x])
        BY <2>1, <4>2 DEF TreeMid
      <4> QED
        BY <3>2, <4>3, RootedIsNotGone
    <3> QED
      BY <1>3, <3>0, <3>2, <3>3
  <2>2. t \in Above(Ow, t) /\ \A x \in Above(Ow, t) : Ow[x] # NoSet => Ow[x] \in Above(Ow, t)
    BY <1>2, <2>0, AboveFacts
  <2>3. t \in Q
    BY <1>6, <2>1, <2>2
  <2>4. ASSUME NEW x \in Q PROVE Ow[x] # NoSet /\ Ow[x] \in Q
    <3>1. x \in Sets /\ x \in G /\ x \in Above(Ow, t) /\ Ow[x] # NoSet
      OBVIOUS
    <3>2. Ow[x] \in G /\ Ow[x] \in Above(Ow, t)
      BY <2>1, <2>2, <3>1
    <3>3. Ow[x] \in Sets
      <4>1. x \in Dscs
        BY <1>2, <3>1
      <4>2. Ow[x] \in Sets \cup {NoSet}
        BY <1>3, <3>1, <4>1
      <4> QED
        BY <3>1, <4>2
    <3>4. Ow[Ow[x]] # NoSet
      BY <2>1, <3>2, <3>3
    <3> QED
      BY <3>1, <3>2, <3>3, <3>4
  <2>5. \A x \in Q : Ha[x] = Ow[x] /\ (Ow[x] # NoSet => Ow[x] \in Q)
    BY <1>2, <1>3, <2>4
  <2>6. Q \in SUBSET Dscs
    BY <1>2
  <2> HIDE DEF Q
  <2>7. Above(Ha, t) = Above(Ow, t)
    BY ONLY <1>2, <2>3, <2>5, <2>6, AboveKept
  <2> QED
    BY <1>4, <1>6, <2>7
<1> QED
  BY <1>5, <1>6 DEF Below

\* Who is gone has nobody left who holds it, and who is not is held as before.
LEMMA HoldersAfter ==
  ASSUME NEW w, Fine(w), NEW s \in Sets, Rooted(w.dsc, s), TreeMid(w, s),
         NEW v, Fine(v), DestroyedWith(w, v, s), NEW d \in Dscs
  PROVE  /\ d \in Gone(w, s) => Holder(v.dsc, v.sets, d) = NoSet /\ d # Root
         /\ d \notin Gone(w, s) => Holder(v.dsc, v.sets, d) = Holder(w.dsc, w.sets, d)
<1> DEFINE G == Gone(w, s)
<1>1. /\ w \in WT /\ w.dsc \in [Dscs -> DscT] /\ w.sets \in [Sets -> SetT] /\ GoodDscs(w.dsc)
      /\ GoodSets(w.dsc, w.sets) /\ v.dsc \in [Dscs -> DscT] /\ v.sets \in [Sets -> SetT]
  BY WTFacts DEF Fine
<1>2. \A x \in Dscs : v.dsc[x] = IF x \in G THEN Absent ELSE w.dsc[x]
  BY DEF DestroyedWith
<1>3. ASSUME NEW t \in Sets
      PROVE  v.sets[t].to_destroy = IF t \in G \/ t = s THEN {} ELSE w.sets[t].to_destroy
  <2>1. CASE t \in G
    <3>1. v.sets[t] = EmptySet
      BY <2>1 DEF DestroyedWith
    <3> QED
      BY <2>1, <3>1 DEF EmptySet
  <2>2. CASE t \notin G /\ t = s
    <3>1. v.sets[t] = [w.sets[t] EXCEPT !.to_destroy = {}]
      BY <2>2 DEF DestroyedWith
    <3>2. w.sets[t] \in SetT
      BY <1>1
    <3> QED
      BY ONLY <2>2, <3>1, <3>2 DEF SetT
  <2>3. CASE t \notin G /\ t # s
    BY <2>3 DEF DestroyedWith
  <2> QED
    BY <2>1, <2>2, <2>3
<1>4. /\ d \in w.sets[s].to_destroy => d \in G
      /\ Holder(w.dsc, w.sets, d) \in G => d \in G
      /\ d \in G => d \in w.sets[s].to_destroy \/ Holder(w.dsc, w.sets, d) \in G
  BY <1>1, GoneFacts
<1>5. \A t, u \in Sets : t # u => w.sets[t].to_destroy \cap w.sets[u].to_destroy = {}
  BY DEF TreeMid
<1>6. ASSUME NEW t \in Sets, d \in w.sets[t].to_destroy
      PROVE  Holder(w.dsc, w.sets, d) = t /\ w.dsc[d].owner = NoSet
  <2>1. w.dsc[d].owner = NoSet
    BY <1>1, <1>6 DEF GoodSets, IsErased
  <2>2. Holder(w.dsc, w.sets, d) \in Sets /\ d \in w.sets[Holder(w.dsc, w.sets, d)].to_destroy
    BY <1>1, <1>6, <2>1, HolderFacts
  <2> QED
    BY <1>5, <1>6, <2>1, <2>2
<1>7. ASSUME d \in G PROVE Holder(v.dsc, v.sets, d) = NoSet /\ d # Root
  <2>1. v.dsc[d].owner = NoSet
    BY <1>2, <1>7 DEF Absent
  <2>2. ASSUME NEW t \in Sets, d \in v.sets[t].to_destroy PROVE FALSE
    <3>1. t \notin G /\ t # s /\ d \in w.sets[t].to_destroy
      BY <1>3, <2>2
    <3>2. Holder(w.dsc, w.sets, d) = t
      BY <1>6, <3>1
    <3>3. d \in w.sets[s].to_destroy
      BY <1>4, <1>7, <3>1, <3>2
    <3> QED
      BY <1>5, <3>1, <3>3
  <2>3. Rooted(w.dsc, Root) /\ Root \in Dscs
    BY <1>1, RootedFacts, SetsAreFinite
  <2>4. Root \notin G
    BY <2>3, RootedIsNotGone
  <2> QED
    BY <1>1, <1>7, <2>1, <2>2, <2>4, HolderFacts
<1>8. ASSUME d \notin G PROVE Holder(v.dsc, v.sets, d) = Holder(w.dsc, w.sets, d)
  <2>1. v.dsc[d] = w.dsc[d]
    BY <1>2, <1>8
  <2>2. CASE w.dsc[d].owner # NoSet
    BY <1>1, <2>1, <2>2, HolderFacts
  <2>3. CASE w.dsc[d].owner = NoSet
    <3>1. ASSUME NEW t \in Sets PROVE d \in v.sets[t].to_destroy <=> d \in w.sets[t].to_destroy
      <4>1. CASE d \in w.sets[t].to_destroy
        <5>1. t \notin G /\ t # s
          BY <1>4, <1>6, <1>8, <4>1
        <5> QED
          BY <1>3, <4>1, <5>1
      <4>2. CASE d \notin w.sets[t].to_destroy
        BY <1>3, <4>2
      <4> QED
        BY <4>1, <4>2
    <3> DEFINE H1 == {t \in Sets : d \in w.sets[t].to_destroy}
               H2 == {t \in Sets : d \in v.sets[t].to_destroy}
    <3>2. H1 = H2
      BY <3>1
    <3>3. /\ Holder(w.dsc, w.sets, d) = IF H1 = {} THEN NoSet ELSE CHOOSE t \in H1 : TRUE
          /\ Holder(v.dsc, v.sets, d) = IF H2 = {} THEN NoSet ELSE CHOOSE t \in H2 : TRUE
      BY <2>1, <2>3 DEF Holder
    <3> HIDE DEF H1, H2
    <3> QED
      BY <3>2, <3>3
  <2> QED
    BY <2>2, <2>3
<1> QED
  BY <1>7, <1>8

\* Whoever is above one who stays, stays.
LEMMA AboveStays ==
  ASSUME NEW w, Fine(w), NEW s \in Sets, NEW d \in Dscs \ Gone(w, s),
         NEW x \in Above(Holders(w.dsc, w.sets), d)
  PROVE  x \in Dscs \ Gone(w, s)
<1>1. w.dsc \in [Dscs -> DscT]
  BY WTFacts DEF Fine
<1>2. Holders(w.dsc, w.sets) \in Ups
  BY <1>1, HoldersAreUps
<1>3. x \in Dscs /\ Above(Holders(w.dsc, w.sets), x) \subseteq Above(Holders(w.dsc, w.sets), d)
  BY <1>2, AboveThrough
<1> QED
  BY <1>3 DEF Gone

LEMMA DestroyedTree ==
  ASSUME NEW w, Fine(w), NEW s \in Sets, Rooted(w.dsc, s), TreeMid(w, s),
         NEW v, Fine(v), DestroyedWith(w, v, s), v = Destroyed(w, s)
  PROVE  /\ TreeInv(v)
         /\ \A d \in Dscs : IsThere(v, d) <=> IsThere(w, d) /\ d \notin Gone(w, s)
<1> DEFINE G == Gone(w, s)
           Ha == Holders(w.dsc, w.sets)
           Hv == Holders(v.dsc, v.sets)
<1>1. /\ w \in WT /\ w.dsc \in [Dscs -> DscT] /\ w.sets \in [Sets -> SetT] /\ GoodDscs(w.dsc)
      /\ v.dsc \in [Dscs -> DscT] /\ v.sets \in [Sets -> SetT]
  BY WTFacts DEF Fine
<1>2. Ha \in Ups /\ Hv \in Ups /\ Sets \subseteq Dscs /\ NoSet \notin Dscs
  BY <1>1, HoldersAreUps, SetsAreFinite
<1>3. ASSUME NEW d \in Dscs
      PROVE  /\ d \in G => Holder(v.dsc, v.sets, d) = NoSet /\ d # Root
             /\ d \notin G => Holder(v.dsc, v.sets, d) = Holder(w.dsc, w.sets, d)
  BY HoldersAfter
<1>4. ASSUME NEW d \in Dscs PROVE IsThere(v, d) <=> IsThere(w, d) /\ d \notin G
  BY <1>3 DEF IsThere
<1>5. \A x \in Dscs : v.dsc[x] = IF x \in G THEN Absent ELSE w.dsc[x]
  BY DEF DestroyedWith
<1>6. ASSUME NEW t \in Sets
      PROVE  /\ t \in G => v.sets[t] = EmptySet
             /\ t \notin G /\ t # s => v.sets[t] = w.sets[t]
             /\ t \in G \/ t = s => v.sets[t].to_destroy = {}
  <2>1. /\ t \in G => v.sets[t] = EmptySet
        /\ t \notin G /\ t # s => v.sets[t] = w.sets[t]
        /\ t \notin G /\ t = s => v.sets[t] = [w.sets[t] EXCEPT !.to_destroy = {}]
    BY DEF DestroyedWith
  <2>2. w.sets[t] \in SetT
    BY <1>1
  <2>3. [w.sets[t] EXCEPT !.to_destroy = {}].to_destroy = {} /\ EmptySet.to_destroy = {}
    BY ONLY <2>2 DEF SetT, EmptySet
  <2> QED
    BY <2>1, <2>3
<1>7. \A t, u \in Sets : t # u => v.sets[t].to_destroy \cap v.sets[u].to_destroy = {}
  <2>1. \A t \in Sets : v.sets[t].to_destroy \subseteq w.sets[t].to_destroy
    BY <1>6
  <2>2. \A t, u \in Sets : t # u => w.sets[t].to_destroy \cap w.sets[u].to_destroy = {}
    BY DEF TreeMid
  <2> QED
    BY <2>1, <2>2
<1>8. ASSUME NEW d \in Dscs, IsThere(v, d) PROVE IsHeld(v, d)
  <2>1. IsThere(w, d) /\ d \notin G
    BY <1>4, <1>8
  <2>2. Root \in Above(Ha, d)
    BY <2>1 DEF TreeMid, IsHeld
  <2>3. \A x \in Above(Ha, d) : x \in Dscs /\ x \notin G
    BY <2>1, AboveStays
  <2>4. \A x \in Above(Ha, d) : Hv[x] = Ha[x]
    <3> SUFFICES ASSUME NEW x \in Above(Ha, d) PROVE Hv[x] = Ha[x]
      OBVIOUS
    <3>1. x \in Dscs /\ x \notin G
      BY <2>3
    <3> QED
      BY <1>1, <1>3, <3>1, HoldersAreUps
  <2>5. d \in Above(Ha, d) /\ \A x \in Above(Ha, d) : Ha[x] # NoSet => Ha[x] \in Above(Ha, d)
    BY <1>2, AboveFacts
  <2> DEFINE Q == Above(Ha, d)
  <2>6. Q \in SUBSET Dscs /\ d \in Q /\ \A x \in Q : Hv[x] = Ha[x] /\ (Ha[x] # NoSet => Ha[x] \in Q)
    BY <2>3, <2>4, <2>5
  <2>7. Above(Hv, d) = Above(Ha, d)
    <3> HIDE DEF Q, Ha, Hv
    <3> QED
      BY ONLY <1>2, <2>6, AboveKept
  <2> QED
    BY <2>2, <2>7 DEF IsHeld
<1>9. ASSUME NEW d \in Dscs, ~ IsThere(v, d)
      PROVE  v.dsc[d] = Absent /\ (d \in Sets => v.sets[d] = EmptySet)
  <2>1. CASE d \in G
    BY <1>5, <1>6, <2>1
  <2>2. CASE d \notin G
    <3>1. ~ IsThere(w, d)
      BY <1>4, <1>9, <2>2
    <3>2. w.dsc[d] = Absent /\ (d \in Sets => w.sets[d] = EmptySet)
      BY <3>1 DEF TreeMid
    <3>3. d # s
      BY <1>2, <3>1, RootedHolders
    <3> QED
      BY <1>5, <1>6, <2>2, <3>2, <3>3
  <2> QED
    BY <2>1, <2>2
<1>10. ASSUME NEW t \in Sets
       PROVE  /\ v.sets[t].to_destroy \cap Sets # {} => Rooted(v.dsc, t)
              /\ v.sets[t].to_destroy # {} => v.sets[t].to_remove # {}
  <2>1. CASE t \in G \/ t = s
    BY <1>6, <2>1
  <2>2. CASE t \notin G /\ t # s
    <3>1. v.sets[t] = w.sets[t]
      BY <1>6, <2>2
    <3>2. Rooted(w.dsc, t) => Rooted(v.dsc, t)
      BY <1>2, RootedIsNotGone
    <3> QED
      BY <2>2, <3>1, <3>2 DEF TreeMid
  <2> QED
    BY <2>1, <2>2
<1>11. TreeInv(v)
  BY <1>7, <1>8, <1>9, <1>10 DEF TreeInv
<1> QED
  BY <1>4, <1>11

\* The blocks that are given back are the ones of who is gone.
LEMMA FreedBlocks ==
  ASSUME NEW w, Fine(w), NEW s \in Sets, TreeMid(w, s), BlockInv(w)
  PROVE  Freed(w, s) = UNION {BlksAt(w, d) : d \in Gone(w, s)}
<1> DEFINE G == Gone(w, s)
           P == {d \in Plain : \/ d \in w.sets[s].to_destroy
                               \/ Holder(w.dsc, w.sets, d) \in Below(w, s)}
<1>0. /\ w \in WT /\ w.dsc \in [Dscs -> DscT] /\ w.sets \in [Sets -> SetT]
  BY WTFacts DEF Fine
<1>1. Below(w, s) = G \cap Sets
  BY GoneSets
<1>2. P = G \cap Plain
  <2>1. ASSUME NEW d \in Plain PROVE d \in P <=> d \in G
    <3>0. d \in Dscs
      BY SetsAreFinite
    <3>1. /\ d \in w.sets[s].to_destroy => d \in G
          /\ Holder(w.dsc, w.sets, d) \in G => d \in G
          /\ d \in G => d \in w.sets[s].to_destroy \/ Holder(w.dsc, w.sets, d) \in G
      BY <1>0, <3>0, GoneFacts
    <3>2. Holder(w.dsc, w.sets, d) \in Sets \cup {NoSet}
      BY <1>0, <3>0, HolderFacts
    <3>3. NoSet \notin G
      BY SetsAreFinite DEF Gone
    <3> QED
      BY <1>1, <3>1, <3>2, <3>3
  <2> QED
    BY <2>1
<1>3. Freed(w, s) = BlksOf(w.sets, G \cap Sets) \cup UNION {w.dsc[d].content : d \in G \cap Plain}
  BY <1>1, <1>2 DEF Freed
<1>4. G \subseteq Sets \cup Plain /\ Plain \cap Sets = {}
  BY SetsAreFinite DEF Gone, Dscs
<1>5. \A t \in Sets : w.dsc[t].content = {}
  BY DEF BlockInv
<1>6. \A t \in Sets : BlksAt(w, t) = ToSet(w.sets[t].segm)
  BY <1>5 DEF BlksAt
<1>7. \A d \in Plain : BlksAt(w, d) = w.dsc[d].content
  BY <1>4 DEF BlksAt
<1>8. BlksOf(w.sets, G \cap Sets) = UNION {BlksAt(w, t) : t \in G \cap Sets}
  BY <1>6 DEF BlksOf
<1>9. UNION {w.dsc[d].content : d \in G \cap Plain} = UNION {BlksAt(w, d) : d \in G \cap Plain}
  BY <1>7
<1>10. Freed(w, s) = UNION {BlksAt(w, d) : d \in G}
  <2>1. Freed(w, s) = (UNION {BlksAt(w, t) : t \in G \cap Sets})
                        \cup UNION {BlksAt(w, d) : d \in G \cap Plain}
    BY <1>3, <1>8, <1>9
  <2>2. G = (G \cap Sets) \cup (G \cap Plain)
    BY <1>4
  <2> HIDE DEF G
  <2> QED
    BY <2>1, <2>2
<1> QED
  BY <1>10

LEMMA DestroyedBlocks ==
  ASSUME NEW w, Fine(w), NEW s \in Sets, Rooted(w.dsc, s), TreeMid(w, s), BlockInv(w),
         NEW v, Fine(v), DestroyedWith(w, v, s),
         \A d \in Dscs : IsThere(v, d) => IsThere(w, d) /\ d \notin Gone(w, s)
  PROVE  BlockInv(v)
<1> DEFINE G == Gone(w, s)
<1>0. /\ w \in WT /\ w.dsc \in [Dscs -> DscT] /\ w.sets \in [Sets -> SetT]
  BY WTFacts DEF Fine
<1>1. \A d \in Dscs : v.dsc[d] = IF d \in G THEN Absent ELSE w.dsc[d]
  BY DEF DestroyedWith
<1>2. ASSUME NEW t \in Sets
      PROVE  v.sets[t].segm = IF t \in G THEN <<>> ELSE w.sets[t].segm
  <2>1. /\ t \in G => v.sets[t] = EmptySet
        /\ t \notin G /\ t # s => v.sets[t] = w.sets[t]
        /\ t \notin G /\ t = s => v.sets[t] = [w.sets[t] EXCEPT !.to_destroy = {}]
    BY DEF DestroyedWith
  <2>2. w.sets[t] \in SetT
    BY <1>0
  <2>3. [w.sets[t] EXCEPT !.to_destroy = {}].segm = w.sets[t].segm /\ EmptySet.segm = <<>>
    BY ONLY <2>2 DEF SetT, EmptySet
  <2> QED
    BY <2>1, <2>3
<1>3. ASSUME NEW d \in Dscs PROVE BlksAt(v, d) = IF d \in G THEN {} ELSE BlksAt(w, d)
  <2>1. CASE d \in G
    <3>1. v.dsc[d].content = {}
      BY <1>1, <2>1 DEF Absent
    <3>2. d \in Sets => ToSet(v.sets[d].segm) = {}
      <4>1. <<>> \in Seq({})
        OBVIOUS
      <4>2. ToSet(<<>>) = {}
        BY <4>1, ToSetFacts
      <4> QED
        BY <1>2, <2>1, <4>2
    <3> QED
      BY <2>1, <3>1, <3>2 DEF BlksAt
  <2>2. CASE d \notin G
    BY <1>1, <1>2, <2>2 DEF BlksAt
  <2> QED
    BY <2>1, <2>2
<1>4. \A d, e \in Dscs : d # e => BlksAt(w, d) \cap BlksAt(w, e) = {}
  BY DEF BlockInv
<1>5. \A d, e \in Dscs : d # e => BlksAt(v, d) \cap BlksAt(v, e) = {}
  BY <1>3, <1>4
<1>6. ASSUME NEW t \in Sets PROVE IsInjective(v.sets[t].segm) /\ v.dsc[t].content = {}
  <2>1. IsInjective(w.sets[t].segm) /\ w.dsc[t].content = {} /\ t \in Dscs
    BY SetsAreFinite DEF BlockInv
  <2>2. CASE t \in G
    <3>1. v.dsc[t].content = {}
      BY <1>1, <2>1, <2>2 DEF Absent
    <3>2. IsInjective(v.sets[t].segm)
      BY <1>2, <2>2 DEF IsInjective
    <3> QED
      BY <3>1, <3>2
  <2>3. CASE t \notin G
    BY <1>1, <1>2, <2>1, <2>3
  <2> QED
    BY <2>2, <2>3
<1>7. ASSUME NEW d \in WithContent, IsThere(v, d) PROVE v.dsc[d].content # {}
  <2>1. d \in Dscs
    BY SetsAssumption DEF Dscs
  <2>2. IsThere(w, d) /\ d \notin G
    BY <1>7, <2>1
  <2>3. w.dsc[d].content # {}
    BY <2>2 DEF BlockInv
  <2> QED
    BY <1>1, <2>1, <2>2, <2>3
<1>8. v.in_use = UNION {BlksAt(v, d) : d \in Dscs}
  <2>1. v.in_use = w.in_use \ Freed(w, s) /\ w.in_use = UNION {BlksAt(w, d) : d \in Dscs}
    BY DEF DestroyedWith, BlockInv
  <2>2. Freed(w, s) = UNION {BlksAt(w, d) : d \in G}
    BY FreedBlocks
  <2>3. G \subseteq Dscs
    BY DEF Gone
  <2> HIDE DEF G
  <2>4. ASSUME NEW c PROVE c \in v.in_use <=> c \in UNION {BlksAt(v, d) : d \in Dscs}
    <3>1. ASSUME c \in v.in_use PROVE c \in UNION {BlksAt(v, d) : d \in Dscs}
      <4>1. PICK d \in Dscs : c \in BlksAt(w, d)
        BY <2>1, <3>1
      <4>2. d \notin G
        BY <2>1, <2>2, <3>1, <4>1
      <4> QED
        BY <1>3, <4>1, <4>2
    <3>2. ASSUME c \in UNION {BlksAt(v, d) : d \in Dscs} PROVE c \in v.in_use
      <4>1. PICK d \in Dscs : c \in BlksAt(v, d)
        BY <3>2
      <4>2. d \notin G /\ c \in BlksAt(w, d)
        BY <1>3, <4>1
      <4>3. \A e \in G : c \notin BlksAt(w, e)
        BY <1>4, <2>3, <4>2
      <4> QED
        BY <2>1, <2>2, <4>2, <4>3
    <3> QED
      BY <3>1, <3>2
  <2> QED
    BY <2>4
<1> QED
  BY <1>5, <1>6, <1>7, <1>8 DEF BlockInv

LEMMA DestroyedOthers ==
  ASSUME NEW w, Fine(w), NEW s \in Sets, Rooted(w.dsc, s), OthersInv(w, s),
         NEW v, Fine(v), DestroyedWith(w, v, s)
  PROVE  /\ OthersInv(v, s)
         /\ Members(v.dsc, s) = Members(w.dsc, s)
         /\ \A d \in Members(w.dsc, s) : v.dsc[d] = w.dsc[d]
         /\ v.sets[s] = [w.sets[s] EXCEPT !.to_destroy = {}]
<1> DEFINE G == Gone(w, s)
<1>0. /\ w \in WT /\ w.dsc \in [Dscs -> DscT] /\ w.sets \in [Sets -> SetT]
      /\ GoodDscs(w.dsc) /\ GoodSets(w.dsc, w.sets) /\ s \in Dscs /\ NoSet \notin Sets
  BY WTFacts, SetsAreFinite DEF Fine
<1>1. \A d \in Dscs : v.dsc[d] = IF d \in G THEN Absent ELSE w.dsc[d]
  BY DEF DestroyedWith
<1>2. s \notin G
  BY <1>0, RootedIsNotGone
<1>3. ASSUME NEW t \in Sets, t \notin G
      PROVE  /\ \A d \in Members(w.dsc, t) : d \notin G /\ v.dsc[d] = w.dsc[d]
             /\ Members(v.dsc, t) = Members(w.dsc, t)
  <2>1. ASSUME NEW d \in Members(w.dsc, t) PROVE d \notin G /\ v.dsc[d] = w.dsc[d]
    <3>1. d \in Dscs /\ w.dsc[d].owner = t
      BY DEF Members
    <3>2. d \notin w.sets[s].to_destroy
      BY <1>0, <3>1 DEF GoodSets, IsErased
    <3>3. Holder(w.dsc, w.sets, d) = t
      BY <1>0, <3>1, HolderFacts
    <3>4. d \notin G
      BY <1>0, <1>3, <3>1, <3>2, <3>3, GoneFacts
    <3> QED
      BY <1>1, <3>1, <3>4
  <2>2. ASSUME NEW d \in Members(v.dsc, t) PROVE d \in Members(w.dsc, t)
    <3>1. d \in Dscs /\ v.dsc[d].owner = t
      BY DEF Members
    <3>2. d \notin G
      BY <1>0, <1>1, <3>1 DEF Absent
    <3> QED
      BY <1>1, <3>1, <3>2 DEF Members
  <2>3. Members(w.dsc, t) \subseteq Members(v.dsc, t)
    <3> SUFFICES ASSUME NEW d \in Members(w.dsc, t) PROVE d \in Members(v.dsc, t)
      OBVIOUS
    <3>1. v.dsc[d] = w.dsc[d]
      BY <2>1
    <3> QED
      BY <3>1 DEF Members
  <2> QED
    BY <2>1, <2>2, <2>3
<1>4. ASSUME NEW t \in Sets \ {s} PROVE CellInv(v.dsc, v.sets[t], t)
  <2>1. CellInv(w.dsc, w.sets[t], t)
    BY DEF OthersInv
  <2>2. CASE t \in G
    <3>1. v.sets[t] = EmptySet
      BY <2>2 DEF DestroyedWith
    <3>2. Members(v.dsc, t) = {}
      <4> SUFFICES ASSUME NEW d \in Dscs, v.dsc[d].owner = t PROVE FALSE
        BY DEF Members
      <4>1. d \notin G
        BY <1>0, <1>1 DEF Absent
      <4>2. w.dsc[d].owner = t
        BY <1>1, <4>1
      <4>3. Holder(w.dsc, w.sets, d) = t
        BY <1>0, <4>2, HolderFacts
      <4> QED
        BY <1>0, <2>2, <4>1, <4>3, GoneFacts
    <3> QED
      BY <3>1, <3>2, EmptyCellInv
  <2>3. CASE t \notin G
    <3>1. v.sets[t] = w.sets[t]
      BY <2>3 DEF DestroyedWith
    <3>2. /\ Members(v.dsc, t) = Members(w.dsc, t)
          /\ \A d \in Members(w.dsc, t) : v.dsc[d] = w.dsc[d]
      BY <1>3, <2>3
    <3> DEFINE S == w.sets[t]
               ds == w.dsc
               es == v.dsc
    <3>3. /\ CellInv(ds, S, t) /\ Members(es, t) = Members(ds, t)
          /\ \A d \in Members(ds, t) :
               /\ es[d].ext = ds[d].ext /\ es[d].written = ds[d].written
               /\ es[d].pid = ds[d].pid \/ d \in S.to_add \cup S.to_update
      BY <2>1, <3>2
    <3>4. /\ SameStream(S, S) /\ S.to_add = S.to_add /\ S.to_update \subseteq S.to_update
          /\ S.to_remove = S.to_remove /\ S.sum = S.sum
      BY DEF SameStream
    <3>5. CellInv(es, S, t)
      <4> HIDE DEF S, ds, es
      <4> QED
        BY ONLY <3>3, <3>4, CellsKept
    <3> QED
      BY <3>1, <3>5
  <2> QED
    BY <2>2, <2>3
<1>5. v.sets[s] = [w.sets[s] EXCEPT !.to_destroy = {}]
  BY <1>2 DEF DestroyedWith
<1> QED
  BY <1>2, <1>3, <1>4, <1>5 DEF OthersInv

\* What the sync of s does not touch before it writes: who is in the tree,
\* what its descriptors are, and the ones of the other sets.
SameDsc(r, q) ==
  /\ q.owner = r.owner /\ q.data = r.data /\ q.pid = r.pid
  /\ q.written = r.written /\ q.notified = r.notified

Elsewhere(w, v, s) ==
  \A d \in Plain : v.dsc[d].owner \notin {NoSet, s} =>
    /\ v.dsc[d] = w.dsc[d]
    /\ LET o == v.dsc[d].owner
       IN w.sets[o].to_add \cup w.sets[o].to_update \subseteq v.sets[o].to_add \cup v.sets[o].to_update

SameSoFar(w, v, s) ==
  /\ \A d \in Dscs : Rooted(w.dsc, d) => Rooted(v.dsc, d)
  /\ Members(v.dsc, s) = Members(w.dsc, s)
  /\ \A d \in Members(w.dsc, s) : SameDsc(w.dsc[d], v.dsc[d])
  /\ Elsewhere(w, v, s)

LEMMA SameSoFarThrough ==
  ASSUME NEW u, NEW v, NEW w, NEW s, SameSoFar(u, v, s), SameSoFar(v, w, s)
  PROVE  SameSoFar(u, w, s)
<1>1. \A d \in Dscs : Rooted(u.dsc, d) => Rooted(w.dsc, d)
  BY DEF SameSoFar
<1>2. Members(w.dsc, s) = Members(u.dsc, s)
  BY DEF SameSoFar
<1>3. \A d \in Members(u.dsc, s) : SameDsc(u.dsc[d], w.dsc[d])
  BY DEF SameSoFar, SameDsc
<1>4. Elsewhere(u, w, s)
  <2> SUFFICES ASSUME NEW d \in Plain, w.dsc[d].owner \notin {NoSet, s}
               PROVE  /\ w.dsc[d] = u.dsc[d]
                      /\ LET o == w.dsc[d].owner
                         IN u.sets[o].to_add \cup u.sets[o].to_update
                              \subseteq w.sets[o].to_add \cup w.sets[o].to_update
    BY DEF Elsewhere
  <2> DEFINE o == w.dsc[d].owner
  <2>1. w.dsc[d] = v.dsc[d] /\ v.sets[o].to_add \cup v.sets[o].to_update
                                 \subseteq w.sets[o].to_add \cup w.sets[o].to_update
    BY DEF SameSoFar, Elsewhere
  <2>2. v.dsc[d] = u.dsc[d] /\ u.sets[o].to_add \cup u.sets[o].to_update
                                 \subseteq v.sets[o].to_add \cup v.sets[o].to_update
    BY <2>1 DEF SameSoFar, Elsewhere
  <2> QED
    BY <2>1, <2>2
<1> QED
  BY <1>1, <1>2, <1>3, <1>4 DEF SameSoFar

\* Nothing but what is in the segments and what the descriptors have.
LEMMA SameMembers ==
  ASSUME NEW w, NEW v, NEW s \in Sets, SameTree(w, v),
         \A d \in Dscs : SameDsc(w.dsc[d], v.dsc[d]),
         \A d \in Plain : w.dsc[d].owner # s => v.dsc[d] = w.dsc[d],
         \A t \in Sets \ {s} : v.sets[t] = w.sets[t],
         w.dsc \in [Dscs -> DscT]
  PROVE  SameSoFar(w, v, s)
<1>1. /\ \A d \in Dscs : Rooted(v.dsc, d) <=> Rooted(w.dsc, d)
      /\ Members(v.dsc, s) = Members(w.dsc, s)
  BY SameTreeFacts
<1>2. \A d \in Members(w.dsc, s) : SameDsc(w.dsc[d], v.dsc[d])
  BY DEF Members
<1>3. Elsewhere(w, v, s)
  <2> SUFFICES ASSUME NEW d \in Plain, v.dsc[d].owner \notin {NoSet, s}
               PROVE  /\ v.dsc[d] = w.dsc[d]
                      /\ LET o == v.dsc[d].owner
                         IN w.sets[o].to_add \cup w.sets[o].to_update
                              \subseteq v.sets[o].to_add \cup v.sets[o].to_update
    BY DEF Elsewhere
  <2>1. d \in Dscs
    BY SetsAreFinite
  <2>2. v.dsc[d] = w.dsc[d]
    BY <2>1 DEF SameDsc
  <2>3. w.dsc[d].owner \in Sets \ {s}
    BY <2>1, <2>2, DscTFacts
  <2> QED
    BY <2>2, <2>3
<1> QED
  BY <1>1, <1>2, <1>3 DEF SameSoFar

LEMMA DeallocatedStage ==
  ASSUME NEW h, NEW s \in Sets, Mid(h, s), Rooted(h.dsc, s),
         CellMid(h.dsc, h.sets[s], s), NEW a, Fine(a), DeallocatedWith(h, a, s)
  PROVE  TreeMid(a, s) /\ BlockInv(a) /\ OthersInv(a, s) /\ Rooted(a.dsc, s) /\ SameSoFar(h, a, s)
<1>0. /\ Fine(h) /\ TreeInv(h) /\ BlockInv(h) /\ OthersInv(h, s)
  BY DEF Mid
<1>1. /\ h.dsc \in [Dscs -> DscT] /\ h.sets \in [Sets -> SetT] /\ a.dsc \in [Dscs -> DscT]
      /\ s \in Dscs /\ Sets \subseteq Dscs /\ NoSet \notin Sets
  BY <1>0, WTFacts, SetsAreFinite DEF Fine
<1>2. /\ a.sets[s].to_destroy = h.sets[s].to_destroy
      /\ a.sets[s].segm = h.sets[s].segm
      /\ \A t \in Sets \ {s} : a.sets[t] = h.sets[t]
      /\ \A d \in Dscs : /\ a.dsc[d].owner = h.dsc[d].owner /\ a.dsc[d].data = h.dsc[d].data
                         /\ a.dsc[d].pid = h.dsc[d].pid /\ a.dsc[d].written = h.dsc[d].written
                         /\ a.dsc[d].content = h.dsc[d].content
                         /\ a.dsc[d].notified = h.dsc[d].notified
                         /\ h.dsc[d].owner # s => a.dsc[d] = h.dsc[d]
      /\ a.in_use = h.in_use
  BY <1>0, DeallocatedCells
<1>3. SameTree(h, a)
  BY <1>2 DEF SameTree
<1>4. /\ Holders(a.dsc, a.sets) = Holders(h.dsc, h.sets)
      /\ \A d \in Dscs : IsThere(a, d) <=> IsThere(h, d)
      /\ \A d \in Dscs : Rooted(a.dsc, d) <=> Rooted(h.dsc, d)
  BY <1>3, SameTreeFacts
<1>5. \A t \in Sets : a.sets[t].to_destroy = h.sets[t].to_destroy
  BY <1>3 DEF SameTree
<1>6. TreeMid(a, s)
  <2>1. \A t, u \in Sets : t # u => a.sets[t].to_destroy \cap a.sets[u].to_destroy = {}
    BY <1>0, <1>5 DEF TreeInv
  <2>2. \A d \in Dscs : IsThere(a, d) => IsHeld(a, d)
    BY <1>0, <1>4 DEF TreeInv, IsHeld
  <2>3. ASSUME NEW d \in Dscs, ~ IsThere(a, d)
        PROVE  a.dsc[d] = Absent /\ (d \in Sets => a.sets[d] = EmptySet)
    <3>1. h.dsc[d] = Absent /\ (d \in Sets => h.sets[d] = EmptySet)
      BY <1>0, <1>4, <2>3 DEF TreeInv
    <3>2. d # s
      BY <1>0, <1>1, <1>4, <2>3, RootedHolders
    <3>3. h.dsc[d].owner # s
      BY <1>1, <3>1 DEF Absent
    <3> QED
      BY <1>2, <3>1, <3>2, <3>3
  <2>4. \A t \in Sets : a.sets[t].to_destroy \cap Sets # {} => Rooted(a.dsc, t)
    BY <1>0, <1>1, <1>4, <1>5 DEF TreeInv
  <2>5. \A t \in Sets \ {s} : a.sets[t].to_destroy # {} => a.sets[t].to_remove # {}
    BY <1>0, <1>2 DEF TreeInv
  <2> QED
    BY <2>1, <2>2, <2>3, <2>4, <2>5 DEF TreeMid
<1>7. BlockInv(a)
  <2>1. \A t \in Sets : a.sets[t].segm = h.sets[t].segm
    BY <1>2
  <2> QED
    BY <1>0, <1>2, <1>4, <2>1, BlocksKept
<1>8. OthersInv(a, s)
  BY <1>0, <1>2, OthersKept
<1>9. SameSoFar(h, a, s)
  <2>1. \A d \in Dscs : SameDsc(h.dsc[d], a.dsc[d])
    BY <1>2 DEF SameDsc
  <2>2. \A d \in Plain : h.dsc[d].owner # s => a.dsc[d] = h.dsc[d]
    BY <1>2, SetsAreFinite
  <2> QED
    BY <1>1, <1>2, <1>3, <2>1, <2>2, SameMembers
<1> QED
  BY <1>1, <1>4, <1>6, <1>7, <1>8, <1>9

\* What a set has to destroy is not in its stream.
LEMMA PlaceKept ==
  ASSUME NEW ds, NEW es, NEW S, NEW T, NEW s, NEW P, NEW had, PlaceInv(ds, S, s, P, had),
         Members(es, s) = Members(ds, s), \A d \in Members(ds, s) : es[d] = ds[d],
         SameStream(S, T), T.to_add = S.to_add, T.to_update = S.to_update,
         T.to_remove = S.to_remove, T.sum = S.sum
  PROVE  PlaceInv(es, T, s, P, had)
<1> DEFINE M == Members(ds, s)
<1>1. /\ T.segm = S.segm /\ T.past = S.past /\ T.used = S.used /\ T.cells = S.cells
  BY DEF SameStream
<1>2. HeaderOf(T) = HeaderOf(S)
  BY <1>1 DEF HeaderOf
<1>3. Room(T)
  BY <1>1, <1>2 DEF PlaceInv, Room
<1>4. Claimed(es, T, s)
  <2>1. \A d \in M : es[d].ext = ds[d].ext
    OBVIOUS
  <2>2. UNION {es[d].ext : d \in M} = UNION {ds[d].ext : d \in M}
    BY <2>1
  <2> QED
    BY <1>1, <1>2, <2>1, <2>2 DEF PlaceInv, Claimed
<1>5. Cleared(T, had)
  BY <1>1 DEF PlaceInv, Cleared
<1>6. ASSUME NEW d \in M
      PROVE  /\ es[d].ext = {} <=> d \in P
             /\ d \in (T.to_add \cup T.to_update) \ P => IsPlaced(d, es[d])
             /\ d \notin T.to_add \cup T.to_update => Stays(T, d, es[d], had)
  <2>1. es[d] = ds[d]
    OBVIOUS
  <2>2. /\ ds[d].ext = {} <=> d \in P
        /\ d \in (S.to_add \cup S.to_update) \ P => IsPlaced(d, ds[d])
        /\ d \notin S.to_add \cup S.to_update => Stays(S, d, ds[d], had)
    BY DEF PlaceInv
  <2>3. Stays(S, d, ds[d], had) => Stays(T, d, ds[d], had)
    BY <1>1 DEF Stays, HasRecord
  <2> QED
    BY <2>1, <2>2, <2>3
<1>7. Records(es, s) = Records(ds, s)
  <2>1. \A d \in M : es[d].written = ds[d].written
    OBVIOUS
  <2>2. UNION {es[d].written : d \in M} = UNION {ds[d].written : d \in M}
    BY <2>1
  <2> QED
    BY <2>2 DEF Records
<1> QED
  BY <1>1, <1>3, <1>4, <1>5, <1>6, <1>7 DEF PlaceInv

LEMMA DestroyedStage ==
  ASSUME NEW a, Fine(a), NEW s \in Sets, TreeMid(a, s), BlockInv(a), OthersInv(a, s),
         Rooted(a.dsc, s), NEW P, NEW had, PlaceInv(a.dsc, a.sets[s], s, P, had),
         NEW b, b = Destroyed(a, s)
  PROVE  /\ Mid(b, s) /\ Rooted(b.dsc, s) /\ SameSoFar(a, b, s)
         /\ PlaceInv(b.dsc, b.sets[s], s, P, had)
         /\ SameStream(a.sets[s], b.sets[s])
         /\ b.sets[s].to_add = a.sets[s].to_add /\ b.sets[s].to_update = a.sets[s].to_update
         /\ b.sets[s].to_destroy = {}
         /\ \A d \in Members(a.dsc, s) : b.dsc[d] = a.dsc[d]
         /\ b.in_use \subseteq a.in_use
         /\ b.dirty \subseteq a.dirty \cup (a.in_use \ ToSet(a.sets[s].segm))
<1>1. Fine(b) /\ DestroyedWith(a, b, s)
  BY DestroyedFacts
<1>2. /\ a.dsc \in [Dscs -> DscT] /\ a.sets \in [Sets -> SetT]
      /\ b.dsc \in [Dscs -> DscT] /\ b.sets \in [Sets -> SetT] /\ s \in Dscs
      /\ Plain \subseteq Dscs /\ NoSet \notin Sets
  BY <1>1, WTFacts, SetsAreFinite DEF Fine
<1>3. /\ TreeInv(b)
      /\ \A d \in Dscs : IsThere(b, d) <=> IsThere(a, d) /\ d \notin Gone(a, s)
  BY <1>1, DestroyedTree
<1>4. BlockInv(b)
  <2>1. \A d \in Dscs : IsThere(b, d) => IsThere(a, d) /\ d \notin Gone(a, s)
    BY <1>3
  <2> QED
    BY <1>1, <2>1, DestroyedBlocks
<1>5. /\ OthersInv(b, s) /\ Members(b.dsc, s) = Members(a.dsc, s)
      /\ \A d \in Members(a.dsc, s) : b.dsc[d] = a.dsc[d]
      /\ b.sets[s] = [a.sets[s] EXCEPT !.to_destroy = {}]
  BY <1>1, DestroyedOthers
<1>6. /\ SameStream(a.sets[s], b.sets[s])
      /\ b.sets[s].to_add = a.sets[s].to_add /\ b.sets[s].to_update = a.sets[s].to_update
      /\ b.sets[s].to_remove = a.sets[s].to_remove /\ b.sets[s].sum = a.sets[s].sum
      /\ b.sets[s].to_destroy = {}
  <2>1. a.sets[s] \in SetT
    BY <1>2
  <2> QED
    BY ONLY <1>5, <2>1 DEF SetT, SameStream
<1>7. PlaceInv(b.dsc, b.sets[s], s, P, had)
  BY <1>5, <1>6, PlaceKept
<1>8. \A d \in Dscs : Rooted(a.dsc, d) => Rooted(b.dsc, d) /\ d \notin Gone(a, s)
  BY RootedIsNotGone
<1>9. Elsewhere(a, b, s)
  <2> SUFFICES ASSUME NEW d \in Plain, b.dsc[d].owner \notin {NoSet, s}
               PROVE  /\ b.dsc[d] = a.dsc[d]
                      /\ LET o == b.dsc[d].owner
                         IN a.sets[o].to_add \cup a.sets[o].to_update
                              \subseteq b.sets[o].to_add \cup b.sets[o].to_update
    BY DEF Elsewhere
  <2>1. d \in Dscs
    BY <1>2
  <2>2. d \notin Gone(a, s) /\ b.dsc[d] = a.dsc[d]
    BY <1>1, <2>1 DEF DestroyedWith, Absent
  <2>3. a.dsc[d].owner \in Sets /\ a.dsc[d].owner # s
    BY <1>2, <2>1, <2>2, DscTFacts
  <2>4. a.dsc[d].owner \notin Gone(a, s)
    <3>1. Holder(a.dsc, a.sets, d) = a.dsc[d].owner
      BY <1>2, <2>1, <2>3, HolderFacts
    <3> QED
      BY <2>1, <2>2, <3>1, GoneFacts DEF Fine
  <2>5. b.sets[a.dsc[d].owner] = a.sets[a.dsc[d].owner]
    BY <1>1, <2>3, <2>4 DEF DestroyedWith
  <2> QED
    BY <2>2, <2>5
<1>10. SameSoFar(a, b, s)
  BY <1>5, <1>8, <1>9 DEF SameSoFar, SameDsc
<1>11. b.in_use = a.in_use \ Freed(a, s) /\ b.dirty = a.dirty \cup Freed(a, s)
  BY <1>1 DEF DestroyedWith
<1>12. Freed(a, s) \subseteq a.in_use \ ToSet(a.sets[s].segm)
  <2>1. Freed(a, s) = UNION {BlksAt(a, d) : d \in Gone(a, s)}
    BY FreedBlocks
  <2>2. Gone(a, s) \subseteq Dscs /\ s \notin Gone(a, s)
    BY <1>2, <1>8 DEF Gone
  <2>3. /\ \A d \in Dscs : d # s => BlksAt(a, d) \cap BlksAt(a, s) = {}
        /\ a.in_use = UNION {BlksAt(a, d) : d \in Dscs}
    BY <1>2 DEF BlockInv
  <2>4. ToSet(a.sets[s].segm) \subseteq BlksAt(a, s)
    BY DEF BlksAt
  <2> HIDE DEF BlksAt, Freed, Gone
  <2> QED
    BY <2>1, <2>2, <2>3, <2>4
<1> QED
  BY <1>1, <1>2, <1>3, <1>4, <1>5, <1>6, <1>7, <1>8, <1>10, <1>11, <1>12 DEF Mid

(* The sync of a set: the additions *)

LEMMA ConcatFacts ==
  ASSUME NEW A, NEW q \in Seq(A), NEW r \in Seq(A)
  PROVE  /\ Len(q \o r) = Len(q) + Len(r) /\ q \o r \in Seq(A)
         /\ \A i \in 1 .. Len(q) : (q \o r)[i] = q[i]
  OBVIOUS

\* A segment with the blocks for some cells has those cells.
EnoughRoom(past, segm, cells, new, more) ==
  /\ Len(cells \o more) = Len(segm \o new) * CellsPerBlk
  /\ past <= Len(cells \o more)
  /\ \A c \in 1 .. Len(cells) : (cells \o more)[c] = cells[c]
  /\ Len(cells) <= Len(cells \o more) /\ Len(cells \o more) \in Nat

LEMMA RoomAfter ==
  ASSUME NEW past \in Nat, NEW segm \in Seq(Pos), NEW cells \in Seq(Cell),
         NEW new \in Seq(Pos), NEW more \in Seq({Old, Zero}),
         Len(cells) = Len(segm) * CellsPerBlk,
         Len(new) = Max({0, BlksFor(past) - Len(segm)}),
         Len(more) = Len(new) * CellsPerBlk
  PROVE  EnoughRoom(past, segm, cells, new, more)
<1>0. more \in Seq(Cell)
  <2>1. {Old, Zero} \subseteq Cell
    BY DEF Cell
  <2> QED
    BY <2>1
<1>1. CellsPerBlk \in Nat
  BY SetsAssumption
<1>2. PICK l \in Nat, b \in Nat, k \in Nat, x \in Nat, y \in Nat :
        l = Len(segm) /\ b = BlksFor(past) /\ k = Len(new) /\ x = Len(cells) /\ y = Len(more)
  <2>1. Len(segm) \in Nat /\ Len(new) \in Nat /\ Len(cells) \in Nat /\ Len(more) \in Nat
    BY <1>0
  <2>2. BlksFor(past) \in Nat
    BY BlksForFacts
  <2> QED
    BY <2>1, <2>2
<1>3. past <= b * CellsPerBlk
  BY <1>2, BlksForFacts
<1>4. k = IF 0 < b - l THEN b - l ELSE 0
  <2>1. b - l \in Int
    BY <1>2
  <2>2. Max({0, b - l}) = IF 0 < b - l THEN b - l ELSE 0
    BY <2>1, NumMax
  <2> QED
    BY <1>2, <2>2
<1>5. b <= l + k /\ l + k \in Nat
  BY <1>2, <1>4
<1>6. b * CellsPerBlk <= (l + k) * CellsPerBlk /\ b * CellsPerBlk \in Nat
      /\ (l + k) * CellsPerBlk \in Nat
  BY <1>2, <1>5, BlksMonotonic
<1>7. (l + k) * CellsPerBlk = l * CellsPerBlk + k * CellsPerBlk
  BY <1>1, <1>2
<1>8. Len(cells \o more) = x + y /\ Len(segm \o new) = l + k
  <2>1. Len(cells \o more) = Len(cells) + Len(more)
    BY <1>0, ConcatFacts
  <2>2. Len(segm \o new) = Len(segm) + Len(new)
    BY ConcatFacts
  <2> QED
    BY ONLY <1>2, <2>1, <2>2
<1>9. x + y = (l + k) * CellsPerBlk
  BY <1>2, <1>7
<1>10. past <= x + y
  BY <1>2, <1>3, <1>6, <1>9
<1>11. \A c \in 1 .. Len(cells) : (cells \o more)[c] = cells[c]
  BY <1>0, ConcatFacts
<1>12. x <= x + y /\ x + y \in Nat
  BY <1>2
<1> QED
  BY <1>2, <1>8, <1>9, <1>10, <1>11, <1>12 DEF EnoughRoom

LEMMA PlacedStream ==
  ASSUME NEW ds \in [Dscs -> DscT], NEW S \in SetT, NEW s \in Sets, NEW P, NEW had \in Nat,
         PlaceInv(ds, S, s, P, had), NEW d \in P, d \in Members(ds, s),
         NEW lo \in Pos, NEW n \in Pos, n = Footprint(d, ds[d]),
         NEW ext, ext = lo .. lo + n - 1, ext \cap S.used = {},
         NEW es, es = [ds EXCEPT ![d] = [@ EXCEPT !.ext = ext]],
         NEW past \in Nat, past = (IF S.past < lo + n - 1 THEN lo + n - 1 ELSE S.past),
         NEW new \in Seq(Pos), NEW more \in Seq({Old, Zero}),
         Len(new) = Max({0, BlksFor(past) - Len(S.segm)}),
         Len(more) = Len(new) * CellsPerBlk,
         NEW T, T = [S EXCEPT !.past = past, !.segm = @ \o new, !.cells = @ \o more,
                              !.used = @ \cup ext]
  PROVE  PlaceInv(es, T, s, P \ {d}, had)
<1> DEFINE M == Members(ds, s)
<1>1. /\ T.past = past /\ T.segm = S.segm \o new /\ T.cells = S.cells \o more
      /\ T.used = S.used \cup ext /\ T.to_add = S.to_add /\ T.to_update = S.to_update
      /\ T.to_remove = S.to_remove /\ T.to_destroy = S.to_destroy /\ T.sum = S.sum
  BY DEF SetT
<1>2. /\ S.past \in Nat /\ S.used \in SUBSET Nat /\ S.cells \in Seq(Cell) /\ S.segm \in Seq(Pos)
      /\ Len(S.cells) \in Nat /\ Len(S.segm) \in Nat
  BY SetTFacts
<1>3. /\ Room(S) /\ Claimed(ds, S, s) /\ S.to_remove = {}
      /\ P \subseteq S.to_add /\ had <= Len(S.cells) /\ Cleared(S, had)
      /\ S.sum = SetToBag(Records(ds, s)) /\ (S.past = 0 => M = {})
  BY DEF PlaceInv
<1>4. lo \in Nat /\ lo # 0 /\ n \in Nat /\ n # 0
  BY DEF Pos
<1>5. ext # {} /\ ext \subseteq 1 .. past /\ S.past <= past /\ past # 0 /\ S.past # 0
  <2>1. ext # {} /\ ext \subseteq 1 .. lo + n - 1
    BY <1>4
  <2>2. lo + n - 1 <= past /\ S.past <= past
    BY <1>2, <1>4
  <2>3. S.past # 0
    BY <1>3
  <2> QED
    BY <1>2, <1>4, <2>1, <2>2, <2>3
<1>6. ASSUME NEW e \in Dscs, e # d PROVE es[e] = ds[e]
  BY <1>6
<1>7. /\ es[d].ext = ext /\ es[d].owner = ds[d].owner /\ es[d].written = ds[d].written
      /\ es[d].data = ds[d].data /\ es[d].pid = ds[d].pid
  <2>1. d \in Dscs /\ ds[d] \in DscT
    BY DEF Members
  <2>2. PICK r \in DscT : r = ds[d]
    BY <2>1
  <2>3. es[d] = [r EXCEPT !.ext = ext]
    BY <2>1, <2>2
  <2>4. LET q == [r EXCEPT !.ext = ext]
        IN /\ q.ext = ext /\ q.owner = r.owner /\ q.written = r.written
           /\ q.data = r.data /\ q.pid = r.pid
    BY DEF DscT
  <2> QED
    BY <2>2, <2>3, <2>4
<1>8. Members(es, s) = M
  <2>1. \A e \in Dscs : es[e].owner = ds[e].owner
    BY <1>6, <1>7
  <2> QED
    BY <2>1 DEF Members
<1>9. HeaderOf(S) = 1 .. HeaderCells /\ HeaderOf(T) = HeaderOf(S)
  BY <1>1, <1>5 DEF HeaderOf
<1>10. /\ Len(T.cells) = Len(T.segm) * CellsPerBlk /\ past <= Len(T.cells)
       /\ \A c \in 1 .. Len(S.cells) : T.cells[c] = S.cells[c]
       /\ Len(S.cells) <= Len(T.cells) /\ Len(T.cells) \in Nat
  <2>1. Len(S.cells) = Len(S.segm) * CellsPerBlk
    BY <1>3 DEF Room
  <2>2. PICK segm \in Seq(Pos), cells \in Seq(Cell) : segm = S.segm /\ cells = S.cells
    BY <1>2
  <2>3. Len(cells) = Len(segm) * CellsPerBlk /\ Len(new) = Max({0, BlksFor(past) - Len(segm)})
    BY <2>1, <2>2
  <2>4. EnoughRoom(past, segm, cells, new, more)
    BY <2>3, RoomAfter
  <2> QED
    BY <1>1, <2>2, <2>4 DEF EnoughRoom
<1>11. Room(T)
  <2>1. HeaderOf(S) \subseteq S.used /\ S.used \subseteq 1 .. S.past
    BY <1>3 DEF Room
  <2>2. T.used \subseteq 1 .. past
    BY <1>1, <1>2, <1>5, <2>1
  <2> QED
    BY <1>1, <1>5, <1>9, <1>10, <2>1, <2>2 DEF Room
<1>12. /\ S.used = HeaderOf(S) \cup UNION {ds[e].ext : e \in M}
       /\ \A e \in M : /\ ds[e].ext \cap HeaderOf(S) = {}
                       /\ \A f \in M : e # f => ds[e].ext \cap ds[f].ext = {}
  BY <1>3 DEF Claimed
<1>13. ds[d].ext = {}
  BY DEF PlaceInv
<1>14. \A e \in M \ {d} : es[e].ext = ds[e].ext /\ ds[e].ext \subseteq S.used /\ e \in Dscs
  <2>1. M \subseteq Dscs
    BY DEF Members
  <2> HIDE DEF M
  <2> QED
    BY <1>6, <1>12, <2>1
<1>15. Claimed(es, T, s)
  <2>1. T.used = HeaderOf(T) \cup (UNION T.to_remove) \cup UNION {es[e].ext : e \in M}
    <3>1. ASSUME NEW c PROVE c \in T.used <=> c \in HeaderOf(T) \cup UNION {es[e].ext : e \in M}
      <4>1. c \in T.used <=> c \in S.used \/ c \in ext
        BY <1>1
      <4>2. c \in S.used <=> c \in HeaderOf(S) \/ \E e \in M : c \in ds[e].ext
        BY <1>12
      <4>3. (\E e \in M : c \in es[e].ext) <=> (\E e \in M : c \in ds[e].ext) \/ c \in ext
        BY <1>7, <1>13, <1>14
      <4> QED
        BY <1>9, <4>1, <4>2, <4>3
    <3>2. UNION T.to_remove = {}
      BY <1>1, <1>3
    <3> QED
      BY <3>1, <3>2
  <2>2. \A e \in M : /\ es[e].ext \cap HeaderOf(T) = {}
                     /\ \A f \in M : e # f => es[e].ext \cap es[f].ext = {}
    <3>1. ext \cap HeaderOf(T) = {}
      BY <1>9, <1>12
    <3>2. \A e \in M \ {d} : ext \cap es[e].ext = {}
      BY <1>14
    <3> QED
      BY <1>7, <1>9, <1>12, <1>14, <3>1, <3>2
  <2>3. T.to_remove = {}
    BY <1>1, <1>3
  <2> QED
    BY <1>8, <2>1, <2>2, <2>3 DEF Claimed
<1>16. Cleared(T, had)
  <2> SUFFICES ASSUME NEW c \in 1 .. had, c > HeaderCells, c \notin T.used
               PROVE  Blank(c, T.cells[c])
    BY DEF Cleared
  <2>1. c \in 1 .. Len(S.cells) /\ c \notin S.used
    BY <1>1, <1>2, <1>3
  <2>2. Blank(c, S.cells[c])
    BY <1>3, <2>1 DEF Cleared
  <2> QED
    BY <1>10, <2>1, <2>2
<1>17. ASSUME NEW e \in M
       PROVE  /\ es[e].ext = {} <=> e \in P \ {d}
              /\ e \in (T.to_add \cup T.to_update) \ (P \ {d}) => IsPlaced(e, es[e])
              /\ e \notin T.to_add \cup T.to_update => Stays(T, e, es[e], had)
  <2>1. CASE e = d
    <3>1. Footprint(d, es[d]) = n
      BY <1>7 DEF Footprint
    <3>2. IsPlaced(d, es[d])
      BY <1>7, <3>1 DEF IsPlaced
    <3>3. d \in T.to_add
      BY <1>1, <1>3
    <3> QED
      BY <1>5, <1>7, <2>1, <3>2, <3>3
  <2>2. CASE e # d
    <3>1. es[e] = ds[e]
      BY <1>6, <1>14, <2>2
    <3>2. /\ ds[e].ext = {} <=> e \in P
          /\ e \in (S.to_add \cup S.to_update) \ P => IsPlaced(e, ds[e])
          /\ e \notin S.to_add \cup S.to_update => Stays(S, e, ds[e], had)
      BY DEF PlaceInv
    <3>3. ASSUME Stays(S, e, ds[e], had) PROVE Stays(T, e, ds[e], had)
      <4>1. PICK R \in ds[e].written : HasRecord(S, e, ds[e], R) /\ R.pid = ds[e].pid
                                       /\ ds[e].ext \subseteq 1 .. had
        BY <3>3 DEF Stays
      <4>2. \A c \in ds[e].ext : T.cells[c] = S.cells[c]
        BY <1>2, <1>3, <1>10, <4>1
      <4>3. HasRecord(T, e, ds[e], R)
        BY <4>1, <4>2 DEF HasRecord
      <4> QED
        BY <4>1, <4>3 DEF Stays
    <3> QED
      BY <1>1, <2>2, <3>1, <3>2, <3>3
  <2> QED
    BY <2>1, <2>2
<1>18. T.sum = SetToBag(Records(es, s))
  <2>1. \A e \in M : es[e].written = ds[e].written
    <3>1. M \subseteq Dscs
      BY DEF Members
    <3> HIDE DEF M
    <3> QED
      BY <1>6, <1>7, <3>1
  <2>2. UNION {es[e].written : e \in M} = UNION {ds[e].written : e \in M}
    BY <2>1
  <2>3. Records(es, s) = Records(ds, s)
    BY <1>8, <2>2 DEF Records
  <2> QED
    BY <1>1, <1>3, <2>3
<1>19. had <= Len(T.cells)
  BY <1>2, <1>3, <1>10
<1> QED
  BY <1>1, <1>3, <1>5, <1>8, <1>11, <1>15, <1>16, <1>17, <1>18, <1>19 DEF PlaceInv

\* The memory while the ones of P have no place yet.
Placing(w, s, P, had) ==
  /\ Mid(w, s) /\ Rooted(w.dsc, s) /\ PlaceInv(w.dsc, w.sets[s], s, P, had)
  /\ w.sets[s].to_destroy = {}

\* What the additions do not change.
SamePlans(w, v, s) ==
  /\ SameSoFar(w, v, s) /\ v.dirty = w.dirty /\ w.in_use \subseteq v.in_use
  /\ v.sets[s].to_add = w.sets[s].to_add /\ v.sets[s].to_update = w.sets[s].to_update
  /\ \A t \in Sets \ {s} : v.sets[t] = w.sets[t]

LEMMA PlacedStep ==
  ASSUME NEW w, NEW s \in Sets, NEW P, NEW had \in Nat, Placing(w, s, P, had),
         NEW d \in P, NEW v, v = Placed(w, s, d)
  PROVE  Placing(v, s, P \ {d}, had) /\ SamePlans(w, v, s)
<1> DEFINE ds == w.dsc
           S == w.sets[s]
           n == Footprint(d, ds[d])
<1>1. /\ Fine(w) /\ TreeInv(w) /\ BlockInv(w) /\ OthersInv(w, s) /\ Rooted(ds, s)
      /\ PlaceInv(ds, S, s, P, had) /\ S.to_destroy = {}
  BY DEF Placing, Mid
<1>2. /\ ds \in [Dscs -> DscT] /\ w.sets \in [Sets -> SetT] /\ GoodDscs(ds) /\ GoodSets(ds, w.sets)
      /\ w \in WT /\ s \in Dscs /\ NoSet \notin Sets /\ Plain \subseteq Dscs
  BY <1>1, WTFacts, SetsAreFinite DEF Fine
<1>3. S \in SetT
  BY <1>2
<1>4. /\ S.past \in Nat /\ S.segm \in Seq(Pos) /\ S.cells \in Seq(Cell) /\ S.to_add \in SUBSET Dscs
  BY <1>3, SetTFacts
<1>5. d \in S.to_add /\ d \in Dscs /\ ds[d].owner = s /\ ds[d].data \in DataOf(d) /\ d \in Members(ds, s)
  <2>1. d \in S.to_add
    BY <1>1 DEF PlaceInv
  <2>2. d \in Dscs /\ ds[d].owner = s
    BY <1>2, <1>4, <2>1 DEF GoodSets
  <2> QED
    BY <1>2, <2>1, <2>2 DEF GoodDscs, Members
<1>6. Fine(v) /\ \E lo, new, more : PlacedAt(w, v, s, d, lo, new, more)
  BY <1>1, <1>5, PlacedFacts
<1>7. PICK lo, new, more : PlacedAt(w, v, s, d, lo, new, more)
  BY <1>6
<1> DEFINE ext == lo .. lo + n - 1
           past == IF S.past < lo + n - 1 THEN lo + n - 1 ELSE S.past
           T == [S EXCEPT !.past = past, !.segm = @ \o new, !.cells = @ \o more, !.used = @ \cup ext]
           es == [ds EXCEPT ![d] = [@ EXCEPT !.ext = ext]]
<1>8. /\ lo \in Pos /\ n \in Pos /\ (S.used \subseteq 1 .. S.past => ext \cap S.used = {})
      /\ new \in Seq(Pos) /\ IsInjective(new) /\ ToSet(new) \cap w.in_use = {}
      /\ Len(new) = Max({0, BlksFor(past) - Len(S.segm)})
      /\ more \in Seq({Old, Zero}) /\ Len(more) = Len(new) * CellsPerBlk
      /\ v.dsc = es /\ v.dirty = w.dirty /\ v.in_use = w.in_use \cup ToSet(new)
      /\ v.sets = [w.sets EXCEPT ![s] = T]
  BY <1>7 DEF PlacedAt
<1>9. ext \cap S.used = {}
  BY <1>1, <1>8 DEF PlaceInv, Room
<1>10. past \in Nat
  <2>1. lo \in Nat /\ n \in Nat /\ lo # 0 /\ n # 0
    BY <1>8 DEF Pos
  <2> HIDE DEF n
  <2> QED
    BY <1>4, <2>1
<1> HIDE DEF ds, S, n, ext, past, T, es
<1>a. PICK X : X = ext
  OBVIOUS
<1>b. PICK p \in Nat : p = past
  BY <1>10
<1>c. PICK k \in Pos : k = n
  BY <1>8
<1>d. PICK ff : ff = es
  OBVIOUS
<1>e. PICK TT : TT = T
  OBVIOUS
<1> USE DEF ds, S, n, ext, past, T, es
<1>11. X = ext /\ p = past /\ k = n /\ ff = es /\ TT = T
  BY <1>a, <1>b, <1>c, <1>d, <1>e
<1>12. PlaceInv(ff, TT, s, P \ {d}, had)
  <2>1. /\ X = lo .. lo + k - 1 /\ X \cap S.used = {} /\ k = Footprint(d, ds[d])
        /\ p = (IF S.past < lo + k - 1 THEN lo + k - 1 ELSE S.past)
        /\ ff = [ds EXCEPT ![d] = [@ EXCEPT !.ext = X]]
        /\ TT = [S EXCEPT !.past = p, !.segm = @ \o new, !.cells = @ \o more, !.used = @ \cup X]
        /\ Len(new) = Max({0, BlksFor(p) - Len(S.segm)})
    BY <1>8, <1>9, <1>11
  <2>2. PICK dd, SS : dd = ds /\ SS = S
    OBVIOUS
  <2>3. dd \in [Dscs -> DscT]
    BY <1>2, <2>2
  <2>4. SS \in SetT
    BY <1>3, <2>2
  <2>5. PlaceInv(dd, SS, s, P, had)
    BY <1>1, <2>2
  <2>6. d \in Members(dd, s)
    BY <1>5, <2>2
  <2>7. k = Footprint(d, dd[d])
    BY <2>1, <2>2
  <2>8. X = lo .. lo + k - 1
    BY <2>1
  <2>9. X \cap SS.used = {}
    BY <2>1, <2>2
  <2>10. p = (IF SS.past < lo + k - 1 THEN lo + k - 1 ELSE SS.past)
    BY <2>1, <2>2
  <2>11. ff = [dd EXCEPT ![d] = [@ EXCEPT !.ext = X]]
    BY <2>1, <2>2
  <2>12. TT = [SS EXCEPT !.past = p, !.segm = @ \o new, !.cells = @ \o more, !.used = @ \cup X]
    BY <2>1, <2>2
  <2>13. Len(new) = Max({0, BlksFor(p) - Len(SS.segm)})
    BY <2>1, <2>2
  <2>14. lo \in Pos
    BY <1>8
  <2>15. new \in Seq(Pos)
    BY <1>8
  <2>16. more \in Seq({Old, Zero})
    BY <1>8
  <2>17. Len(more) = Len(new) * CellsPerBlk
    BY <1>8
  <2> HIDE DEF ds, S, n, ext, past, T, es
  <2> QED
    BY ONLY <2>3, <2>4, <2>5, <2>6, <2>7, <2>8, <2>9, <2>10, <2>11, <2>12, <2>13, <2>14,
      <2>15, <2>16, <2>17, PlacedStream, ZenonT(60)
<1>13. /\ T.segm = S.segm \o new /\ T.to_add = S.to_add /\ T.to_update = S.to_update
       /\ T.to_destroy = S.to_destroy
  BY <1>3 DEF SetT
<1>14. v.sets[s] = T /\ \A t \in Sets \ {s} : v.sets[t] = w.sets[t]
  BY <1>2, <1>8
<1>15. ASSUME NEW x \in Dscs
       PROVE  SameDsc(ds[x], es[x]) /\ es[x].content = ds[x].content /\ (x # d => es[x] = ds[x])
  <2>1. PICK r \in DscT : r = ds[x]
    BY <1>2
  <2>2. x = d => es[x] = [r EXCEPT !.ext = ext]
    BY <1>2, <2>1
  <2>3. LET q == [r EXCEPT !.ext = ext] IN SameDsc(r, q) /\ q.content = r.content
    BY DEF DscT, SameDsc
  <2>4. x # d => es[x] = ds[x]
    BY <1>2
  <2> QED
    BY <2>1, <2>2, <2>3, <2>4 DEF SameDsc
<1> HIDE DEF T, es, ext, past
<1>16. SameTree(w, v)
  <2>1. \A x \in Dscs : v.dsc[x].owner = w.dsc[x].owner
    BY <1>8, <1>15 DEF SameDsc
  <2>2. \A t \in Sets : v.sets[t].to_destroy = w.sets[t].to_destroy
    BY <1>13, <1>14
  <2> QED
    BY <2>1, <2>2 DEF SameTree
<1>17. TreeInv(v)
  <2>1. \A t \in Sets : v.sets[t].to_destroy # {} => v.sets[t].to_remove # {}
    <3>1. v.sets[s].to_destroy = {}
      BY <1>1, <1>13, <1>14
    <3>2. \A t \in Sets \ {s} : v.sets[t].to_destroy # {} => v.sets[t].to_remove # {}
      BY <1>1, <1>14 DEF TreeInv
    <3> QED
      BY <3>1, <3>2
  <2>2. IsThere(w, s) /\ IsThere(w, d)
    <3>1. Holder(w.dsc, w.sets, d) # NoSet
      BY <1>2, <1>5, HolderFacts
    <3> QED
      BY <1>1, <1>2, <3>1, RootedHolders DEF IsThere
  <2>3. \A x \in Dscs : ~ IsThere(w, x) => /\ v.dsc[x] = w.dsc[x]
                                           /\ x \in Sets => v.sets[x] = w.sets[x]
    BY <1>8, <1>14, <1>15, <2>2
  <2> QED
    BY <1>1, <1>16, <2>1, <2>3, TreeKept
<1>18. BlockInv(v)
  <2>1. \A x \in Dscs : IsThere(v, x) => IsThere(w, x)
    BY <1>16, SameTreeFacts
  <2>2. PICK old \in Seq(Pos) : old = w.sets[s].segm
    BY <1>4
  <2>3. v.sets[s].segm = old \o new
    BY <1>13, <1>14, <2>2
  <2>4. /\ \A x \in Dscs : v.dsc[x].content = w.dsc[x].content
        /\ \A t \in Sets \ {s} : v.sets[t].segm = w.sets[t].segm
    BY <1>8, <1>14, <1>15
  <2> QED
    BY <1>1, <1>8, <2>1, <2>2, <2>3, <2>4, BlocksGrown
<1>19. OthersInv(v, s)
  <2>1. \A x \in Dscs : /\ v.dsc[x].owner = w.dsc[x].owner
                        /\ w.dsc[x].owner # s => v.dsc[x] = w.dsc[x]
    BY <1>5, <1>8, <1>15 DEF SameDsc
  <2> QED
    BY <1>1, <1>14, <2>1, OthersKept
<1>20. SameSoFar(w, v, s)
  <2>1. \A x \in Dscs : SameDsc(w.dsc[x], v.dsc[x])
    BY <1>8, <1>15
  <2>2. \A x \in Plain : w.dsc[x].owner # s => v.dsc[x] = w.dsc[x]
    BY <1>2, <1>5, <1>8, <1>15
  <2> QED
    BY <1>2, <1>14, <1>16, <2>1, <2>2, SameMembers
<1>21. Rooted(v.dsc, s)
  BY <1>1, <1>2, <1>20 DEF SameSoFar
<1>22. PlaceInv(v.dsc, v.sets[s], s, P \ {d}, had)
  BY <1>8, <1>11, <1>12, <1>14
<1>23. SamePlans(w, v, s)
  BY <1>8, <1>13, <1>14, <1>20 DEF SamePlans
<1>24. v.sets[s].to_destroy = {}
  BY <1>1, <1>13, <1>14
<1> QED
  BY <1>6, <1>17, <1>18, <1>19, <1>21, <1>22, <1>23, <1>24 DEF Placing, Mid

LEMMA SamePlansThrough ==
  ASSUME NEW u, NEW v, NEW w, NEW s, SamePlans(u, v, s), SamePlans(v, w, s)
  PROVE  SamePlans(u, w, s)
<1>1. SameSoFar(u, w, s)
  BY SameSoFarThrough DEF SamePlans
<1> QED
  BY <1>1 DEF SamePlans

LEMMA SamePlansAtFirst ==
  ASSUME NEW w, NEW s
  PROVE  SamePlans(w, w, s)
  BY DEF SamePlans, SameSoFar, SameDsc, Elsewhere

\* The additions, one after the other, give a place to everyone.
LEMMA AllPlaced ==
  ASSUME NEW w, NEW s \in Sets, NEW had \in Nat, NEW P, Placing(w, s, P, had),
         NEW n \in Nat, NEW order \in [1 .. n -> P],
         \A i, j \in 1 .. n : i # j => order[i] # order[j], P = {order[i] : i \in 1 .. n},
         NEW g, g[0] = w, \A k \in 1 .. n : g[k] = Placed(g[k - 1], s, order[k])
  PROVE  Placing(g[n], s, {}, had) /\ SamePlans(w, g[n], s)
<1> DEFINE Left(k) == {order[i] : i \in k + 1 .. n}
           Q == {k \in 0 .. n : Placing(g[k], s, Left(k), had) /\ SamePlans(w, g[k], s)}
<1>1. Left(0) = P
  OBVIOUS
<1>2. 0 \in Q
  BY <1>1, SamePlansAtFirst
<1>3. ASSUME NEW k \in 0 .. n - 1, k \in Q PROVE k + 1 \in Q
  <2>1. k \in Nat /\ k + 1 \in 1 .. n /\ (k + 1) - 1 = k /\ k + 1 \in 0 .. n
    OBVIOUS
  <2>2. PICK d \in Left(k) : d = order[k + 1]
    BY <2>1
  <2>3. Left(k) \ {d} = Left(k + 1)
    <3>1. \A i \in k + 1 .. n : i \in 1 .. n /\ (i = k + 1 \/ i \in (k + 1) + 1 .. n)
      BY <2>1
    <3>2. \A i \in (k + 1) + 1 .. n : i \in k + 1 .. n /\ i # k + 1 /\ i \in 1 .. n
      BY <2>1
    <3>3. \A i \in (k + 1) + 1 .. n : order[i] # d
      BY <2>1, <2>2, <3>2
    <3> QED
      BY <2>2, <3>1, <3>2, <3>3
  <2>4. g[k + 1] = Placed(g[k], s, d)
    BY <2>1, <2>2
  <2> DEFINE u == g[k]
             v == g[k + 1]
             L == Left(k)
             L1 == Left(k + 1)
  <2>5. Placing(u, s, L, had) /\ SamePlans(w, u, s)
    BY <1>3
  <2>6. v = Placed(u, s, d) /\ d \in L /\ L \ {d} = L1
    BY <2>2, <2>3, <2>4
  <2>7. Placing(v, s, L1, had) /\ SamePlans(u, v, s)
    <3> HIDE DEF u, v, L, L1
    <3>1. Placing(v, s, L \ {d}, had) /\ SamePlans(u, v, s)
      BY <2>5, <2>6, PlacedStep
    <3> QED
      BY <2>6, <3>1
  <2>8. SamePlans(w, v, s)
    <3> HIDE DEF u, v
    <3> QED
      BY <2>5, <2>7, SamePlansThrough
  <2> QED
    BY <2>1, <2>7, <2>8
<1>4. n \in Q
  <2> HIDE DEF Q
  <2>1. 0 .. n \subseteq Q
    BY <1>2, <1>3, Steps
  <2> QED
    BY <2>1
<1>5. Left(n) = {}
  OBVIOUS
<1> QED
  BY <1>4, <1>5

\* What is new in the segment is padding.
LEMMA FilledStage ==
  ASSUME NEW w, NEW s \in Sets, NEW had \in Nat, Placing(w, s, {}, had), NEW v, v = Filled(w, s, had)
  PROVE  Placing(v, s, {}, Len(v.sets[s].cells)) /\ SamePlans(w, v, s)
<1> DEFINE ds == w.dsc
           S == w.sets[s]
           T == v.sets[s]
<1>1. /\ Fine(w) /\ TreeInv(w) /\ BlockInv(w) /\ OthersInv(w, s) /\ Rooted(ds, s)
      /\ PlaceInv(ds, S, s, {}, had) /\ S.to_destroy = {}
  BY DEF Placing, Mid
<1>2. /\ ds \in [Dscs -> DscT] /\ w.sets \in [Sets -> SetT] /\ s \in Dscs
  BY <1>1, WTFacts, SetsAreFinite DEF Fine
<1>3. S \in SetT
  BY <1>2
<1>4. S.cells \in Seq(Cell) /\ Len(S.cells) \in Nat
  BY <1>3, SetTFacts
<1>5. /\ Fine(v) /\ v.dsc = ds /\ v.in_use = w.in_use /\ v.dirty = w.dirty
      /\ v.sets = [w.sets EXCEPT ![s] = [S EXCEPT !.cells = Zeroed(S.cells, had + 1 .. Len(S.cells))]]
  BY <1>1, FilledFacts
<1>6. PICK q : q = Zeroed(S.cells, had + 1 .. Len(S.cells))
  OBVIOUS
<1>7. /\ Len(q) = Len(S.cells)
      /\ \A c \in 1 .. Len(S.cells) : q[c] = IF c \in had + 1 .. Len(S.cells) THEN Zero ELSE S.cells[c]
  <2>1. DOMAIN S.cells = 1 .. Len(S.cells)
    BY <1>4
  <2> HIDE DEF S
  <2> QED
    BY <1>4, <1>6, <2>1, ZeroedFacts
<1>8. T = [S EXCEPT !.cells = q] /\ \A t \in Sets \ {s} : v.sets[t] = w.sets[t]
  BY <1>2, <1>5, <1>6
<1>9. /\ T.past = S.past /\ T.segm = S.segm /\ T.cells = q /\ T.used = S.used
      /\ T.to_add = S.to_add /\ T.to_update = S.to_update
      /\ T.to_remove = S.to_remove /\ T.to_destroy = S.to_destroy /\ T.sum = S.sum
  BY ONLY <1>3, <1>8 DEF SetT
<1> HIDE DEF S, T
<1>10. /\ Room(S) /\ Claimed(ds, S, s) /\ S.to_remove = {}
       /\ had <= Len(S.cells) /\ Cleared(S, had)
       /\ S.sum = SetToBag(Records(ds, s)) /\ (S.past = 0 => Members(ds, s) = {})
  BY <1>1 DEF PlaceInv
<1>11. \A c \in 1 .. had : c \in 1 .. Len(S.cells) /\ q[c] = S.cells[c]
  BY <1>4, <1>7, <1>10
<1>12. HeaderOf(T) = HeaderOf(S)
  BY <1>9 DEF HeaderOf
<1>13. Room(T)
  BY <1>7, <1>9, <1>10, <1>12 DEF Room
<1>14. Claimed(ds, T, s)
  BY <1>9, <1>10, <1>12 DEF Claimed
<1>15. Cleared(T, Len(T.cells))
  <2> SUFFICES ASSUME NEW c \in 1 .. Len(T.cells), c > HeaderCells, c \notin T.used
               PROVE  Blank(c, T.cells[c])
    BY DEF Cleared
  <2>1. c \in 1 .. Len(S.cells)
    BY <1>7, <1>9
  <2>2. CASE c \in had + 1 .. Len(S.cells)
    <3>1. T.cells[c] = Zero
      BY <1>7, <1>9, <2>1, <2>2
    <3> QED
      BY <3>1 DEF Blank
  <2>3. CASE c \notin had + 1 .. Len(S.cells)
    <3>1. c \in 1 .. had
      BY <1>4, <2>1, <2>3
    <3>2. Blank(c, S.cells[c])
      BY <1>9, <1>10, <3>1 DEF Cleared
    <3> QED
      BY <1>9, <1>11, <3>1, <3>2
  <2> QED
    BY <2>2, <2>3
<1>16. ASSUME NEW d \in Members(ds, s)
       PROVE  /\ ds[d].ext = {} <=> d \in {}
              /\ d \in (T.to_add \cup T.to_update) \ {} => IsPlaced(d, ds[d])
              /\ d \notin T.to_add \cup T.to_update => Stays(T, d, ds[d], Len(T.cells))
  <2>1. /\ ds[d].ext = {} <=> d \in {}
        /\ d \in (S.to_add \cup S.to_update) \ {} => IsPlaced(d, ds[d])
        /\ d \notin S.to_add \cup S.to_update => Stays(S, d, ds[d], had)
    BY <1>1 DEF PlaceInv
  <2>2. ASSUME Stays(S, d, ds[d], had) PROVE Stays(T, d, ds[d], Len(T.cells))
    <3>1. PICK R \in ds[d].written : HasRecord(S, d, ds[d], R) /\ R.pid = ds[d].pid
                                     /\ ds[d].ext \subseteq 1 .. had
      BY <2>2 DEF Stays
    <3>2. \A c \in ds[d].ext : T.cells[c] = S.cells[c]
      BY <1>9, <1>11, <3>1
    <3>3. HasRecord(T, d, ds[d], R)
      BY <3>1, <3>2 DEF HasRecord
    <3>4. ds[d].ext \subseteq 1 .. Len(T.cells)
      BY <1>7, <1>9, <1>11, <3>1
    <3> QED
      BY <3>1, <3>3, <3>4 DEF Stays
  <2> QED
    BY <1>9, <2>1, <2>2
<1>17. PlaceInv(ds, T, s, {}, Len(T.cells))
  <2>1. Len(T.cells) <= Len(T.cells)
    BY <1>4, <1>7, <1>9
  <2> QED
    BY <1>9, <1>10, <1>13, <1>14, <1>15, <1>16, <2>1 DEF PlaceInv
<1>18. SameTree(w, v)
  <2>1. \A t \in Sets : v.sets[t].to_destroy = w.sets[t].to_destroy
    BY <1>8, <1>9 DEF S, T
  <2> QED
    BY <1>5, <2>1 DEF SameTree
<1>19. TreeInv(v)
  <2>1. \A t \in Sets : v.sets[t].to_destroy # {} => v.sets[t].to_remove # {}
    BY <1>1, <1>8, <1>9 DEF TreeInv, S, T
  <2>2. IsThere(w, s)
    BY <1>1, <1>2, RootedHolders
  <2>3. \A x \in Dscs : ~ IsThere(w, x) => /\ v.dsc[x] = w.dsc[x]
                                           /\ x \in Sets => v.sets[x] = w.sets[x]
    BY <1>5, <1>8, <2>2
  <2> QED
    BY <1>1, <1>18, <2>1, <2>3, TreeKept
<1>20. BlockInv(v)
  <2>1. \A x \in Dscs : IsThere(v, x) => IsThere(w, x)
    BY <1>18, SameTreeFacts
  <2>2. \A t \in Sets : v.sets[t].segm = w.sets[t].segm
    BY <1>8, <1>9 DEF S, T
  <2> QED
    BY <1>1, <1>5, <2>1, <2>2, BlocksKept
<1>21. OthersInv(v, s)
  BY <1>1, <1>5, <1>8, OthersKept
<1>22. SameSoFar(w, v, s)
  <2>1. \A x \in Dscs : SameDsc(w.dsc[x], v.dsc[x])
    BY <1>5 DEF SameDsc
  <2> QED
    BY <1>2, <1>5, <1>8, <1>18, <2>1, SameMembers
<1>23. SamePlans(w, v, s)
  BY <1>5, <1>8, <1>9, <1>22 DEF SamePlans, S, T
<1>24. T.to_destroy = {}
  BY <1>1, <1>9 DEF S
<1> QED
  BY <1>1, <1>5, <1>17, <1>19, <1>20, <1>21, <1>23, <1>24 DEF Placing, Mid, T

\* An order of some descriptors has each of them once.
LEMMA OrderFacts ==
  ASSUME NEW P, IsFiniteSet(P), NEW order \in SetToSeqs(P)
  PROVE  \E n \in Nat : /\ order \in [1 .. n -> P] /\ P = {order[i] : i \in 1 .. n}
                        /\ \A i, j \in 1 .. n : i # j => order[i] # order[j]
<1>1. PICK n \in Nat : n = Cardinality(P)
  BY FS_CardinalityType
<1>2. order \in [1 .. n -> P] /\ \A i, j \in 1 .. n : i # j => order[i] # order[j]
  BY <1>1 DEF SetToSeqs
<1>3. order \in Injection(1 .. n, P)
  BY <1>2 DEF Injection, IsInjective
<1>4. Cardinality(1 .. n) = n
  <2>1. PICK a \in Int : a = 1
    OBVIOUS
  <2>2. Cardinality(a .. n) = IF a > n THEN 0 ELSE n - a + 1
    BY FS_Interval
  <2> QED
    BY <2>1, <2>2
<1>5. Cardinality(1 .. n) = Cardinality(P)
  BY <1>1, <1>4
<1>6. order \in Surjection(1 .. n, P)
  BY <1>3, <1>5, FS_Injection
<1>7. P = {order[i] : i \in 1 .. n}
  BY <1>2, <1>6 DEF Surjection
<1> QED
  BY <1>2, <1>7

LEMMA AllocatedStage ==
  ASSUME NEW w, NEW s \in Sets, Placing(w, s, w.sets[s].to_add, Len(w.sets[s].cells)),
         NEW order \in SetToSeqs(w.sets[s].to_add)
  PROVE  LET v == Allocated(w, s, order)
         IN Placing(v, s, {}, Len(v.sets[s].cells)) /\ SamePlans(w, v, s)
<1> DEFINE S == w.sets[s]
           P == S.to_add
           had == Len(S.cells)
<1>1. Fine(w) /\ w.dsc \in [Dscs -> DscT] /\ w.sets \in [Sets -> SetT]
      /\ GoodSets(w.dsc, w.sets) /\ GoodDscs(w.dsc)
  BY WTFacts DEF Placing, Mid, Fine
<1>2. P \in SUBSET Dscs /\ had \in Nat
  <2>1. S \in SetT
    BY <1>1
  <2> HIDE DEF S
  <2> QED
    BY <2>1, SetTFacts
<1>3. IsFiniteSet(P)
  BY <1>2, SetsAreFinite, FS_Subset
<1>4. PICK n \in Nat : /\ order \in [1 .. n -> P] /\ P = {order[i] : i \in 1 .. n}
                       /\ \A i, j \in 1 .. n : i # j => order[i] # order[j]
  <2> HIDE DEF P
  <2>1. order \in SetToSeqs(P)
    BY DEF P
  <2> QED
    BY <1>3, <2>1, OrderFacts
<1>5. order \in Seq(Dscs) /\ Len(order) = n
  <2>1. order \in [1 .. n -> Dscs]
    BY <1>2, <1>4
  <2> QED
    BY <2>1, FunctionIsSeq
<1>6. \A i \in 1 .. Len(order) : w.dsc[order[i]].data \in DataOf(order[i])
  <2>1. \A d \in P : w.dsc[d].owner = s /\ d \in Dscs
    BY <1>1, <1>2 DEF GoodSets
  <2>2. \A d \in P : w.dsc[d].data \in DataOf(d)
    BY <1>1, <2>1, SetsAreFinite DEF GoodDscs
  <2> HIDE DEF P
  <2> QED
    BY <1>4, <1>5, <2>2
<1>7. PICK g \in [0 .. Len(order) -> OnlyPlaces(w, s)] :
        /\ PlacesOneByOne(w, s, order, g)
        /\ Allocated(w, s, order) = Filled(g[Len(order)], s, had)
  BY <1>1, <1>5, <1>6, AllocatedFacts
<1>8. g[0] = w /\ \A k \in 1 .. n : g[k] = Placed(g[k - 1], s, order[k])
  BY <1>5, <1>7 DEF PlacesOneByOne
<1> DEFINE u == g[n]
           v == Allocated(w, s, order)
<1>9. Placing(u, s, {}, had) /\ SamePlans(w, u, s)
  <2>1. Placing(w, s, P, had)
    OBVIOUS
  <2> HIDE DEF P, had
  <2> QED
    BY <1>2, <1>4, <1>8, <2>1, AllPlaced
<1>10. v = Filled(u, s, had)
  BY <1>5, <1>7
<1> HIDE DEF u, v, had
<1>11. Placing(v, s, {}, Len(v.sets[s].cells)) /\ SamePlans(u, v, s)
  BY <1>2, <1>9, <1>10, FilledStage
<1>12. SamePlans(w, v, s)
  BY <1>9, <1>11, SamePlansThrough
<1> QED
  BY <1>11, <1>12 DEF v

(* The sync of a set: the records *)

\* The checksum is the one of the records there are then.
LEMMA WrittenSum ==
  ASSUME NEW ds \in [Dscs -> DscT], GoodDscs(ds), NEW es, NEW s \in Sets,
         NEW D \in SUBSET Members(ds, s), \A d \in D : d # Root /\ ds[d].data \in DataOf(d),
         Members(es, s) = Members(ds, s),
         \A d \in D : es[d].written = {Record(d, ds[d])},
         \A d \in Members(ds, s) \ D : es[d].written = ds[d].written
  PROVE  SumWithout(SetToBag(Records(ds, s)), ds, D) (+) SetToBag({Record(d, ds[d]) : d \in D})
           = SetToBag(Records(es, s))
<1> DEFINE M == Members(ds, s)
           A == Records(ds, s)
           B == UNION {ds[d].written : d \in D}
           N == {Record(d, ds[d]) : d \in D}
<1>1. M \subseteq Dscs
  BY DEF Members
<1>2. \A d \in M : \A R \in ds[d].written : R.dsc = d
  BY <1>1, RecordsOfOne
<1>3. \A d \in D : Record(d, ds[d]).dsc = d
  BY DEF Record
<1> HIDE DEF M
<1>4. A = UNION {ds[d].written : d \in M} /\ Records(es, s) = UNION {es[d].written : d \in M}
  BY DEF Records, M
<1>5. D \subseteq M /\ \A d \in M \ D : es[d].written = ds[d].written
  BY DEF M
<1>6. (A \ B) \cap N = {}
  <2> SUFFICES ASSUME NEW R \in A \ B, R \in N PROVE FALSE
    OBVIOUS
  <2>1. PICK e \in M : R \in ds[e].written
    BY <1>4
  <2>2. PICK d \in D : R = Record(d, ds[d])
    OBVIOUS
  <2>3. e = d
    BY <1>2, <1>3, <2>1, <2>2
  <2> QED
    BY <2>1, <2>2, <2>3
<1>7. (A \ B) \cup N = Records(es, s)
  <2>1. ASSUME NEW R \in (A \ B) \cup N PROVE R \in Records(es, s)
    <3>1. CASE R \in N
      <4>1. PICK d \in D : R = Record(d, ds[d])
        BY <3>1
      <4>2. R \in es[d].written /\ d \in M
        BY <1>5, <4>1
      <4> QED
        BY <1>4, <4>2
    <3>2. CASE R \in A \ B
      <4>1. PICK d \in M : R \in ds[d].written
        BY <1>4, <3>2
      <4>2. d \notin D
        BY <3>2, <4>1
      <4>3. R \in es[d].written
        BY <1>5, <4>1, <4>2
      <4> QED
        BY <1>4, <4>3
    <3> QED
      BY <2>1, <3>1, <3>2
  <2>2. ASSUME NEW R \in Records(es, s) PROVE R \in (A \ B) \cup N
    <3>1. PICK d \in M : R \in es[d].written
      BY <1>4, <2>2
    <3>2. CASE d \in D
      BY <3>1, <3>2
    <3>3. CASE d \notin D
      <4>1. R \in ds[d].written
        BY <1>5, <3>1, <3>3
      <4>2. R \notin B
        <5> SUFFICES ASSUME NEW e \in D, R \in ds[e].written PROVE FALSE
          OBVIOUS
        <5>1. e \in M
          BY <1>5
        <5>2. e = d
          BY <1>2, <4>1, <5>1
        <5> QED
          BY <3>3, <5>2
      <4> QED
        BY <1>4, <4>1, <4>2
    <3> QED
      BY <3>2, <3>3
  <2> QED
    BY <2>1, <2>2
<1> HIDE DEF A, B, N
<1>8. SetToBag(A) (-) SetToBag(B) = SetToBag(A \ B)
  BY BagFacts
<1>9. SetToBag(A \ B) (+) SetToBag(N) = SetToBag((A \ B) \cup N)
  BY <1>6, BagFacts
<1>10. (SetToBag(A) (-) SetToBag(B)) (+) SetToBag(N) = SetToBag(Records(es, s))
  BY <1>7, <1>8, <1>9
<1> QED
  BY <1>10 DEF SumWithout, A, B, N

\* With everyone in its place, every cell has what it should once the pending
\* records are written.
LEMMA WrittenCells ==
  ASSUME NEW w, Fine(w), NEW s \in Sets,
         PlaceInv(w.dsc, w.sets[s], s, {}, Len(w.sets[s].cells)),
         NEW v, WrittenWith(w, v, s)
  PROVE  /\ CellInv(v.dsc, v.sets[s], s)
         /\ v.sets[s].to_add = {} /\ v.sets[s].to_update = {} /\ v.sets[s].to_remove = {}
         /\ v.sets[s].to_destroy = w.sets[s].to_destroy /\ v.sets[s].segm = w.sets[s].segm
         /\ \A t \in Sets \ {s} : v.sets[t] = w.sets[t]
         /\ \A d \in Dscs : /\ v.dsc[d].owner = w.dsc[d].owner /\ v.dsc[d].data = w.dsc[d].data
                            /\ v.dsc[d].pid = w.dsc[d].pid /\ v.dsc[d].content = w.dsc[d].content
                            /\ d \in ToWrite(w, s) => /\ v.dsc[d].written = {Record(d, v.dsc[d])}
                                                      /\ ~ v.dsc[d].notified
                            /\ d \notin ToWrite(w, s) => v.dsc[d] = w.dsc[d]
<1> DEFINE S == w.sets[s]
           T == v.sets[s]
           ds == w.dsc
           es == v.dsc
           D == ToWrite(w, s)
           M == Members(ds, s)
           q == [c \in DOMAIN S.cells |-> WrittenCell(w, s, c)]
<1>1. /\ ds \in [Dscs -> DscT] /\ w.sets \in [Sets -> SetT] /\ GoodDscs(ds)
      /\ GoodSets(ds, w.sets)
  BY WTFacts DEF Fine
<1>2. S \in SetT
  BY <1>1
<1>3. /\ S.past \in Nat /\ S.used \in SUBSET Nat /\ S.cells \in Seq(Cell)
      /\ Len(S.cells) \in Nat /\ DOMAIN S.cells = 1 .. Len(S.cells)
  BY <1>2, SetTFacts
<1>4. /\ Room(S) /\ Claimed(ds, S, s) /\ S.to_remove = {} /\ Cleared(S, Len(S.cells))
      /\ \A d \in M :
           /\ ds[d].ext # {}
           /\ d \in S.to_add \cup S.to_update => IsPlaced(d, ds[d])
           /\ d \notin S.to_add \cup S.to_update => Stays(S, d, ds[d], Len(S.cells))
      /\ S.sum = SetToBag(Records(ds, s)) /\ (S.past = 0 => M = {})
  BY DEF PlaceInv
<1>5. D = S.to_update \cup S.to_add
  BY DEF ToWrite
<1>6. ASSUME NEW d \in D
      PROVE  d \in Dscs /\ d # Root /\ ds[d].owner = s /\ ds[d].data \in DataOf(d) /\ d \in M
  <2>1. d \in Dscs \ {Root} /\ ds[d].owner = s /\ ds[d].data \in DataOf(d)
    BY ToWriteFacts
  <2> QED
    BY <2>1 DEF Members
<1>7. ASSUME NEW d \in Dscs
      PROVE  /\ es[d].owner = ds[d].owner /\ es[d].data = ds[d].data /\ es[d].pid = ds[d].pid
             /\ es[d].content = ds[d].content /\ es[d].ext = ds[d].ext
             /\ d \in D => es[d].written = {Record(d, ds[d])} /\ ~ es[d].notified
             /\ d \notin D => es[d] = ds[d]
  <2>1. PICK r, x : r \in DscT /\ r = ds[d] /\ x = {Record(d, r)}
    BY <1>1
  <2>2. d \in D => es[d] = [r EXCEPT !.written = x, !.notified = FALSE]
    BY <2>1 DEF WrittenWith
  <2>3. d \notin D => es[d] = r
    BY <2>1 DEF WrittenWith
  <2>4. LET p == [r EXCEPT !.written = x, !.notified = FALSE]
        IN /\ p.owner = r.owner /\ p.data = r.data /\ p.pid = r.pid /\ p.content = r.content
           /\ p.ext = r.ext /\ p.written = x /\ p.notified = FALSE
    BY DEF DscT
  <2> HIDE DEF es, D, ds
  <2> QED
    BY <2>1, <2>2, <2>3, <2>4
<1>8. ASSUME NEW d \in Dscs PROVE Record(d, es[d]) = Record(d, ds[d])
  BY <1>7 DEF Record
<1>9. /\ v.sets = [w.sets EXCEPT ![s] = [S EXCEPT !.cells = q, !.to_add = {}, !.to_update = {},
                                                  !.sum = NewSum(w, s)]]
  BY DEF WrittenWith
<1>10. PICK sum : sum = NewSum(w, s)
  OBVIOUS
<1>11. Len(q) = Len(S.cells) /\ DOMAIN q = 1 .. Len(S.cells)
       /\ \A c \in 1 .. Len(S.cells) : q[c] = WrittenCell(w, s, c)
  <2>1. q = [c \in 1 .. Len(S.cells) |-> WrittenCell(w, s, c)]
    BY <1>3
  <2> HIDE DEF q, S
  <2>2. DOMAIN q = 1 .. Len(S.cells)
    BY <2>1
  <2>3. Len(q) = Len(S.cells)
    BY <1>3, <2>2
  <2> QED
    BY <2>1, <2>2, <2>3
<1> HIDE DEF q
<1>12. /\ T.segm = S.segm /\ T.past = S.past /\ T.used = S.used /\ T.cells = q
       /\ T.to_add = {} /\ T.to_update = {} /\ T.to_remove = S.to_remove
       /\ T.to_destroy = S.to_destroy /\ T.sum = sum
       /\ \A t \in Sets \ {s} : v.sets[t] = w.sets[t]
  <2>1. T = [S EXCEPT !.cells = q, !.to_add = {}, !.to_update = {}, !.sum = sum]
        /\ \A t \in Sets \ {s} : v.sets[t] = w.sets[t]
    BY <1>1, <1>9, <1>10
  <2> QED
    BY ONLY <1>2, <2>1 DEF SetT
<1>13. ASSUME NEW c \in 1 .. Len(S.cells)
       PROVE  /\ c <= HeaderCells => q[c] = Header
              /\ c > HeaderCells /\ (\A d \in D : c \notin ds[d].ext) => q[c] = S.cells[c]
              /\ \A d \in D : c > HeaderCells /\ c \in ds[d].ext
                                /\ (\A e \in D \ {d} : c \notin ds[e].ext)
                                => q[c] = PartOf(Record(d, ds[d]), c - Min(ds[d].ext) + 1)
  <2> DEFINE at == {d \in D : c \in ds[d].ext}
  <2>0. c \in Nat /\ HeaderCells \in Nat
    BY SetsAssumption
  <2>1. q[c] = IF c <= HeaderCells THEN Header
               ELSE IF at = {} THEN S.cells[c]
               ELSE PartOf(Record(CHOOSE d \in at : TRUE, ds[CHOOSE d \in at : TRUE]),
                           c - Min(ds[CHOOSE d \in at : TRUE].ext) + 1)
    BY <1>11 DEF WrittenCell
  <2>2. \A d \in D : c \in ds[d].ext /\ (\A e \in D \ {d} : c \notin ds[e].ext) => at = {d}
    OBVIOUS
  <2>3. \A d : at = {d} => (CHOOSE e \in at : TRUE) = d
    OBVIOUS
  <2>4. (\A d \in D : c \notin ds[d].ext) => at = {}
    OBVIOUS
  <2> HIDE DEF at, S, ds, D
  <2>5. ASSUME NEW d \in D, c > HeaderCells, c \in ds[d].ext, \A e \in D \ {d} : c \notin ds[e].ext
        PROVE  q[c] = PartOf(Record(d, ds[d]), c - Min(ds[d].ext) + 1)
    <3>1. at = {d}
      BY <2>2, <2>5
    <3>2. (CHOOSE e \in at : TRUE) = d /\ at # {} /\ ~ (c <= HeaderCells)
      BY <2>0, <2>3, <2>5, <3>1
    <3> QED
      BY <2>1, <3>2
  <2>6. ASSUME c > HeaderCells PROVE ~ (c <= HeaderCells)
    BY <2>0, <2>6
  <2> QED
    BY <2>0, <2>1, <2>4, <2>5, <2>6
<1> HIDE DEF S, T, ds, es, D, M
<1>14. /\ S.used = HeaderOf(S) \cup UNION {ds[d].ext : d \in M}
       /\ \A d \in M : /\ ds[d].ext \cap HeaderOf(S) = {}
                       /\ \A e \in M : d # e => ds[d].ext \cap ds[e].ext = {}
  BY <1>4 DEF Claimed, M
<1>15. /\ HeaderOf(S) \subseteq S.used /\ S.used \subseteq 1 .. S.past /\ S.past <= Len(S.cells)
       /\ S.past = 0 => S.segm = <<>>
       /\ Len(S.cells) = Len(S.segm) * CellsPerBlk
  BY <1>4 DEF Room
<1>16. HeaderOf(T) = HeaderOf(S) /\ (S.past # 0 => HeaderOf(S) = 1 .. HeaderCells)
  BY <1>12 DEF HeaderOf
<1>17. Members(es, s) = M
  BY <1>7 DEF Members, M
<1>18. M \subseteq Dscs
  BY DEF M, Members
<1>19. ASSUME NEW d \in M, NEW c \in ds[d].ext
       PROVE  c \in 1 .. Len(S.cells) /\ c > HeaderCells /\ \A e \in D \ {d} : c \notin ds[e].ext
  <2>1. c \in S.used
    BY <1>14
  <2>2. c \in Nat /\ c # 0 /\ c <= Len(S.cells)
    BY <1>3, <1>15, <2>1
  <2>3. c \notin 1 .. HeaderCells
    BY <1>4, <1>14, <1>16
  <2>4. \A e \in D \ {d} : c \notin ds[e].ext
    BY <1>6, <1>14
  <2>5. HeaderCells \in Nat
    BY SetsAssumption
  <2> QED
    BY <1>3, <2>2, <2>3, <2>4, <2>5
<1>20. Room(T)
  BY <1>11, <1>12, <1>15, <1>16 DEF Room
<1>21. Claimed(es, T, s)
  <2>1. \A d \in M : es[d].ext = ds[d].ext
    BY <1>7, <1>18
  <2>2. UNION {es[d].ext : d \in M} = UNION {ds[d].ext : d \in M}
    BY <2>1
  <2>3. T.to_remove = {} /\ UNION T.to_remove = {}
    BY <1>4, <1>12
  <2> QED
    BY <1>12, <1>14, <1>16, <1>17, <2>1, <2>2, <2>3 DEF Claimed
<1>22. ASSUME NEW d \in M
       PROVE  /\ es[d].ext = {} <=> d \in T.to_add
              /\ \E R \in es[d].written : HasRecord(T, d, es[d], R)
              /\ \A R \in es[d].written : R.pid = es[d].pid
  <2>0. d \in Dscs /\ es[d].ext = ds[d].ext /\ ds[d].ext # {} /\ T.to_add = {}
    BY <1>4, <1>7, <1>12, <1>18
  <2>1. CASE d \in D
    <3> DEFINE R == Record(d, ds[d])
    <3>1. es[d].written = {R} /\ R.pid = es[d].pid /\ R.data = ds[d].data /\ R.pid = ds[d].pid
      BY <1>7, <2>0, <2>1 DEF Record
    <3>2. PICK lo \in Pos : ds[d].ext = lo .. lo + Footprint(d, ds[d]) - 1
      BY <1>4, <1>5, <2>1 DEF IsPlaced
    <3>3. Footprint(d, R) = Footprint(d, ds[d])
      BY <3>1 DEF Footprint
    <3>4. PICK n \in Pos : n = Footprint(d, ds[d])
      BY <1>6, <2>0, <2>1, FootprintFacts
    <3>5. Min(ds[d].ext) = lo
      BY <3>2, <3>4, IntervalFacts
    <3>6. \A c \in es[d].ext : T.cells[c] = PartOf(R, c - lo + 1)
      <4> SUFFICES ASSUME NEW c \in ds[d].ext PROVE T.cells[c] = PartOf(R, c - lo + 1)
        BY <2>0
      <4>1. c \in 1 .. Len(S.cells) /\ c > HeaderCells /\ \A e \in D \ {d} : c \notin ds[e].ext
        BY <1>19
      <4>2. q[c] = PartOf(R, c - Min(ds[d].ext) + 1)
        BY <1>13, <2>1, <4>1
      <4> QED
        BY <1>12, <3>5, <4>2
    <3> HIDE DEF R
    <3>7. HasRecord(T, d, es[d], R)
      BY <2>0, <3>1, <3>2, <3>3, <3>6 DEF HasRecord
    <3> QED
      BY <2>0, <3>1, <3>7
  <2>2. CASE d \notin D
    <3>1. es[d] = ds[d]
      BY <1>7, <2>0, <2>2
    <3>2. PICK R \in ds[d].written : HasRecord(S, d, ds[d], R) /\ R.pid = ds[d].pid
      BY <1>4, <1>5, <2>2 DEF Stays
    <3>3. \A c \in ds[d].ext : T.cells[c] = S.cells[c]
      <4> SUFFICES ASSUME NEW c \in ds[d].ext PROVE T.cells[c] = S.cells[c]
        OBVIOUS
      <4>1. c \in 1 .. Len(S.cells) /\ c > HeaderCells /\ \A e \in D : c \notin ds[e].ext
        BY <1>19, <2>2
      <4> QED
        BY <1>12, <1>13, <4>1
    <3>4. HasRecord(T, d, ds[d], R)
      BY <3>2, <3>3 DEF HasRecord
    <3>5. ds[d].written = {R}
      BY <3>2 DEF HasRecord
    <3> QED
      BY <2>0, <3>1, <3>2, <3>4, <3>5
  <2> QED
    BY <2>1, <2>2
<1>23. Recorded(es, T, s)
  BY <1>17, <1>22 DEF Recorded
<1>24. Padded(T)
  <2> SUFFICES ASSUME NEW c \in 1 .. Len(S.cells)
               PROVE  /\ c <= HeaderCells => q[c] = Header
                      /\ c \notin S.used => q[c] \in {Zero, Old} /\ (c \notin Leftover => q[c] = Zero)
    BY <1>11, <1>12 DEF Padded
  <2>1. c <= HeaderCells => q[c] = Header
    BY <1>13
  <2>2. ASSUME c \notin S.used PROVE Blank(c, q[c])
    <3>1. S.past # 0
      <4> SUFFICES ASSUME S.past = 0 PROVE FALSE
        OBVIOUS
      <4>1. Len(S.cells) = 0
        <5>1. Len(S.segm) = 0
          BY <1>15
        <5>2. CellsPerBlk \in Nat
          BY SetsAssumption
        <5> QED
          BY <1>15, <5>1, <5>2
      <4> QED
        BY <4>1
    <3>2. c \notin 1 .. HeaderCells
      BY <1>15, <1>16, <2>2, <3>1
    <3>3. c > HeaderCells
      <4>1. HeaderCells \in Nat /\ c \in Nat /\ c # 0
        BY <1>3, SetsAssumption
      <4> QED
        BY <3>2, <4>1
    <3>4. \A d \in D : c \notin ds[d].ext
      BY <1>6, <1>14, <2>2
    <3>5. q[c] = S.cells[c]
      BY <1>13, <3>3, <3>4
    <3> QED
      BY <1>4, <2>2, <3>3, <3>5 DEF Cleared
  <2> QED
    BY <2>1, <2>2 DEF Blank
<1>25. sum = SetToBag(Records(es, s))
  <2>1. D \in SUBSET M /\ \A d \in D : d # Root /\ ds[d].data \in DataOf(d)
    BY <1>6
  <2>2. /\ \A d \in D : es[d].written = {Record(d, ds[d])}
        /\ \A d \in M \ D : es[d].written = ds[d].written
    BY <1>7, <1>18, <2>1
  <2>3. NewSum(w, s) = SumWithout(S.sum, ds, D) (+) SetToBag({Record(d, ds[d]) : d \in D})
    BY DEF NewSum, S, ds, D
  <2>4. SumWithout(SetToBag(Records(ds, s)), ds, D) (+) SetToBag({Record(d, ds[d]) : d \in D})
          = SetToBag(Records(es, s))
    BY <1>1, <1>17, <2>1, <2>2, WrittenSum DEF M
  <2> QED
    BY <1>4, <1>10, <2>3, <2>4
<1>26. CellInv(es, T, s)
  BY <1>12, <1>20, <1>21, <1>23, <1>24, <1>25 DEF CellInv
<1>27. T.to_remove = {}
  BY <1>4, <1>12
<1>28. \A d \in Dscs : d \in D => es[d].written = {Record(d, es[d])}
  BY <1>7, <1>8
<1> QED
  BY <1>7, <1>12, <1>26, <1>27, <1>28 DEF S, T, ds, es, D

\* A set that was just written has nothing pending.
Settled(S) == S.to_add = {} /\ S.to_update = {} /\ S.to_remove = {} /\ S.to_destroy = {}

\* The plain descriptors of s are up to date, or were not pending and did
\* not change, and the ones of the other sets are as they were.
UpToDate(w, v, s) ==
  /\ \A d \in Dscs : Rooted(w.dsc, d) => Rooted(v.dsc, d)
  /\ \A d \in Plain : v.dsc[d].owner = s =>
       \/ v.dsc[d].written = {Record(d, v.dsc[d])} /\ ~ v.dsc[d].notified
       \/ SameDsc(w.dsc[d], v.dsc[d]) /\ d \notin ToWrite(w, s)
  /\ Elsewhere(w, v, s)

LEMMA UpToDateKept ==
  ASSUME NEW u, NEW w, NEW v, NEW s, UpToDate(u, w, s),
         \A d \in Plain : v.dsc[d] = w.dsc[d],
         \A t \in Sets : w.sets[t].to_add \cup w.sets[t].to_update
                           \subseteq v.sets[t].to_add \cup v.sets[t].to_update,
         \A d \in Dscs : v.dsc[d].owner = w.dsc[d].owner,
         w.dsc \in [Dscs -> DscT]
  PROVE  UpToDate(u, v, s)
<1>1. Owners(v.dsc) = Owners(w.dsc)
  BY DEF Owners
<1>2. \A d \in Dscs : Rooted(u.dsc, d) => Rooted(v.dsc, d)
  BY <1>1 DEF UpToDate, Rooted
<1>3. Elsewhere(u, v, s)
  <2> SUFFICES ASSUME NEW d \in Plain, v.dsc[d].owner \notin {NoSet, s}
               PROVE  /\ v.dsc[d] = u.dsc[d]
                      /\ LET o == v.dsc[d].owner
                         IN u.sets[o].to_add \cup u.sets[o].to_update
                              \subseteq v.sets[o].to_add \cup v.sets[o].to_update
    BY DEF Elsewhere
  <2> DEFINE o == v.dsc[d].owner
  <2>1. v.dsc[d] = w.dsc[d] /\ o \in Sets
    BY SetsAreFinite, DscTFacts
  <2>2. w.dsc[d] = u.dsc[d] /\ u.sets[o].to_add \cup u.sets[o].to_update
                                 \subseteq w.sets[o].to_add \cup w.sets[o].to_update
    BY <2>1 DEF UpToDate, Elsewhere
  <2> QED
    BY <2>1, <2>2
<1>4. \A d \in Plain : v.dsc[d].owner = s =>
        \/ v.dsc[d].written = {Record(d, v.dsc[d])} /\ ~ v.dsc[d].notified
        \/ SameDsc(u.dsc[d], v.dsc[d]) /\ d \notin ToWrite(u, s)
  BY DEF UpToDate
<1> QED
  BY <1>2, <1>3, <1>4 DEF UpToDate

LEMMA UnforgottenAfter ==
  ASSUME NEW w, NEW v, NEW s \in Sets, UpToDate(w, v, s), NEW fresh, Unforgotten(w, fresh)
  PROVE  Unforgotten(v, fresh)
<1> SUFFICES ASSUME NEW d \in Plain, v.dsc[d].owner # NoSet
             PROVE  \/ v.dsc[d].written = {Record(d, v.dsc[d])} /\ ~ (fresh /\ v.dsc[d].notified)
                    \/ d \in v.sets[v.dsc[d].owner].to_add \cup v.sets[v.dsc[d].owner].to_update
  BY DEF Unforgotten
<1>1. CASE v.dsc[d].owner = s
  <2>1. CASE v.dsc[d].written = {Record(d, v.dsc[d])} /\ ~ v.dsc[d].notified
    BY <2>1
  <2>2. CASE SameDsc(w.dsc[d], v.dsc[d]) /\ d \notin ToWrite(w, s)
    <3>1. w.dsc[d].owner = s /\ d \notin w.sets[s].to_add \cup w.sets[s].to_update
          /\ s # NoSet
      BY <1>1, <2>2, SetsAreFinite DEF SameDsc, ToWrite
    <3>2. w.dsc[d].written = {Record(d, w.dsc[d])} /\ ~ (fresh /\ w.dsc[d].notified)
      BY <3>1 DEF Unforgotten
    <3>3. Record(d, v.dsc[d]) = Record(d, w.dsc[d])
      BY <2>2 DEF SameDsc, Record
    <3> QED
      BY <2>2, <3>2, <3>3 DEF SameDsc
  <2> QED
    BY <1>1, <2>1, <2>2 DEF UpToDate
<1>2. CASE v.dsc[d].owner # s
  <2>1. /\ v.dsc[d] = w.dsc[d]
        /\ w.sets[v.dsc[d].owner].to_add \cup w.sets[v.dsc[d].owner].to_update
             \subseteq v.sets[v.dsc[d].owner].to_add \cup v.sets[v.dsc[d].owner].to_update
    BY <1>2 DEF UpToDate, Elsewhere
  <2> QED
    BY <2>1 DEF Unforgotten
<1> QED
  BY <1>1, <1>2

LEMMA WrittenStage ==
  ASSUME NEW u, NEW w, NEW s \in Sets, Placing(w, s, {}, Len(w.sets[s].cells)),
         SameSoFar(u, w, s), ToWrite(u, s) \subseteq ToWrite(w, s), NEW v, v = Written(w, s)
  PROVE  /\ Inv(v) /\ Settled(v.sets[s]) /\ UpToDate(u, v, s)
         /\ v.in_use = w.in_use /\ v.dirty = w.dirty
<1>1. /\ Fine(w) /\ TreeInv(w) /\ BlockInv(w) /\ OthersInv(w, s) /\ Rooted(w.dsc, s)
      /\ PlaceInv(w.dsc, w.sets[s], s, {}, Len(w.sets[s].cells)) /\ w.sets[s].to_destroy = {}
  BY DEF Placing, Mid
<1>2. /\ w.dsc \in [Dscs -> DscT] /\ w.sets \in [Sets -> SetT] /\ s \in Dscs /\ NoSet \notin Sets
      /\ GoodDscs(w.dsc) /\ GoodSets(w.dsc, w.sets) /\ Plain \subseteq Dscs
  BY <1>1, WTFacts, SetsAreFinite DEF Fine
<1>3. Fine(v) /\ WrittenWith(w, v, s)
  BY <1>1, WrittenFacts
<1>4. /\ CellInv(v.dsc, v.sets[s], s)
      /\ v.sets[s].to_add = {} /\ v.sets[s].to_update = {} /\ v.sets[s].to_remove = {}
      /\ v.sets[s].to_destroy = w.sets[s].to_destroy /\ v.sets[s].segm = w.sets[s].segm
      /\ \A t \in Sets \ {s} : v.sets[t] = w.sets[t]
      /\ \A d \in Dscs : /\ v.dsc[d].owner = w.dsc[d].owner /\ v.dsc[d].data = w.dsc[d].data
                         /\ v.dsc[d].pid = w.dsc[d].pid /\ v.dsc[d].content = w.dsc[d].content
                         /\ d \in ToWrite(w, s) => /\ v.dsc[d].written = {Record(d, v.dsc[d])}
                                                   /\ ~ v.dsc[d].notified
                         /\ d \notin ToWrite(w, s) => v.dsc[d] = w.dsc[d]
  BY <1>1, <1>3, WrittenCells
<1>5. v.in_use = w.in_use /\ v.dirty = w.dirty
  BY <1>3 DEF WrittenWith
<1>6. \A d \in ToWrite(w, s) : d \in Dscs /\ w.dsc[d].owner = s
  BY <1>1, ToWriteFacts
<1>7. SameTree(w, v)
  BY <1>4 DEF SameTree
<1>8. TreeInv(v)
  <2>1. \A t \in Sets : v.sets[t].to_destroy # {} => v.sets[t].to_remove # {}
    <3>1. v.sets[s].to_destroy = {}
      BY <1>1, <1>4
    <3>2. \A t \in Sets \ {s} : v.sets[t].to_destroy # {} => v.sets[t].to_remove # {}
      BY <1>1, <1>4 DEF TreeInv
    <3> QED
      BY <3>1, <3>2
  <2>2. IsThere(w, s)
    BY <1>1, <1>2, RootedHolders
  <2>3. \A x \in Dscs : ~ IsThere(w, x) => /\ v.dsc[x] = w.dsc[x]
                                           /\ x \in Sets => v.sets[x] = w.sets[x]
    <3> SUFFICES ASSUME NEW x \in Dscs, ~ IsThere(w, x)
                 PROVE  v.dsc[x] = w.dsc[x] /\ (x \in Sets => v.sets[x] = w.sets[x])
      OBVIOUS
    <3>1. w.dsc[x].owner = NoSet
      BY <1>1 DEF TreeInv, Absent
    <3>2. x \notin ToWrite(w, s) /\ x # s
      BY <1>2, <1>6, <2>2, <3>1
    <3> QED
      BY <1>4, <3>2
  <2> QED
    BY <1>1, <1>7, <2>1, <2>3, TreeKept
<1>9. BlockInv(v)
  <2>1. \A x \in Dscs : IsThere(v, x) => IsThere(w, x)
    BY <1>7, SameTreeFacts
  <2>2. \A t \in Sets : v.sets[t].segm = w.sets[t].segm
    BY <1>4
  <2> QED
    BY <1>1, <1>4, <1>5, <2>1, <2>2, BlocksKept
<1>10. OthersInv(v, s)
  <2>1. \A x \in Dscs : /\ v.dsc[x].owner = w.dsc[x].owner
                        /\ w.dsc[x].owner # s => v.dsc[x] = w.dsc[x]
    BY <1>4, <1>6
  <2> QED
    BY <1>1, <1>4, <2>1, OthersKept
<1>11. Inv(v)
  BY <1>3, <1>4, <1>8, <1>9, <1>10 DEF Inv, OthersInv
<1>12. Settled(v.sets[s])
  BY <1>1, <1>4 DEF Settled
<1>13. UpToDate(u, v, s)
  <2>1. \A d \in Dscs : Rooted(u.dsc, d) => Rooted(v.dsc, d)
    <3>1. \A d \in Dscs : Rooted(w.dsc, d) <=> Rooted(v.dsc, d)
      BY <1>7, SameTreeFacts
    <3> QED
      BY <3>1 DEF SameSoFar
  <2>2. ASSUME NEW d \in Plain, v.dsc[d].owner = s
        PROVE  \/ v.dsc[d].written = {Record(d, v.dsc[d])} /\ ~ v.dsc[d].notified
               \/ SameDsc(u.dsc[d], v.dsc[d]) /\ d \notin ToWrite(u, s)
    <3>0. d \in Dscs
      BY <1>2
    <3>1. CASE d \in ToWrite(w, s)
      BY <1>4, <3>0, <3>1
    <3>2. CASE d \notin ToWrite(w, s)
      <4>1. v.dsc[d] = w.dsc[d] /\ d \notin ToWrite(u, s)
        BY <1>4, <3>0, <3>2
      <4>2. d \in Members(w.dsc, s) /\ Members(w.dsc, s) = Members(u.dsc, s)
        BY <2>2, <3>0, <4>1 DEF Members, SameSoFar
      <4> QED
        BY <4>1, <4>2 DEF SameSoFar
    <3> QED
      BY <3>1, <3>2
  <2>3. Elsewhere(u, v, s)
    <3> SUFFICES ASSUME NEW d \in Plain, v.dsc[d].owner \notin {NoSet, s}
                 PROVE  /\ v.dsc[d] = u.dsc[d]
                        /\ LET o == v.dsc[d].owner
                           IN u.sets[o].to_add \cup u.sets[o].to_update
                                \subseteq v.sets[o].to_add \cup v.sets[o].to_update
      BY DEF Elsewhere
    <3>1. d \in Dscs /\ d \notin ToWrite(w, s) /\ v.dsc[d] = w.dsc[d]
      BY <1>2, <1>4, <1>6
    <3>2. v.dsc[d].owner \in Sets \ {s}
      BY <1>2, <3>1, DscTFacts
    <3>3. v.sets[v.dsc[d].owner] = w.sets[v.dsc[d].owner]
      BY <1>4, <3>2
    <3> QED
      BY <3>1, <3>3 DEF SameSoFar, Elsewhere
  <2> QED
    BY <2>1, <2>2, <2>3 DEF UpToDate
<1> QED
  BY <1>5, <1>11, <1>12, <1>13

(* The sync of a set: its segment and its owner *)

\* The memory after the sync of s wrote the records, and after each of the
\* steps that follow.
Synced(u, v, s) == Inv(v) /\ Rooted(v.dsc, s) /\ Settled(v.sets[s]) /\ UpToDate(u, v, s)

\* The owner of a set of the tree is another one.
LEMMA OwnerIsOther ==
  ASSUME NEW w, Fine(w), NEW s \in Sets, Rooted(w.dsc, s), s # Root
  PROVE  w.dsc[s].owner \in Sets /\ w.dsc[s].owner # s /\ Rooted(w.dsc, w.dsc[s].owner)
<1>1. w.dsc \in [Dscs -> DscT] /\ GoodDscs(w.dsc) /\ s \in Dscs /\ s \in Dscs \ {Root} /\ Root \in Dscs
  BY WTFacts, SetsAreFinite DEF Fine
<1>2. w.dsc[s].owner \in Sets /\ Rooted(w.dsc, w.dsc[s].owner) /\ w.dsc[Root].owner = NoSet
  BY <1>1, RootedFacts
<1>3. Owners(w.dsc) \in Ups /\ Owners(w.dsc)[s] = w.dsc[s].owner /\ Owners(w.dsc)[Root] = NoSet
  BY <1>1, <1>2, OwnersAreUps
<1>4. Owners(w.dsc)[s] # s
  BY <1>1, <1>3, NoCycle DEF Rooted
<1> QED
  BY <1>2, <1>3, <1>4

LEMMA NotifiesStage ==
  ASSUME NEW u, NEW w, NEW s \in Sets, Synced(u, w, s), NEW segm, NEW v, v = Notifies(w, s, segm)
  PROVE  Synced(u, v, s) /\ v.in_use = w.in_use /\ v.dirty = w.dirty
<1>1. Inv(w) /\ Fine(w) /\ Rooted(w.dsc, s) /\ Settled(w.sets[s]) /\ UpToDate(u, w, s)
  BY DEF Synced, Inv
<1>2. /\ w \in WT /\ w.dsc \in [Dscs -> DscT] /\ w.sets \in [Sets -> SetT] /\ GoodDscs(w.dsc)
      /\ GoodSets(w.dsc, w.sets) /\ s \in Dscs /\ Plain \cap Sets = {} /\ Plain \subseteq Dscs
  BY <1>1, WTFacts, SetsAreFinite DEF Fine
<1>3. s # Root => w.dsc[s].owner \in Sets /\ w.dsc[s].owner # s /\ Rooted(w.dsc, w.dsc[s].owner)
  BY <1>1, OwnerIsOther
<1>4. Fine(v) /\ NotifiesWith(w, v, s)
  BY <1>1, <1>3, NotifiesFacts
<1>5. CASE v = w
  BY <1>5
<1>6. CASE v # w
  <2> DEFINE o == w.dsc[s].owner
  <2>1. /\ s # Root /\ v.in_use = w.in_use /\ v.dirty = w.dirty
        /\ v.dsc = [w.dsc EXCEPT ![s] = [@ EXCEPT !.notified = TRUE]]
        /\ NotifiedWith(w, v.sets, o, s)
    BY <1>4, <1>6 DEF NotifiesWith
  <2>2. o \in Sets /\ o # s /\ Rooted(w.dsc, o) /\ o # NoSet
    BY <1>3, <2>1, SetsAreFinite
  <2>3. /\ v.sets[o].segm = w.sets[o].segm /\ v.sets[o].past = w.sets[o].past
        /\ v.sets[o].used = w.sets[o].used /\ v.sets[o].cells = w.sets[o].cells
        /\ v.sets[o].to_add = w.sets[o].to_add
        /\ v.sets[o].to_update \in {w.sets[o].to_update, w.sets[o].to_update \cup {s}}
        /\ v.sets[o].to_remove = w.sets[o].to_remove
        /\ v.sets[o].to_destroy = w.sets[o].to_destroy /\ v.sets[o].sum = w.sets[o].sum
    <3>1. CASE v.sets = w.sets
      BY <3>1
    <3>2. CASE v.sets = [w.sets EXCEPT ![o] = [w.sets[o] EXCEPT !.to_update = @ \cup {s}]]
      <4>1. w.sets[o] \in SetT /\ v.sets[o] = [w.sets[o] EXCEPT !.to_update = @ \cup {s}]
        BY <1>2, <2>2, <3>2
      <4> HIDE DEF o
      <4> QED
        BY ONLY <4>1 DEF SetT
    <3> QED
      BY <2>1, <3>1, <3>2 DEF NotifiedWith
  <2>4. \A t \in Sets \ {o} : v.sets[t] = w.sets[t]
    BY <1>2, <2>1 DEF NotifiedWith
  <2>5. /\ v.dsc[s].owner = w.dsc[s].owner /\ v.dsc[s].ext = w.dsc[s].ext
        /\ v.dsc[s].content = w.dsc[s].content /\ v.dsc[s].written = w.dsc[s].written
        /\ v.dsc[s].data = w.dsc[s].data /\ v.dsc[s].pid = w.dsc[s].pid
    <3>1. w.dsc[s] \in DscT /\ v.dsc[s] = [w.dsc[s] EXCEPT !.notified = TRUE]
      BY <1>2, <2>1
    <3> QED
      BY ONLY <3>1 DEF DscT
  <2>6. \A x \in Dscs \ {s} : v.dsc[x] = w.dsc[x]
    BY <1>2, <2>1
  <2>7. w.dsc[s].data \in DataOf(s)
    BY <1>2, <2>2 DEF GoodDscs
  <2> HIDE DEF o
  <2>8. Noted(w, v)
    <3>1. \A x \in Dscs :
            /\ v.dsc[x].owner = w.dsc[x].owner /\ v.dsc[x].ext = w.dsc[x].ext
            /\ v.dsc[x].content = w.dsc[x].content /\ v.dsc[x].written = w.dsc[x].written
            /\ \/ v.dsc[x] = w.dsc[x]
               \/ /\ w.dsc[x].owner # NoSet /\ v.dsc[x].data \in DataOf(x)
                  /\ v.dsc[x].pid = w.dsc[x].pid
      BY <2>2, <2>5, <2>6, <2>7 DEF o
    <3>2. \A t \in Sets :
            /\ SameStream(w.sets[t], v.sets[t])
            /\ v.sets[t].to_remove = w.sets[t].to_remove
            /\ v.sets[t].to_destroy = w.sets[t].to_destroy
            /\ v.sets[t].sum = w.sets[t].sum /\ v.sets[t].to_add = w.sets[t].to_add
            /\ w.sets[t].to_update \subseteq v.sets[t].to_update
            /\ v.sets[t] = w.sets[t] \/ Rooted(w.dsc, t)
      BY <2>2, <2>3, <2>4 DEF SameStream
    <3>3. \A t \in Sets : \A x \in v.sets[t].to_update : w.dsc[x].owner = t
      <4>1. GoodSets(v.dsc, v.sets) /\ v.sets \in [Sets -> SetT]
        BY <1>4, WTFacts DEF Fine
      <4>2. \A t \in Sets : v.sets[t].to_update \in SUBSET Dscs
        BY <4>1, SetTFacts
      <4> QED
        BY <2>5, <2>6, <4>1, <4>2 DEF GoodSets
    <3> QED
      BY <1>4, <2>1, <3>1, <3>2, <3>3 DEF Noted, Fine
  <2>9. Inv(v)
    BY <1>1, <2>8, NotedFacts
  <2>10. Settled(v.sets[s])
    BY <1>1, <2>2, <2>4
  <2>11. UpToDate(u, v, s)
    <3>1. \A d \in Plain : v.dsc[d] = w.dsc[d]
      BY <1>2, <2>6
    <3>2. \A d \in Dscs : v.dsc[d].owner = w.dsc[d].owner
      BY <2>5, <2>6
    <3>3. \A t \in Sets : w.sets[t].to_add \cup w.sets[t].to_update
                            \subseteq v.sets[t].to_add \cup v.sets[t].to_update
      BY <2>8 DEF Noted
    <3> QED
      BY <1>1, <1>2, <3>1, <3>2, <3>3, UpToDateKept
  <2>12. Rooted(v.dsc, s)
    <3>1. Owners(v.dsc) = Owners(w.dsc)
      BY <2>5, <2>6 DEF Owners
    <3> QED
      BY <1>1, <3>1 DEF Rooted
  <2> QED
    BY <2>1, <2>9, <2>10, <2>11, <2>12 DEF Synced
<1> QED
  BY <1>5, <1>6

LEMMA HeaderUpdatedStage ==
  ASSUME NEW u, NEW w, NEW s \in Sets, Synced(u, w, s), NEW v, v = WithHeaderUpdated(w, s)
  PROVE  Synced(u, v, s) /\ v.in_use = w.in_use /\ v.dirty = w.dirty
<1>1. Inv(w) /\ Fine(w) /\ Rooted(w.dsc, s) /\ Settled(w.sets[s]) /\ UpToDate(u, w, s)
  BY DEF Synced, Inv
<1>2. /\ w \in WT /\ w.dsc \in [Dscs -> DscT] /\ w.sets \in [Sets -> SetT] /\ GoodDscs(w.dsc)
      /\ GoodSets(w.dsc, w.sets) /\ s \in Dscs /\ Plain \cap Sets = {} /\ Plain \subseteq Dscs
      /\ NoSet \notin Sets
  BY <1>1, WTFacts, SetsAreFinite DEF Fine
<1>3. Fine(v) /\ HeaderUpdatedWith(w, v, s)
  BY <1>1, HeaderUpdatedFacts
<1>4. PICK x : x = v.dsc[s].data
  OBVIOUS
<1>5. /\ v.in_use = w.in_use /\ v.dirty = w.dirty /\ v.sets = w.sets
      /\ v.dsc = [w.dsc EXCEPT ![s] = [@ EXCEPT !.data = x]]
      /\ x = IF Members(w.dsc, s) = {} THEN <<>> ELSE w.sets[s].segm
  BY <1>3, <1>4 DEF HeaderUpdatedWith
<1>6. x \in DataOf(s)
  <2>1. w.sets[s].segm \in Seq(Pos)
    BY <1>2, SetTFacts
  <2>2. s \notin Plain /\ <<>> \in Seq(Pos)
    BY <1>2
  <2> QED
    BY <1>5, <2>1, <2>2 DEF DataOf
<1>7. /\ v.dsc[s].owner = w.dsc[s].owner /\ v.dsc[s].ext = w.dsc[s].ext
      /\ v.dsc[s].content = w.dsc[s].content /\ v.dsc[s].written = w.dsc[s].written
      /\ v.dsc[s].pid = w.dsc[s].pid
  <2>1. w.dsc[s] \in DscT /\ v.dsc[s] = [w.dsc[s] EXCEPT !.data = x]
    BY <1>2, <1>5
  <2> QED
    BY ONLY <2>1 DEF DscT
<1>8. \A y \in Dscs \ {s} : v.dsc[y] = w.dsc[y]
  BY <1>2, <1>5
<1>9. s # Root => w.dsc[s].owner # NoSet
  BY <1>1, <1>2, OwnerIsOther
<1>10. Noted(w, v)
  <2>1. \A y \in Dscs :
          /\ v.dsc[y].owner = w.dsc[y].owner /\ v.dsc[y].ext = w.dsc[y].ext
          /\ v.dsc[y].content = w.dsc[y].content /\ v.dsc[y].written = w.dsc[y].written
          /\ \/ v.dsc[y] = w.dsc[y]
             \/ /\ w.dsc[y].owner # NoSet /\ v.dsc[y].data \in DataOf(y)
                /\ v.dsc[y].pid = w.dsc[y].pid
             \/ y = Root
    BY <1>4, <1>6, <1>7, <1>8, <1>9
  <2>2. \A t \in Sets : SameStream(w.sets[t], v.sets[t]) /\ v.sets[t] = w.sets[t]
    BY <1>5 DEF SameStream
  <2>3. \A t \in Sets : \A y \in v.sets[t].to_update : w.dsc[y].owner = t
    BY <1>2, <1>5 DEF GoodSets
  <2> QED
    BY <1>3, <1>5, <2>1, <2>2, <2>3 DEF Noted, Fine
<1>11. Inv(v)
  BY <1>1, <1>10, NotedFacts
<1>12. UpToDate(u, v, s)
  <2>1. \A d \in Plain : v.dsc[d] = w.dsc[d]
    BY <1>2, <1>8
  <2>2. \A d \in Dscs : v.dsc[d].owner = w.dsc[d].owner
    BY <1>7, <1>8
  <2>3. \A t \in Sets : w.sets[t].to_add \cup w.sets[t].to_update
                           \subseteq v.sets[t].to_add \cup v.sets[t].to_update
    BY <1>5
  <2>4. UpToDate(u, w, s) /\ w.dsc \in [Dscs -> DscT]
    BY <1>1, <1>2
  <2> QED
    BY ONLY <2>1, <2>2, <2>3, <2>4, UpToDateKept, Zenon
<1>13. Rooted(v.dsc, s)
  <2>1. Owners(v.dsc) = Owners(w.dsc)
    BY <1>7, <1>8 DEF Owners
  <2> QED
    BY <1>1, <2>1 DEF Rooted
<1> QED
  BY <1>1, <1>5, <1>11, <1>12, <1>13 DEF Synced

\* The blocks of the end of a segment are given back.
LEMMA BlocksShrunk ==
  ASSUME NEW w, NEW v, BlockInv(w), NEW s \in Sets, NEW segm \in Seq(Pos),
         segm = w.sets[s].segm, NEW n \in Nat, n <= Len(segm),
         v.sets[s].segm = SubSeq(segm, 1, n),
         \A d \in Dscs : v.dsc[d].content = w.dsc[d].content,
         \A t \in Sets \ {s} : v.sets[t].segm = w.sets[t].segm,
         \A d \in Dscs : IsThere(v, d) => IsThere(w, d),
         v.in_use = w.in_use \ ToSet(SubSeq(segm, n + 1, Len(segm)))
  PROVE  BlockInv(v)
<1> DEFINE A == ToSet(SubSeq(segm, 1, n))
           B == ToSet(SubSeq(segm, n + 1, Len(segm)))
<1>1. Sets \subseteq Dscs
  BY SetsAreFinite
<1>2. IsInjective(segm) /\ w.dsc[s].content = {}
  BY DEF BlockInv
<1>3. /\ Len(segm) \in Nat /\ DOMAIN segm = 1 .. Len(segm)
  OBVIOUS
<1>4. /\ SubSeq(segm, 1, n) \in Seq(Pos) /\ Len(SubSeq(segm, 1, n)) = n
      /\ \A i \in 1 .. n : SubSeq(segm, 1, n)[i] = segm[i]
      /\ A = {segm[i] : i \in 1 .. n} /\ B = {segm[i] : i \in n + 1 .. Len(segm)}
  BY PrefixFacts
<1>5. ToSet(segm) = {segm[i] : i \in 1 .. Len(segm)}
  BY ToSetFacts
<1>6. ToSet(segm) = A \cup B /\ A \cap B = {}
  <2>1. 1 .. Len(segm) = (1 .. n) \cup (n + 1 .. Len(segm))
    BY <1>3
  <2>2. \A i \in 1 .. n : \A j \in n + 1 .. Len(segm) : segm[i] # segm[j]
    <3> SUFFICES ASSUME NEW i \in 1 .. n, NEW j \in n + 1 .. Len(segm) PROVE segm[i] # segm[j]
      OBVIOUS
    <3>1. i \in DOMAIN segm /\ j \in DOMAIN segm /\ i # j
      BY <1>3
    <3> QED
      BY <1>2, <3>1 DEF IsInjective
  <2>3. /\ A = {segm[i] : i \in 1 .. n} /\ B = {segm[i] : i \in n + 1 .. Len(segm)}
        /\ ToSet(segm) = {segm[i] : i \in 1 .. Len(segm)}
    BY <1>4, <1>5
  <2> HIDE DEF A, B
  <2>4. ToSet(segm) = A \cup B
    <3>1. \A x : x \in ToSet(segm) <=> \E i \in (1 .. n) \cup (n + 1 .. Len(segm)) : x = segm[i]
      BY <2>1, <2>3
    <3>2. \A x : x \in A \cup B <=> \E i \in (1 .. n) \cup (n + 1 .. Len(segm)) : x = segm[i]
      BY <2>3
    <3> QED
      BY <3>1, <3>2
  <2>5. A \cap B = {}
    BY <2>2, <2>3
  <2> QED
    BY <2>4, <2>5
<1>7. IsInjective(SubSeq(segm, 1, n))
  <2> DEFINE q == SubSeq(segm, 1, n)
  <2>1. DOMAIN q = 1 .. n
    BY <1>4
  <2>2. \A i \in 1 .. n : q[i] = segm[i] /\ i \in DOMAIN segm
    BY <1>3, <1>4
  <2> HIDE DEF q
  <2>3. IsInjective(q)
    BY <1>2, <2>1, <2>2 DEF IsInjective
  <2> QED
    BY <2>3 DEF q
<1> HIDE DEF A, B
<1>8. BlksAt(v, s) = A /\ BlksAt(w, s) = A \cup B
  <2>1. v.dsc[s].content = {}
    BY <1>1, <1>2
  <2>2. ToSet(v.sets[s].segm) = A /\ ToSet(w.sets[s].segm) = A \cup B
    BY <1>6 DEF A
  <2> QED
    BY <1>2, <2>1, <2>2 DEF BlksAt
<1>9. \A d \in Dscs \ {s} : BlksAt(v, d) = BlksAt(w, d)
  <2> SUFFICES ASSUME NEW d \in Dscs \ {s} PROVE BlksAt(v, d) = BlksAt(w, d)
    OBVIOUS
  <2>1. v.dsc[d].content = w.dsc[d].content /\ (d \in Sets => v.sets[d].segm = w.sets[d].segm)
    OBVIOUS
  <2> QED
    BY <2>1 DEF BlksAt
<1>10. \A d, e \in Dscs : d # e => BlksAt(w, d) \cap BlksAt(w, e) = {}
  BY DEF BlockInv
<1>11. \A d, e \in Dscs : d # e => BlksAt(v, d) \cap BlksAt(v, e) = {}
  <2>1. \A d \in Dscs : BlksAt(v, d) \subseteq BlksAt(w, d)
    BY <1>8, <1>9
  <2> HIDE DEF BlksAt
  <2> QED
    BY <1>10, <2>1
<1>12. \A t \in Sets : IsInjective(v.sets[t].segm) /\ v.dsc[t].content = {}
  <2> SUFFICES ASSUME NEW t \in Sets PROVE IsInjective(v.sets[t].segm) /\ v.dsc[t].content = {}
    OBVIOUS
  <2>1. IsInjective(w.sets[t].segm) /\ w.dsc[t].content = {} /\ t \in Dscs
    BY <1>1 DEF BlockInv
  <2>2. v.sets[t].segm = IF t = s THEN SubSeq(segm, 1, n) ELSE w.sets[t].segm
    OBVIOUS
  <2> QED
    BY <1>7, <2>1, <2>2
<1>13. \A d \in WithContent : IsThere(v, d) => v.dsc[d].content # {}
  <2>1. WithContent \subseteq Dscs
    BY SetsAssumption DEF Dscs
  <2> QED
    BY <2>1 DEF BlockInv
<1>14. v.in_use = UNION {BlksAt(v, d) : d \in Dscs}
  <2>1. v.in_use = w.in_use \ B /\ w.in_use = UNION {BlksAt(w, d) : d \in Dscs}
    BY DEF BlockInv, B
  <2> HIDE DEF BlksAt
  <2>2. ASSUME NEW c PROVE c \in v.in_use <=> \E d \in Dscs : c \in BlksAt(v, d)
    <3>1. ASSUME c \in v.in_use PROVE \E d \in Dscs : c \in BlksAt(v, d)
      <4>1. PICK d \in Dscs : c \in BlksAt(w, d)
        BY <2>1, <3>1
      <4>2. c \in BlksAt(v, d)
        BY <1>8, <1>9, <2>1, <3>1, <4>1
      <4> QED
        BY <4>2
    <3>2. ASSUME NEW d \in Dscs, c \in BlksAt(v, d) PROVE c \in v.in_use
      <4>1. c \in BlksAt(w, d)
        BY <1>8, <1>9, <3>2
      <4>2. c \notin B
        <5>1. CASE d = s
          BY <1>6, <1>8, <3>2, <5>1
        <5>2. CASE d # s
          <6>1. BlksAt(w, d) \cap BlksAt(w, s) = {}
            BY <1>1, <1>10, <5>2
          <6> QED
            BY <1>8, <4>1, <6>1
        <5> QED
          BY <5>1, <5>2
      <4> QED
        BY <2>1, <4>1, <4>2
    <3> QED
      BY <3>1, <3>2
  <2> QED
    BY <2>2
<1> QED
  BY <1>11, <1>12, <1>13, <1>14 DEF BlockInv

\* The stream that is left has the same.
LEMMA ReleasedCells ==
  ASSUME NEW ds \in [Dscs -> DscT], NEW S \in SetT, NEW s \in Sets, CellInv(ds, S, s),
         Settled(S), NEW past \in Nat, NEW n \in Nat, NEW used \in SUBSET Nat,
         n <= Len(S.segm), past <= n * CellsPerBlk, used \subseteq 1 .. past,
         used = (IF Members(ds, s) = {} THEN {} ELSE S.used),
         past = 0 => n = 0, past # 0 => past \in used,
         NEW T, T.used = used, T.past = past, T.segm = SubSeq(S.segm, 1, n),
         T.cells = SubSeq(S.cells, 1, n * CellsPerBlk),
         T.to_add = S.to_add, T.to_update = S.to_update, T.to_remove = S.to_remove, T.sum = S.sum
  PROVE  CellInv(ds, T, s)
<1> DEFINE M == Members(ds, s)
<1>1. /\ S.segm \in Seq(Pos) /\ S.past \in Nat /\ S.cells \in Seq(Cell) /\ Len(S.segm) \in Nat
      /\ Len(S.cells) \in Nat /\ DOMAIN S.cells = 1 .. Len(S.cells)
  BY SetTFacts
<1>2. /\ S.to_add = {} /\ S.to_update = {} /\ S.to_remove = {}
  BY DEF Settled
<1>3. /\ Room(S) /\ Claimed(ds, S, s) /\ Recorded(ds, S, s) /\ Padded(S)
      /\ S.sum = SetToBag(Records(ds, s))
  BY DEF CellInv
<1>4. /\ HeaderOf(S) \subseteq S.used /\ S.used \subseteq 1 .. S.past
      /\ S.past <= Len(S.cells) /\ Len(S.cells) = Len(S.segm) * CellsPerBlk
  BY <1>3 DEF Room
<1>5. PICK m \in Nat : m = n * CellsPerBlk
  BY SetsAssumption
<1>6. m <= Len(S.cells)
  <2>1. PICK k \in Nat : k = Len(S.segm)
    BY <1>1
  <2>2. n <= k
    BY <2>1
  <2>3. n * CellsPerBlk <= k * CellsPerBlk
    BY <2>2, BlksMonotonic
  <2> QED
    BY <1>4, <1>5, <2>1, <2>3
<1>7. /\ Len(T.segm) = n /\ Len(T.cells) = m /\ DOMAIN T.cells = 1 .. m
      /\ \A c \in 1 .. m : T.cells[c] = S.cells[c]
  <2>1. Len(SubSeq(S.segm, 1, n)) = n
    BY <1>1, PrefixFacts
  <2>2. /\ SubSeq(S.cells, 1, m) \in Seq(Cell) /\ Len(SubSeq(S.cells, 1, m)) = m
        /\ \A c \in 1 .. m : SubSeq(S.cells, 1, m)[c] = S.cells[c]
    BY <1>1, <1>6, PrefixFacts
  <2>3. T.cells = SubSeq(S.cells, 1, m)
    BY <1>5
  <2>4. DOMAIN T.cells = 1 .. m
    <3>1. PICK q \in Seq(Cell) : q = SubSeq(S.cells, 1, m)
      BY <2>2
    <3>2. DOMAIN q = 1 .. Len(q) /\ Len(q) = m
      BY <2>2, <3>1
    <3> QED
      BY <2>3, <3>1, <3>2
  <2> QED
    BY <2>1, <2>2, <2>3, <2>4
<1>8. past <= m
  BY <1>5
<1>9. past = 0 => T.segm = <<>>
  <2> SUFFICES ASSUME past = 0 PROVE T.segm = <<>>
    OBVIOUS
  <2>1. Len(T.segm) = 0 /\ T.segm \in Seq(Pos)
    BY <1>1, <1>7, PrefixFacts
  <2> QED
    BY <2>1
<1>10. CASE M = {}
  <2>1. used = {} /\ past = 0 /\ n = 0 /\ m = 0
    <3>1. used = {}
      BY <1>10
    <3>2. past = 0 /\ n = 0
      BY <3>1
    <3>3. m = 0
      BY <1>5, <3>2, SetsAssumption
    <3> QED
      BY <3>1, <3>2, <3>3
  <2>2. HeaderOf(T) = {}
    BY <2>1 DEF HeaderOf
  <2>3. Room(T)
    BY <1>5, <1>7, <1>9, <2>1, <2>2 DEF Room
  <2>4. Claimed(ds, T, s)
    <3>1. UNION T.to_remove = {} /\ T.to_remove = {} /\ UNION {ds[d].ext : d \in M} = {}
      BY <1>2, <1>10
    <3> QED
      BY <1>10, <2>1, <2>2, <3>1 DEF Claimed
  <2>5. Recorded(ds, T, s) /\ Padded(T)
    BY <1>7, <1>10, <2>1 DEF Recorded, Padded
  <2> QED
    BY <1>3, <2>3, <2>4, <2>5 DEF CellInv
<1>11. CASE M # {}
  <2>1. used = S.used
    BY <1>11
  <2>2. PICK d0 \in M : TRUE
    BY <1>11
  <2>3. \A d \in M : ds[d].ext # {} /\ ds[d].ext \subseteq S.used
    <3>1. \A d \in M : ds[d].ext # {}
      BY <1>2, <1>3 DEF Recorded
    <3>2. \A d \in M : ds[d].ext \subseteq S.used
      BY <1>3 DEF Claimed
    <3> QED
      BY <3>1, <3>2
  <2>4. used # {} /\ past # 0 /\ S.past # 0
    <3>1. PICK c \in S.used : TRUE
      BY <2>2, <2>3
    <3>2. c \in 1 .. past /\ c \in 1 .. S.past
      BY <1>4, <2>1, <3>1
    <3> QED
      BY <1>1, <2>1, <3>1, <3>2
  <2>5. HeaderOf(T) = HeaderOf(S)
    BY <2>4 DEF HeaderOf
  <2>6. Room(T)
    BY <1>4, <1>5, <1>7, <1>8, <1>9, <2>1, <2>5 DEF Room
  <2>7. Claimed(ds, T, s)
    BY <1>3, <2>1, <2>5 DEF Claimed
  <2>8. \A c \in S.used : T.cells[c] = S.cells[c]
    <3> SUFFICES ASSUME NEW c \in S.used PROVE T.cells[c] = S.cells[c]
      OBVIOUS
    <3>1. c \in 1 .. past
      BY <2>1
    <3>2. c \in 1 .. m
      BY <1>8, <3>1
    <3> QED
      BY <1>7, <3>2
  <2>9. Recorded(ds, T, s)
    <3> SUFFICES ASSUME NEW d \in M
                 PROVE  /\ ds[d].ext = {} <=> d \in T.to_add
                        /\ ds[d].ext # {} => \E R \in ds[d].written : HasRecord(T, d, ds[d], R)
                        /\ d \notin T.to_add \cup T.to_update
                             => \A R \in ds[d].written : R.pid = ds[d].pid
      BY DEF Recorded
    <3>1. /\ ds[d].ext # {} => \E R \in ds[d].written : HasRecord(S, d, ds[d], R)
          /\ d \notin S.to_add \cup S.to_update => \A R \in ds[d].written : R.pid = ds[d].pid
          /\ ds[d].ext # {}
      BY <1>3, <2>3 DEF Recorded
    <3>2. \A c \in ds[d].ext : T.cells[c] = S.cells[c]
      BY <2>3, <2>8
    <3>3. \A R : HasRecord(S, d, ds[d], R) => HasRecord(T, d, ds[d], R)
      BY <3>2 DEF HasRecord
    <3> QED
      BY <1>2, <3>1, <3>3
  <2>10. Padded(T)
    <3> SUFFICES ASSUME NEW c \in 1 .. m
                 PROVE  /\ c <= HeaderCells => T.cells[c] = Header
                        /\ c \notin T.used => T.cells[c] \in {Zero, Old} /\ (c \notin Leftover => T.cells[c] = Zero)
      BY <1>7 DEF Padded
    <3>1. c \in DOMAIN S.cells /\ T.cells[c] = S.cells[c]
      <4>1. \A k \in Nat : m <= k => c \in 1 .. k
        OBVIOUS
      <4>2. PICK k \in Nat : k = Len(S.cells)
        BY <1>1
      <4>3. c \in 1 .. k
        BY <1>6, <4>1, <4>2
      <4> QED
        BY <1>1, <1>7, <4>2, <4>3
    <3> QED
      BY <1>3, <2>1, <3>1 DEF Padded
  <2> QED
    BY <1>3, <2>6, <2>7, <2>9, <2>10 DEF CellInv
<1> QED
  BY <1>10, <1>11

LEMMA ReleasedStage ==
  ASSUME NEW u, NEW w, NEW s \in Sets, Synced(u, w, s), NEW v, v = Released(w, s)
  PROVE  Synced(u, v, s) /\ v.in_use \subseteq w.in_use /\ v.dirty \subseteq w.dirty \cup w.in_use
<1>1. Inv(w) /\ Fine(w) /\ Rooted(w.dsc, s) /\ Settled(w.sets[s]) /\ UpToDate(u, w, s)
  BY DEF Synced, Inv
<1>2. /\ w \in WT /\ w.dsc \in [Dscs -> DscT] /\ w.sets \in [Sets -> SetT] /\ s \in Dscs
      /\ Sets \subseteq Dscs /\ Plain \subseteq Dscs
  BY <1>1, WTFacts, SetsAreFinite DEF Fine
<1>3. CellInv(w.dsc, w.sets[s], s) /\ Room(w.sets[s]) /\ w.sets[s] \in SetT
  BY <1>1, <1>2 DEF Inv, CellInv
<1>4. Fine(v) /\ ReleasedWith(w, v, s)
  BY <1>1, <1>3, ReleasedFacts
<1>5. PICK S \in SetT : S = w.sets[s]
  BY <1>3
<1>6a. PICK past \in Nat, n \in Nat, used \in SUBSET Nat :
        /\ n <= Len(w.sets[s].segm) /\ past <= n * CellsPerBlk /\ used \subseteq 1 .. past
        /\ used = IF Members(w.dsc, s) = {} THEN {} ELSE w.sets[s].used
        /\ past = 0 => n = 0
        /\ past <= w.sets[s].past /\ (past # 0 => past \in used)
        /\ v.dsc = w.dsc
        /\ v.in_use = w.in_use \ ToSet(SubSeq(w.sets[s].segm, n + 1, Len(w.sets[s].segm)))
        /\ v.dirty = w.dirty \cup ToSet(SubSeq(w.sets[s].segm, n + 1, Len(w.sets[s].segm)))
        /\ v.sets = [w.sets EXCEPT ![s] =
                       [w.sets[s] EXCEPT !.used = used, !.past = past, !.segm = SubSeq(w.sets[s].segm, 1, n),
                                 !.cells = SubSeq(w.sets[s].cells, 1, n * CellsPerBlk)]]
  BY <1>4 DEF ReleasedWith
<1>6. 
        /\ n <= Len(S.segm) /\ past <= n * CellsPerBlk /\ used \subseteq 1 .. past
        /\ used = IF Members(w.dsc, s) = {} THEN {} ELSE S.used
        /\ past = 0 => n = 0
        /\ past <= S.past /\ (past # 0 => past \in used)
        /\ v.dsc = w.dsc
        /\ v.in_use = w.in_use \ ToSet(SubSeq(S.segm, n + 1, Len(S.segm)))
        /\ v.dirty = w.dirty \cup ToSet(SubSeq(S.segm, n + 1, Len(S.segm)))
        /\ v.sets = [w.sets EXCEPT ![s] =
                       [S EXCEPT !.used = used, !.past = past, !.segm = SubSeq(S.segm, 1, n),
                                 !.cells = SubSeq(S.cells, 1, n * CellsPerBlk)]]
  BY <1>5, <1>6a
<1>7. PICK q1 : q1 = SubSeq(S.segm, 1, n)
  OBVIOUS
<1>8. PICK q2 : q2 = SubSeq(S.cells, 1, n * CellsPerBlk)
  OBVIOUS
<1>9. PICK T : T = [S EXCEPT !.used = used, !.past = past, !.segm = q1, !.cells = q2]
  OBVIOUS
<1>10. /\ T.used = used /\ T.past = past /\ T.segm = q1 /\ T.cells = q2
       /\ T.to_add = S.to_add /\ T.to_update = S.to_update /\ T.to_remove = S.to_remove
       /\ T.to_destroy = S.to_destroy /\ T.sum = S.sum
  BY ONLY <1>5, <1>9 DEF SetT
<1>11. v.sets[s] = T /\ \A t \in Sets \ {s} : v.sets[t] = w.sets[t]
  BY <1>2, <1>6, <1>7, <1>8, <1>9
<1>12. SameTree(w, v)
  BY <1>5, <1>6, <1>10, <1>11 DEF SameTree
<1>13. /\ \A d \in Dscs : IsThere(v, d) <=> IsThere(w, d)
       /\ \A d \in Dscs : Rooted(v.dsc, d) <=> Rooted(w.dsc, d)
  BY <1>12, SameTreeFacts
<1>14. IsThere(w, s)
  BY <1>1, <1>2, RootedHolders
<1>15. TreeInv(v)
  <2>1. TreeInv(w)
    BY <1>1 DEF Inv
  <2>2. \A t \in Sets : v.sets[t].to_destroy # {} => v.sets[t].to_remove # {}
    <3>1. \A t \in Sets \ {s} : v.sets[t].to_destroy # {} => v.sets[t].to_remove # {}
      BY <1>11, <2>1 DEF TreeInv
    <3>2. v.sets[s].to_destroy = {}
      BY <1>1, <1>5, <1>10, <1>11 DEF Settled
    <3> QED
      BY <3>1, <3>2
  <2>3. \A d \in Dscs : ~ IsThere(w, d) => /\ v.dsc[d] = w.dsc[d]
                                           /\ d \in Sets => v.sets[d] = w.sets[d]
    BY <1>6, <1>11, <1>14
  <2> QED
    BY <1>12, <2>1, <2>2, <2>3, TreeKept
<1>16. S.segm \in Seq(Pos) /\ S.segm = w.sets[s].segm
  BY <1>5, SetTFacts
<1>17. BlockInv(v)
  <2>1. PICK segm \in Seq(Pos) : segm = S.segm
    BY <1>16
  <2>2. segm = w.sets[s].segm /\ n <= Len(segm) /\ v.sets[s].segm = SubSeq(segm, 1, n)
    BY <1>6, <1>7, <1>10, <1>11, <1>16, <2>1
  <2>3. v.in_use = w.in_use \ ToSet(SubSeq(segm, n + 1, Len(segm)))
    BY <1>6, <2>1
  <2>4. \A d \in Dscs : v.dsc[d].content = w.dsc[d].content
    BY <1>6
  <2>5. \A t \in Sets \ {s} : v.sets[t].segm = w.sets[t].segm
    BY <1>11
  <2>6. \A d \in Dscs : IsThere(v, d) => IsThere(w, d)
    BY <1>13
  <2>7. BlockInv(w)
    BY <1>1 DEF Inv
  <2> QED
    BY ONLY <1>6, <2>1, <2>2, <2>3, <2>4, <2>5, <2>6, <2>7, BlocksShrunk, Zenon
<1>18. CellInv(v.dsc, T, s)
  <2>1. PICK ds \in [Dscs -> DscT] : ds = w.dsc
    BY <1>2
  <2>2. CellInv(ds, S, s) /\ Settled(S)
    BY <1>1, <1>3, <1>5, <2>1
  <2>3. used = (IF Members(ds, s) = {} THEN {} ELSE S.used)
    BY <1>6, <2>1
  <2>4. T.segm = SubSeq(S.segm, 1, n) /\ T.cells = SubSeq(S.cells, 1, n * CellsPerBlk)
    BY <1>7, <1>8, <1>10
  <2>5. CellInv(ds, T, s)
    <3>1. CellInv(ds, S, s)
      BY <2>2
    <3>2. Settled(S)
      BY <2>2
    <3>3. n <= Len(S.segm)
      BY <1>6
    <3>4. past <= n * CellsPerBlk
      BY <1>6
    <3>5. used \subseteq 1 .. past
      BY <1>6
    <3>6. past = 0 => n = 0
      BY <1>6
    <3>7. past # 0 => past \in used
      BY <1>6
    <3>8. T.segm = SubSeq(S.segm, 1, n)
      BY <2>4
    <3>9. T.cells = SubSeq(S.cells, 1, n * CellsPerBlk)
      BY <2>4
    <3> QED
      BY ONLY <1>10, <2>3, <3>1, <3>2, <3>3, <3>4, <3>5, <3>6, <3>7, <3>8, <3>9, ReleasedCells, ZenonT(60)
  <2> QED
    BY <1>6, <2>1, <2>5
<1>19. OthersInv(v, s)
  <2>1. OthersInv(w, s)
    BY <1>1 DEF Inv, OthersInv
  <2> QED
    BY <1>6, <1>11, <2>1, OthersKept
<1>20. Inv(v)
  BY <1>4, <1>11, <1>15, <1>17, <1>18, <1>19 DEF Inv, OthersInv
<1>21. Settled(v.sets[s])
  BY <1>1, <1>5, <1>10, <1>11 DEF Settled
<1>22. UpToDate(u, v, s)
  <2>1. \A t \in Sets : w.sets[t].to_add \cup w.sets[t].to_update
                          \subseteq v.sets[t].to_add \cup v.sets[t].to_update
    BY <1>5, <1>10, <1>11
  <2>2. \A d \in Plain : v.dsc[d] = w.dsc[d]
    BY <1>6
  <2>3. \A d \in Dscs : v.dsc[d].owner = w.dsc[d].owner
    BY <1>6
  <2> QED
    BY <1>1, <1>2, <2>1, <2>2, <2>3, UpToDateKept
<1>23. ToSet(SubSeq(S.segm, n + 1, Len(S.segm))) \subseteq w.in_use
  <2>1. ToSet(SubSeq(S.segm, n + 1, Len(S.segm))) \subseteq ToSet(S.segm)
    <3>1. PICK segm \in Seq(Pos) : segm = S.segm
      BY <1>16
    <3>2. n <= Len(segm)
      BY <1>6, <3>1
    <3>3. ToSet(SubSeq(segm, n + 1, Len(segm))) = {segm[i] : i \in n + 1 .. Len(segm)}
      BY <3>2, PrefixFacts
    <3>4. ToSet(segm) = {segm[i] : i \in 1 .. Len(segm)}
      BY ToSetFacts
    <3>5. \A i \in n + 1 .. Len(segm) : i \in 1 .. Len(segm)
      OBVIOUS
    <3>6. ToSet(SubSeq(segm, n + 1, Len(segm))) \subseteq ToSet(segm)
      BY <3>3, <3>4, <3>5
    <3> QED
      BY <3>1, <3>6
  <2>2. ToSet(w.sets[s].segm) \subseteq BlksAt(w, s)
    BY DEF BlksAt
  <2>3. BlksAt(w, s) \subseteq w.in_use
    BY <1>1, <1>2 DEF Inv, BlockInv
  <2> QED
    BY <1>5, <2>1, <2>2, <2>3
<1>24. Rooted(v.dsc, s)
  BY <1>1, <1>6
<1> QED
  BY <1>6, <1>20, <1>21, <1>22, <1>23, <1>24 DEF Synced

\* The blocks that are in use, but for the segment of s, were in use before
\* it got its header.
LEMMA HeaderBlks ==
  ASSUME NEW w, Inv(w), NEW s \in Sets, NEW h, h = WithHeader(w, s)
  PROVE  h.in_use \ ToSet(h.sets[s].segm) \subseteq w.in_use
<1>1. Fine(w) /\ CellInv(w.dsc, w.sets[s], s)
  BY DEF Inv
<1>2. w.sets \in [Sets -> SetT] /\ w.sets[s] \in SetT
  BY <1>1, WTFacts DEF Fine
<1>3. CASE h = w
  BY <1>3
<1>4. CASE w.sets[s].past = 0 /\ \E new, more : HeaderedWith(w, h, s, new, more)
  <2>1. PICK new, more : HeaderedWith(w, h, s, new, more)
    BY <1>4
  <2>2. PICK S \in SetT : S = w.sets[s]
    BY <1>2
  <2>3. /\ new \in Seq(Pos) /\ h.in_use = w.in_use \cup ToSet(new)
        /\ h.sets = [w.sets EXCEPT ![s] = [S EXCEPT !.past = HeaderCells, !.segm = @ \o new,
                                                    !.cells = @ \o more,
                                                    !.used = 1 .. HeaderCells]]
    BY <2>1, <2>2 DEF HeaderedWith
  <2>4. S.segm = <<>>
    BY <1>1, <1>4, <2>2 DEF CellInv, Room
  <2>5. PICK q : q = S.segm \o new
    OBVIOUS
  <2>6. PICK r : r = S.cells \o more
    OBVIOUS
  <2>7. PICK T : T = [S EXCEPT !.past = HeaderCells, !.segm = q, !.cells = r, !.used = 1 .. HeaderCells]
    OBVIOUS
  <2>8. T.segm = q
    BY ONLY <2>2, <2>7 DEF SetT
  <2>9. h.sets[s] = T
    BY <1>2, <2>3, <2>5, <2>6, <2>7
  <2>10. q = new
    BY <2>3, <2>4, <2>5
  <2> QED
    BY <2>3, <2>8, <2>9, <2>10
<1> QED
  BY <1>1, <1>3, <1>4, WithHeaderFacts

\* A set that has nothing to write.
LEMMA NothingToWrite ==
  ASSUME NEW w, Inv(w), NEW s \in Sets, Rooted(w.dsc, s), ~ RequiresWrite(w.sets[s])
  PROVE  Synced(w, w, s)
<1>1. w.sets[s].to_add = {} /\ w.sets[s].to_update = {} /\ w.sets[s].to_remove = {}
  BY DEF RequiresWrite
<1>2. w.sets[s].to_destroy = {}
  BY <1>1 DEF Inv, TreeInv
<1>3. ToWrite(w, s) = {}
  BY <1>1 DEF ToWrite
<1>4. UpToDate(w, w, s)
  BY <1>3 DEF UpToDate, SameDsc, Elsewhere
<1> QED
  BY <1>1, <1>2, <1>4 DEF Synced, Settled

\* A flush leaves nothing pending in s, and everything in order.
LEMMA FlushedStage ==
  ASSUME NEW w, Inv(w), NEW s \in Sets, Rooted(w.dsc, s),
         NEW order \in SetToSeqs(w.sets[s].to_add \cup TooSmall(w, s)),
         NEW f, f = Flushed(w, s, order)
  PROVE  Synced(w, f, s) /\ f.dirty \subseteq w.dirty \cup w.in_use
<1>1. PICK h : h = WithHeader(w, s)
  OBVIOUS
<1>2. /\ Mid(h, s) /\ CellMid(h.dsc, h.sets[s], s)
      /\ h.dsc = w.dsc /\ h.dirty = w.dirty
      /\ SamePending(h.sets[s], w.sets[s])
      /\ \A t \in Sets \ {s} : h.sets[t] = w.sets[t]
      /\ h = w \/ RequiresWrite(h.sets[s])
  BY <1>1, HeaderStage
<1>3. h.in_use \ ToSet(h.sets[s].segm) \subseteq w.in_use
  BY <1>1, HeaderBlks
<1>4. CASE ~ RequiresWrite(h.sets[s])
  <2>1. h = w /\ f = w
    BY <1>1, <1>2, <1>4 DEF Flushed
  <2> QED
    BY <1>4, <2>1, NothingToWrite
<1>5. CASE RequiresWrite(h.sets[s])
  <2>1. Fine(w) /\ Fine(h) /\ w.dsc \in [Dscs -> DscT] /\ h.dsc \in [Dscs -> DscT] /\ Rooted(h.dsc, s)
    BY <1>2, WTFacts DEF Mid, Inv, Fine
  <2>2. SameTree(w, h)
    BY <1>2 DEF SameTree, SamePending
  <2>3. SameSoFar(w, h, s)
    <3>1. \A d \in Dscs : SameDsc(w.dsc[d], h.dsc[d])
      BY <1>2 DEF SameDsc
    <3>2. \A d \in Plain : w.dsc[d].owner # s => h.dsc[d] = w.dsc[d]
      BY <1>2
    <3> QED
      BY <1>2, <2>1, <2>2, <3>1, <3>2, SameMembers
  <2>4. PICK a : a = Deallocated(h, s)
    OBVIOUS
  <2>5. Fine(a) /\ DeallocatedWith(h, a, s)
    BY <2>1, <2>4, DeallocatedFacts
  <2>6. TreeMid(a, s) /\ BlockInv(a) /\ OthersInv(a, s) /\ Rooted(a.dsc, s) /\ SameSoFar(h, a, s)
    BY <1>2, <2>1, <2>5, DeallocatedStage
  <2>7. /\ PlaceInv(a.dsc, a.sets[s], s, a.sets[s].to_add, Len(h.sets[s].cells))
        /\ a.sets[s].to_add = h.sets[s].to_add \cup TooSmall(h, s)
        /\ a.sets[s].to_update = h.sets[s].to_update
        /\ a.sets[s].segm = h.sets[s].segm
        /\ Len(a.sets[s].cells) = Len(h.sets[s].cells)
        /\ a.in_use = h.in_use /\ a.dirty = h.dirty
    BY <1>2, <2>1, <2>5, DeallocatedCells
  <2>8. PICK b : b = Destroyed(a, s)
    OBVIOUS
  <2>9. PICK P : P = a.sets[s].to_add
    OBVIOUS
  <2>10. PICK had : had = Len(h.sets[s].cells)
    OBVIOUS
  <2>11. PlaceInv(a.dsc, a.sets[s], s, P, had)
    BY <2>7, <2>9, <2>10
  <2>12. /\ Mid(b, s) /\ Rooted(b.dsc, s) /\ SameSoFar(a, b, s)
         /\ PlaceInv(b.dsc, b.sets[s], s, P, had)
         /\ SameStream(a.sets[s], b.sets[s])
         /\ b.sets[s].to_add = a.sets[s].to_add /\ b.sets[s].to_update = a.sets[s].to_update
         /\ b.sets[s].to_destroy = {}
         /\ b.dirty \subseteq a.dirty \cup (a.in_use \ ToSet(a.sets[s].segm))
    BY <2>5, <2>6, <2>8, <2>11, DestroyedStage
  <2>13. Placing(b, s, b.sets[s].to_add, Len(b.sets[s].cells))
    <3>1. P = b.sets[s].to_add /\ had = Len(b.sets[s].cells)
      BY <2>7, <2>9, <2>10, <2>12 DEF SameStream
    <3> QED
      BY <2>12, <3>1 DEF Placing
  <2>14. order \in SetToSeqs(b.sets[s].to_add)
    <3>1. h.sets[s].to_add = w.sets[s].to_add /\ TooSmall(h, s) = TooSmall(w, s)
      BY <1>2 DEF SamePending, TooSmall
    <3>2. b.sets[s].to_add = w.sets[s].to_add \cup TooSmall(w, s)
      BY <2>7, <2>12, <3>1
    <3> QED
      BY <3>2
  <2>15. PICK c : c = Allocated(b, s, order)
    OBVIOUS
  <2>16. Placing(c, s, {}, Len(c.sets[s].cells)) /\ SamePlans(b, c, s)
    BY <2>13, <2>14, <2>15, AllocatedStage
  <2>17. SameSoFar(w, c, s)
    <3>1. SameSoFar(b, c, s)
      BY <2>16 DEF SamePlans
    <3>2. SameSoFar(a, c, s)
      BY <2>12, <3>1, SameSoFarThrough
    <3>3. SameSoFar(h, c, s)
      BY <2>6, <3>2, SameSoFarThrough
    <3> QED
      BY <2>3, <3>3, SameSoFarThrough
  <2>18. ToWrite(w, s) \subseteq ToWrite(c, s)
    <3>1. h.sets[s].to_add = w.sets[s].to_add /\ h.sets[s].to_update = w.sets[s].to_update
      BY <1>2 DEF SamePending
    <3>2. /\ c.sets[s].to_add = h.sets[s].to_add \cup TooSmall(h, s)
          /\ c.sets[s].to_update = h.sets[s].to_update
      BY <2>7, <2>12, <2>16 DEF SamePlans
    <3> QED
      BY <3>1, <3>2 DEF ToWrite
  <2>19. PICK e : e = Written(c, s)
    OBVIOUS
  <2>20. /\ Inv(e) /\ Settled(e.sets[s]) /\ UpToDate(w, e, s)
         /\ e.in_use = c.in_use /\ e.dirty = c.dirty
    BY <2>16, <2>17, <2>18, <2>19, WrittenStage
  <2>21. Rooted(e.dsc, s)
    BY <2>20, SetsAreFinite DEF UpToDate
  <2>22. Synced(w, e, s)
    BY <2>20, <2>21 DEF Synced
  <2>23. PICK segm : segm = h.sets[s].segm
    OBVIOUS
  <2>24. f = Notifies(e, s, segm)
    BY <1>1, <1>5, <2>4, <2>8, <2>15, <2>19, <2>23 DEF Flushed
  <2>25. Synced(w, f, s) /\ f.dirty = e.dirty
    BY <2>22, <2>24, NotifiesStage
  <2>26. f.dirty \subseteq w.dirty \cup w.in_use
    <3>1. f.dirty = b.dirty
      BY <2>16, <2>20, <2>25 DEF SamePlans
    <3>2. b.dirty \subseteq w.dirty \cup (h.in_use \ ToSet(h.sets[s].segm))
      BY <1>2, <2>7, <2>12
    <3> QED
      BY <1>3, <3>1, <3>2
  <2> QED
    BY <2>25, <2>26
<1> QED
  BY <1>4, <1>5

\* The sync of a set: it has nothing pending then, what was not pending in
\* it is as it was, and everything is in order.
LEMMA SyncFacts ==
  ASSUME NEW w, Inv(w), NEW s \in Sets, Rooted(w.dsc, s),
         NEW order \in SetToSeqs(w.sets[s].to_add \cup TooSmall(w, s)), NEW rel \in BOOLEAN,
         NEW f, f = Flushed(w, s, order),
         NEW v, v = WithHeaderUpdated(IF rel THEN Released(f, s) ELSE f, s)
  PROVE  /\ Synced(w, v, s)
         /\ v.in_use \subseteq f.in_use
         /\ v.dirty \subseteq w.dirty \cup w.in_use \cup f.in_use
<1>1. Synced(w, f, s) /\ f.dirty \subseteq w.dirty \cup w.in_use
  BY FlushedStage
<1>2. PICK r : r = Released(f, s)
  OBVIOUS
<1>3. Synced(w, r, s) /\ r.in_use \subseteq f.in_use /\ r.dirty \subseteq f.dirty \cup f.in_use
  BY <1>1, <1>2, ReleasedStage
<1>4. PICK g : g = IF rel THEN r ELSE f
  OBVIOUS
<1>5. Synced(w, g, s) /\ g.in_use \subseteq f.in_use /\ g.dirty \subseteq f.dirty \cup f.in_use
  BY <1>1, <1>3, <1>4
<1>6. v = WithHeaderUpdated(g, s)
  BY <1>2, <1>4
<1>7. Synced(w, v, s) /\ v.in_use = g.in_use /\ v.dirty = g.dirty
  BY <1>5, <1>6, HeaderUpdatedStage
<1> QED
  BY <1>1, <1>5, <1>7

(* What a set with nothing pending has in its stream *)

\* The cells of a stream where lo says where the record of each descriptor,
\* that rec says, is.
IsLaid(ds, S, s, lo, rec) ==
  /\ \A d \in Members(ds, s) :
       /\ lo[d] \in Pos /\ rec[d] \in RecsOf(d) /\ rec[d] \in Recs /\ rec[d].dsc = d
       /\ ds[d].written = {rec[d]} /\ rec[d].pid = ds[d].pid
       /\ ds[d].ext = lo[d] .. lo[d] + Footprint(d, rec[d]) - 1
       /\ Footprint(d, rec[d]) \in Pos
       /\ \A c \in ds[d].ext : /\ c \in DOMAIN S.cells /\ c > HeaderCells
                               /\ S.cells[c] = PartOf(rec[d], c - lo[d] + 1)
       /\ \A e \in Members(ds, s) : d # e => ds[d].ext \cap ds[e].ext = {}
  /\ \A c \in DOMAIN S.cells :
       /\ c <= HeaderCells => S.cells[c] = Header
       /\ c > HeaderCells => \/ Blank(c, S.cells[c])
                             \/ \E d \in Members(ds, s) : c \in ds[d].ext

LEMMA StreamIsLaid ==
  ASSUME NEW ds \in [Dscs -> DscT], GoodDscs(ds), NEW S \in SetT, NEW s \in Sets,
         CellInv(ds, S, s), Settled(S)
  PROVE  \E lo, rec : IsLaid(ds, S, s, lo, rec)
<1> DEFINE M == Members(ds, s)
<1>1. /\ S.to_add = {} /\ S.to_update = {} /\ S.to_remove = {}
  BY DEF Settled
<1>2. Room(S) /\ Claimed(ds, S, s) /\ Recorded(ds, S, s) /\ Padded(S)
  BY DEF CellInv
<1>3. S.past \in Nat /\ DOMAIN S.cells = 1 .. Len(S.cells) /\ Len(S.cells) \in Nat /\ S.used \in SUBSET Nat
  BY SetTFacts
<1>4. \A d \in M : d \in Dscs /\ ds[d].owner = s /\ d # Root
  BY SetsAreFinite DEF Members, GoodDscs
<1>5. \A d \in M : \E R \in RecsOf(d), lo \in Pos :
        /\ ds[d].written = {R} /\ R.dsc = d /\ R.pid = ds[d].pid /\ R \in Recs
        /\ Footprint(d, R) \in Pos
        /\ ds[d].ext = lo .. lo + Footprint(d, R) - 1 /\ ds[d].ext # {}
        /\ \A c \in ds[d].ext : S.cells[c] = PartOf(R, c - lo + 1)
  <2> SUFFICES ASSUME NEW d \in M
               PROVE  \E R \in RecsOf(d), lo \in Pos :
                        /\ ds[d].written = {R} /\ R.dsc = d /\ R.pid = ds[d].pid /\ R \in Recs
                        /\ Footprint(d, R) \in Pos
                        /\ ds[d].ext = lo .. lo + Footprint(d, R) - 1 /\ ds[d].ext # {}
                        /\ \A c \in ds[d].ext : S.cells[c] = PartOf(R, c - lo + 1)
    OBVIOUS
  <2>1. /\ ds[d].ext # {}
        /\ ds[d].ext # {} => \E R \in ds[d].written : HasRecord(S, d, ds[d], R)
        /\ \A R \in ds[d].written : R.pid = ds[d].pid
    BY <1>1, <1>2, RecordedFacts
  <2>2. PICK R \in ds[d].written : HasRecord(S, d, ds[d], R)
    BY <2>1
  <2>3. R.dsc = d /\ ds[d].written = {R} /\ R \in RecsOf(d)
    BY <1>4, RecordsOfOne
  <2>4. R.data \in DataOf(d)
    BY <2>3 DEF RecsOf
  <2>5. Footprint(d, R) \in Pos
    BY <1>4, <2>4, FootprintFacts
  <2>6. PICK lo \in Pos : /\ ds[d].ext = lo .. lo + Footprint(d, R) - 1
                          /\ \A c \in ds[d].ext : S.cells[c] = PartOf(R, c - lo + 1)
    BY <2>2 DEF HasRecord
  <2>7. R \in Recs
    BY <1>4, <2>3 DEF Recs
  <2> QED
    BY <2>1, <2>3, <2>5, <2>6, <2>7
<1>6. PICK F : F = [d \in M |-> CHOOSE p \in RecsOf(d) \X Pos :
        /\ ds[d].written = {p[1]} /\ p[1].dsc = d /\ p[1].pid = ds[d].pid /\ p[1] \in Recs
        /\ Footprint(d, p[1]) \in Pos
        /\ ds[d].ext = p[2] .. p[2] + Footprint(d, p[1]) - 1 /\ ds[d].ext # {}
        /\ \A c \in ds[d].ext : S.cells[c] = PartOf(p[1], c - p[2] + 1)]
  OBVIOUS
<1>7. PICK rec : rec = [d \in M |-> F[d][1]]
  OBVIOUS
<1>8. PICK lo : lo = [d \in M |-> F[d][2]]
  OBVIOUS
<1>9. \A d \in M :
        /\ rec[d] \in RecsOf(d) /\ lo[d] \in Pos
        /\ ds[d].written = {rec[d]} /\ rec[d].dsc = d /\ rec[d].pid = ds[d].pid /\ rec[d] \in Recs
        /\ Footprint(d, rec[d]) \in Pos
        /\ ds[d].ext = lo[d] .. lo[d] + Footprint(d, rec[d]) - 1 /\ ds[d].ext # {}
        /\ \A c \in ds[d].ext : S.cells[c] = PartOf(rec[d], c - lo[d] + 1)
  <2> SUFFICES ASSUME NEW d \in M
               PROVE  /\ rec[d] \in RecsOf(d) /\ lo[d] \in Pos
                      /\ ds[d].written = {rec[d]} /\ rec[d].dsc = d /\ rec[d].pid = ds[d].pid
                      /\ rec[d] \in Recs
                      /\ Footprint(d, rec[d]) \in Pos
                      /\ ds[d].ext = lo[d] .. lo[d] + Footprint(d, rec[d]) - 1 /\ ds[d].ext # {}
                      /\ \A c \in ds[d].ext : S.cells[c] = PartOf(rec[d], c - lo[d] + 1)
    OBVIOUS
  <2> DEFINE Fits(p) ==
        /\ ds[d].written = {p[1]} /\ p[1].dsc = d /\ p[1].pid = ds[d].pid /\ p[1] \in Recs
        /\ Footprint(d, p[1]) \in Pos
        /\ ds[d].ext = p[2] .. p[2] + Footprint(d, p[1]) - 1 /\ ds[d].ext # {}
        /\ \A c \in ds[d].ext : S.cells[c] = PartOf(p[1], c - p[2] + 1)
  <2>1. PICK R \in RecsOf(d), l \in Pos :
          /\ ds[d].written = {R} /\ R.dsc = d /\ R.pid = ds[d].pid /\ R \in Recs
          /\ Footprint(d, R) \in Pos
          /\ ds[d].ext = l .. l + Footprint(d, R) - 1 /\ ds[d].ext # {}
          /\ \A c \in ds[d].ext : S.cells[c] = PartOf(R, c - l + 1)
    BY <1>5
  <2>2. PICK p \in RecsOf(d) \X Pos : p[1] = R /\ p[2] = l
    <3>1. <<R, l>> \in RecsOf(d) \X Pos /\ <<R, l>>[1] = R /\ <<R, l>>[2] = l
      OBVIOUS
    <3> QED
      BY <3>1
  <2>3. Fits(p)
    BY <2>1, <2>2
  <2>4. F[d] = CHOOSE q \in RecsOf(d) \X Pos : Fits(q)
    BY <1>6
  <2> HIDE DEF Fits
  <2>5. F[d] \in RecsOf(d) \X Pos /\ Fits(F[d])
    BY <2>3, <2>4
  <2>6. rec[d] = F[d][1] /\ lo[d] = F[d][2]
    BY <1>7, <1>8
  <2>7. rec[d] \in RecsOf(d) /\ lo[d] \in Pos
    BY <2>5, <2>6
  <2> QED
    BY <2>5, <2>6, <2>7 DEF Fits
<1>10. \A d \in M : \A c \in ds[d].ext : c \in DOMAIN S.cells /\ c > HeaderCells
  <2> SUFFICES ASSUME NEW d \in M, NEW c \in ds[d].ext
               PROVE  c \in DOMAIN S.cells /\ c > HeaderCells
    OBVIOUS
  <2>1. c \in S.used /\ ds[d].ext \cap HeaderOf(S) = {}
    BY <1>2 DEF Claimed
  <2>2. c \in 1 .. S.past /\ S.past <= Len(S.cells) /\ c \notin HeaderOf(S)
    BY <1>2, <2>1 DEF Room
  <2>3. S.past # 0 /\ c \in Nat /\ c >= 1 /\ c <= Len(S.cells)
    BY <1>3, <2>2
  <2>4. c \notin 1 .. HeaderCells
    BY <2>2, <2>3 DEF HeaderOf
  <2> QED
    BY <1>3, <2>3, <2>4, SetsAssumption
<1>11. \A c \in DOMAIN S.cells :
         /\ c <= HeaderCells => S.cells[c] = Header
         /\ c > HeaderCells => Blank(c, S.cells[c]) \/ \E d \in M : c \in ds[d].ext
  <2> SUFFICES ASSUME NEW c \in DOMAIN S.cells
               PROVE  /\ c <= HeaderCells => S.cells[c] = Header
                      /\ c > HeaderCells => Blank(c, S.cells[c]) \/ \E d \in M : c \in ds[d].ext
    OBVIOUS
  <2>1. /\ c <= HeaderCells => S.cells[c] = Header
        /\ c \notin S.used => S.cells[c] \in {Zero, Old} /\ (c \notin Leftover => S.cells[c] = Zero)
    BY <1>2 DEF Padded
  <2>2. ASSUME c > HeaderCells, c \in S.used PROVE \E d \in M : c \in ds[d].ext
    <3>1. c \notin HeaderOf(S)
      BY <1>3, <2>2, SetsAssumption DEF HeaderOf
    <3>2. S.used = HeaderOf(S) \cup UNION {ds[d].ext : d \in M}
      BY <1>1, <1>2 DEF Claimed
    <3> QED
      BY <2>2, <3>1, <3>2
  <2> QED
    BY <2>1, <2>2 DEF Blank
<1>12. \A d, e \in M : d # e => ds[d].ext \cap ds[e].ext = {}
  BY <1>2 DEF Claimed
<1>13. IsLaid(ds, S, s, lo, rec)
  BY <1>9, <1>10, <1>11, <1>12 DEF IsLaid
<1> QED
  BY <1>13

\* The records of a stream are the ones of its descriptors, where lo says.
StreamHas(s, lo, rec) ==
  LET M == Members(dsc, s)
  IN /\ Starts(s) = {lo[d] : d \in M}
     /\ StreamRecs(s) = {rec[d] : d \in M} /\ StreamRecs(s) = Records(dsc, s)
     /\ \A d \in M : /\ CellsOfRec(s, rec[d]) = dsc[d].ext
                     /\ lo[d] \in DOMAIN sets[s].cells /\ sets[s].cells[lo[d]][1] = rec[d]
     /\ \A d, e \in M : d # e => lo[d] # lo[e] /\ rec[d] # rec[e]

LEMMA LaidStream ==
  ASSUME NEW s \in Sets, sets[s] \in SetT, NEW lo, NEW rec, IsLaid(dsc, sets[s], s, lo, rec)
  PROVE  StreamHas(s, lo, rec)
<1> DEFINE M == Members(dsc, s)
           q == sets[s].cells
<1>1. \A d \in M :
        /\ lo[d] \in Pos /\ rec[d].dsc = d /\ dsc[d].written = {rec[d]}
        /\ dsc[d].ext = lo[d] .. lo[d] + Footprint(d, rec[d]) - 1
        /\ Footprint(d, rec[d]) \in Pos
        /\ \A c \in dsc[d].ext : /\ c \in DOMAIN q /\ c > HeaderCells
                                 /\ q[c] = PartOf(rec[d], c - lo[d] + 1)
        /\ \A e \in M : d # e => dsc[d].ext \cap dsc[e].ext = {}
  BY DEF IsLaid
<1>2. \A c \in DOMAIN q :
        /\ c <= HeaderCells => q[c] = Header
        /\ c > HeaderCells => Blank(c, q[c]) \/ \E d \in M : c \in dsc[d].ext
  BY DEF IsLaid
<1>3. \A r, i : Len(PartOf(r, i)) = 2 /\ PartOf(r, i)[1] = r /\ PartOf(r, i)[2] = i
  BY DEF PartOf
<1>4. Len(Header) # 2 /\ \A c, x : Blank(c, x) => Len(x) # 2
  BY DEF Header, Blank, Zero, Old
<1> HIDE DEF M, q
<1>5. \A d \in M : \A c \in dsc[d].ext : /\ c \in DOMAIN q /\ Len(q[c]) = 2
                                         /\ q[c][1] = rec[d] /\ q[c][2] = c - lo[d] + 1
  BY <1>1, <1>3
<1>6. \A c \in DOMAIN q : Len(q[c]) = 2 => \E d \in M : c \in dsc[d].ext
  <2> SUFFICES ASSUME NEW c \in DOMAIN q, Len(q[c]) = 2 PROVE \E d \in M : c \in dsc[d].ext
    OBVIOUS
  <2>1. q[c] # Header /\ ~ Blank(c, q[c])
    BY <1>4
  <2>2. ~ (c <= HeaderCells)
    BY <1>2, <2>1
  <2>3. CASE c > HeaderCells
    BY <1>2, <2>1, <2>3
  <2>4. c \in Nat
    <3>1. DOMAIN q = 1 .. Len(q) /\ Len(q) \in Nat
      BY SetTFacts DEF q
    <3> QED
      BY <3>1
  <2>5. c > HeaderCells
    BY <2>2, <2>4, SetsAssumption
  <2> QED
    BY <2>3, <2>5
<1>7. \A d \in M : lo[d] \in dsc[d].ext /\ \A c \in dsc[d].ext : c \in Int /\ (c - lo[d] + 1 = 1 <=> c = lo[d])
  <2> SUFFICES ASSUME NEW d \in M
               PROVE  lo[d] \in dsc[d].ext
                      /\ \A c \in dsc[d].ext : c \in Int /\ (c - lo[d] + 1 = 1 <=> c = lo[d])
    OBVIOUS
  <2>1. PICK l \in Nat : l = lo[d]
    BY <1>1 DEF Pos
  <2>2. PICK m \in Pos : m = Footprint(d, rec[d])
    BY <1>1
  <2>3. dsc[d].ext = l .. l + m - 1
    BY <1>1, <2>1, <2>2
  <2>4. l \in l .. l + m - 1 /\ \A c \in l .. l + m - 1 : c \in Int /\ (c - l + 1 = 1 <=> c = l)
    BY <2>2 DEF Pos
  <2> QED
    BY <2>1, <2>3, <2>4
<1>8. \A d, e \in M : d # e => lo[d] # lo[e] /\ rec[d] # rec[e]
  <2>1. \A d, e \in M : d # e => dsc[d].ext \cap dsc[e].ext = {}
    BY <1>1
  <2>2. \A d \in M : rec[d].dsc = d
    BY <1>1
  <2> QED
    BY <1>7, <2>1, <2>2
<1>9. Starts(s) = {lo[d] : d \in M}
  <2>1. Starts(s) = {c \in DOMAIN q : Len(q[c]) = 2 /\ q[c][2] = 1}
    BY DEF Starts, q
  <2>2. ASSUME NEW c \in DOMAIN q, Len(q[c]) = 2, q[c][2] = 1 PROVE \E d \in M : c = lo[d]
    <3>1. PICK d \in M : c \in dsc[d].ext
      BY <1>6, <2>2
    <3>2. q[c][2] = c - lo[d] + 1
      BY <1>5, <3>1
    <3> QED
      BY <1>7, <2>2, <3>1, <3>2
  <2>3. ASSUME NEW d \in M
        PROVE  lo[d] \in DOMAIN q /\ Len(q[lo[d]]) = 2 /\ q[lo[d]][2] = 1
    <3>1. lo[d] \in dsc[d].ext /\ lo[d] - lo[d] + 1 = 1
      BY <1>7
    <3> QED
      BY <1>5, <3>1
  <2> QED
    BY <2>1, <2>2, <2>3
<1>10. \A d \in M : lo[d] \in DOMAIN q /\ q[lo[d]][1] = rec[d]
  BY <1>5, <1>7
<1>11. StreamRecs(s) = {rec[d] : d \in M}
  <2>1. StreamRecs(s) = {q[c][1] : c \in Starts(s)}
    BY DEF StreamRecs, q
  <2> QED
    BY <1>9, <1>10, <2>1
<1>12. Records(dsc, s) = {rec[d] : d \in M}
  BY <1>1 DEF Records, M
<1>13. \A d \in M : CellsOfRec(s, rec[d]) = dsc[d].ext
  <2> SUFFICES ASSUME NEW d \in M PROVE CellsOfRec(s, rec[d]) = dsc[d].ext
    OBVIOUS
  <2>1. CellsOfRec(s, rec[d]) = {c \in DOMAIN q : Len(q[c]) = 2 /\ q[c][1] = rec[d]}
    BY DEF CellsOfRec, q
  <2>2. ASSUME NEW c \in DOMAIN q, Len(q[c]) = 2, q[c][1] = rec[d] PROVE c \in dsc[d].ext
    <3>1. PICK e \in M : c \in dsc[e].ext
      BY <1>6, <2>2
    <3>2. rec[e] = rec[d]
      BY <1>5, <2>2, <3>1
    <3> QED
      BY <1>8, <3>1, <3>2
  <2> QED
    BY <1>5, <2>1, <2>2
<1> QED
  BY <1>8, <1>9, <1>10, <1>11, <1>12, <1>13 DEF M, q, StreamHas

(* Opening the file again *)

LEMMA MemoryFacts ==
  /\ Memory.dsc = dsc /\ Memory.sets = sets /\ Memory.in_use = in_use /\ Memory.dirty = dirty
  /\ \A d : InTree(d) <=> Rooted(dsc, d)
  /\ \A d : Exists(d) <=> IsThere(Memory, d)
  BY DEF Memory, InTree, Rooted, Exists, IsThere

\* With nothing pending in the tree there is nobody out of it, and no set
\* has anything.
LEMMA SyncedTree ==
  ASSUME Inv(Memory), AllSynced
  PROVE  /\ \A s \in Sets : Settled(sets[s])
         /\ \A d \in Dscs : IsThere(Memory, d) => InTree(d)
         /\ \A d \in Dscs : ~ InTree(d) => dsc[d] = Absent /\ (d \in Sets => sets[d] = EmptySet)
<1> DEFINE w == Memory
           up == Holders(w.dsc, w.sets)
           N == {x \in Dscs : ~ Rooted(w.dsc, x)}
<1>1. /\ Fine(w) /\ TreeInv(w) /\ w.dsc = dsc /\ w.sets = sets
      /\ w.dsc \in [Dscs -> DscT] /\ GoodDscs(w.dsc)
  BY MemoryFacts, WTFacts DEF Inv, Fine
<1> HIDE DEF w
<1>2. \A s \in Sets : Rooted(w.dsc, s) => Settled(w.sets[s])
  <2> SUFFICES ASSUME NEW s \in Sets, Rooted(w.dsc, s) PROVE Settled(w.sets[s])
    OBVIOUS
  <2>1. ~ Pending(s)
    BY <1>1, MemoryFacts DEF AllSynced
  <2>2. w.sets[s].to_add = {} /\ w.sets[s].to_update = {} /\ w.sets[s].to_remove = {}
    BY <1>1, <2>1 DEF Pending
  <2>3. w.sets[s].to_destroy = {}
    BY <1>1, <2>2 DEF TreeInv
  <2> QED
    BY <2>2, <2>3 DEF Settled
<1>3. up \in Ups /\ \A d \in Dscs : up[d] = Holder(w.dsc, w.sets, d)
  BY <1>1, HoldersAreUps
<1>4. \A x \in Dscs : x \in N /\ up[x] # NoSet => up[x] \in N
  <2> SUFFICES ASSUME NEW x \in Dscs, x \in N, up[x] # NoSet PROVE up[x] \in N
    OBVIOUS
  <2>1. PICK t \in Sets : t = Holder(w.dsc, w.sets, x) /\ t = up[x] /\ t # NoSet
    BY <1>1, <1>3, HolderFacts
  <2>2. ASSUME Rooted(w.dsc, t) PROVE FALSE
    <3>1. CASE w.dsc[x].owner # NoSet
      <4>1. w.dsc[x].owner = t
        BY <1>1, <2>1, <3>1, HolderFacts
      <4>2. x # Root
        BY <1>1, <3>1 DEF GoodDscs
      <4>3. Rooted(w.dsc, x)
        <5>1. Owners(w.dsc) \in Ups /\ Owners(w.dsc)[x] = t
          BY <1>1, <4>1, OwnersAreUps
        <5>2. Above(Owners(w.dsc), x) = {x} \cup Above(Owners(w.dsc), t)
          BY <2>1, <5>1, AboveUnfold
        <5> QED
          BY <2>2, <5>2 DEF Rooted
      <4> QED
        BY <4>3
    <3>2. CASE w.dsc[x].owner = NoSet
      <4>1. x \in w.sets[t].to_destroy
        BY <1>1, <2>1, <3>2, HolderFacts
      <4> QED
        BY <1>2, <2>2, <4>1 DEF Settled
    <3> QED
      BY <3>1, <3>2
  <2>3. t \in Dscs
    BY SetsAreFinite
  <2> QED
    BY <2>1, <2>2, <2>3
<1>5. \A d \in Dscs : IsThere(w, d) => Rooted(w.dsc, d)
  <2> SUFFICES ASSUME NEW d \in Dscs, IsThere(w, d), ~ Rooted(w.dsc, d) PROVE FALSE
    OBVIOUS
  <2>1. Root \in Above(up, d)
    BY <1>1 DEF TreeInv, IsHeld
  <2> HIDE DEF up
  <2>2. d \in N
    OBVIOUS
  <2> HIDE DEF N
  <2>3. Above(up, d) \subseteq N
    BY <1>3, <1>4, <2>2, AboveLeast
  <2>4. Rooted(w.dsc, Root)
    <3>1. Root \in Dscs
      BY SetsAreFinite
    <3>2. Owners(w.dsc) \in Ups
      BY <1>1, OwnersAreUps
    <3> QED
      BY <3>1, <3>2, AboveFacts DEF Rooted
  <2> QED
    BY <2>1, <2>3, <2>4 DEF N
<1>6. \A d \in Dscs : ~ Rooted(w.dsc, d) => w.dsc[d] = Absent /\ (d \in Sets => w.sets[d] = EmptySet)
  BY <1>1, <1>5 DEF TreeInv
<1>7. \A s \in Sets : Settled(w.sets[s])
  <2> SUFFICES ASSUME NEW s \in Sets PROVE Settled(w.sets[s])
    OBVIOUS
  <2>1. s \in Dscs
    BY SetsAreFinite
  <2>2. CASE Rooted(w.dsc, s)
    BY <1>2, <2>2
  <2>3. CASE ~ Rooted(w.dsc, s)
    BY <1>6, <2>1, <2>3 DEF Settled, EmptySet
  <2> QED
    BY <2>2, <2>3
<1> QED
  BY <1>1, <1>5, <1>6, <1>7, MemoryFacts DEF w

\* The stream of every set that is opened has the records of its descriptors.
LEMMA SyncedStreams ==
  ASSUME Inv(Memory), AllSynced
  PROVE  /\ \A s \in Sets : \E lo, rec : IsLaid(dsc, sets[s], s, lo, rec)
         /\ \A s \in Sets : StreamRecs(s) = Records(dsc, s)
<1>1. /\ Fine(Memory) /\ dsc \in [Dscs -> DscT] /\ sets \in [Sets -> SetT] /\ GoodDscs(dsc)
      /\ \A s \in Sets : CellInv(dsc, sets[s], s)
  BY MemoryFacts, WTFacts DEF Inv, Fine
<1>2. \A s \in Sets : \E lo, rec : IsLaid(dsc, sets[s], s, lo, rec)
  <2> SUFFICES ASSUME NEW s \in Sets PROVE \E lo, rec : IsLaid(dsc, sets[s], s, lo, rec)
    OBVIOUS
  <2>1. PICK ds \in [Dscs -> DscT] : ds = dsc
    BY <1>1
  <2>2. PICK S \in SetT : S = sets[s]
    BY <1>1
  <2>3. GoodDscs(ds) /\ CellInv(ds, S, s) /\ Settled(S)
    BY <1>1, <2>1, <2>2, SyncedTree
  <2>4. \E lo, rec : IsLaid(ds, S, s, lo, rec)
    BY <2>3, StreamIsLaid
  <2> QED
    BY <2>1, <2>2, <2>4
<1>3. \A s \in Sets : StreamRecs(s) = Records(dsc, s)
  <2> SUFFICES ASSUME NEW s \in Sets PROVE StreamRecs(s) = Records(dsc, s)
    OBVIOUS
  <2>1. PICK lo, rec : IsLaid(dsc, sets[s], s, lo, rec)
    BY <1>2
  <2>2. sets[s] \in SetT
    BY <1>1
  <2>3. StreamHas(s, lo, rec)
    BY <2>1, <2>2, LaidStream
  <2> QED
    BY <2>3 DEF StreamHas
<1> QED
  BY <1>2, <1>3

\* Each descriptor has its record in the stream of its owner, and in no
\* other one.
LEMMA HomesFacts ==
  ASSUME Inv(Memory), AllSynced, NEW d \in Dscs
  PROVE  /\ dsc[d].owner = NoSet => Homes(d) = {}
         /\ dsc[d].owner # NoSet =>
              /\ Homes(d) = {dsc[d].owner} /\ dsc[d].owner \in Sets
              /\ \E R \in RecsOf(d) :
                   /\ dsc[d].written = {R} /\ R.pid = dsc[d].pid /\ R.dsc = d
                   /\ R \in StreamRecs(dsc[d].owner)
                   /\ \A r \in StreamRecs(dsc[d].owner) : r.dsc = d => r = R
                   /\ CellsOfRec(dsc[d].owner, R) = dsc[d].ext
<1>1. /\ dsc \in [Dscs -> DscT] /\ sets \in [Sets -> SetT] /\ GoodDscs(dsc)
  BY MemoryFacts, WTFacts DEF Inv, Fine
<1>2. \A r : \A s \in Sets : r \in StreamRecs(s) => \E e \in Dscs : dsc[e].owner = s /\ r \in dsc[e].written
  BY SyncedStreams DEF Records, Members
<1>3. \A e \in Dscs : \A r \in dsc[e].written : r.dsc = e
  BY <1>1, RecordsOfOne
<1>4. \A s \in Sets : s \in Homes(d) => dsc[d].owner = s
  BY <1>2, <1>3 DEF Homes
<1>5. Homes(d) \subseteq Sets /\ NoSet \notin Sets
  BY SetsAreFinite DEF Homes
<1>6. ASSUME dsc[d].owner # NoSet
      PROVE  /\ Homes(d) = {dsc[d].owner} /\ dsc[d].owner \in Sets
             /\ \E R \in RecsOf(d) :
                  /\ dsc[d].written = {R} /\ R.pid = dsc[d].pid /\ R.dsc = d
                  /\ R \in StreamRecs(dsc[d].owner)
                  /\ \A r \in StreamRecs(dsc[d].owner) : r.dsc = d => r = R
                  /\ CellsOfRec(dsc[d].owner, R) = dsc[d].ext
  <2>1. PICK s \in Sets : s = dsc[d].owner
    BY <1>1, <1>6, DscTFacts
  <2>2. PICK lo, rec : IsLaid(dsc, sets[s], s, lo, rec)
    BY SyncedStreams
  <2>3. d \in Members(dsc, s)
    BY <2>1 DEF Members
  <2>4. PICK R \in RecsOf(d) : R = rec[d] /\ dsc[d].written = {R} /\ R.pid = dsc[d].pid /\ R.dsc = d
    BY <2>2, <2>3 DEF IsLaid
  <2>5. R \in StreamRecs(s) /\ CellsOfRec(s, R) = dsc[d].ext
    <3>1. sets[s] \in SetT
      BY <1>1
    <3>2. StreamHas(s, lo, rec)
      BY <2>2, <3>1, LaidStream
    <3>3. StreamRecs(s) = {rec[e] : e \in Members(dsc, s)}
      BY <3>2 DEF StreamHas
    <3>4. CellsOfRec(s, rec[d]) = dsc[d].ext
      BY <2>3, <3>2 DEF StreamHas
    <3> QED
      BY <2>3, <2>4, <3>3, <3>4
  <2>6. \A r \in StreamRecs(s) : r.dsc = d => r = R
    <3> SUFFICES ASSUME NEW r \in StreamRecs(s), r.dsc = d PROVE r = R
      OBVIOUS
    <3>1. PICK e \in Dscs : dsc[e].owner = s /\ r \in dsc[e].written
      BY <1>2
    <3>2. e = d
      BY <1>3, <3>1
    <3> QED
      BY <2>4, <3>1, <3>2
  <2>7. s \in Homes(d)
    BY <2>4, <2>5 DEF Homes
  <2>8. Homes(d) = {s}
    BY <1>4, <1>5, <2>1, <2>7
  <2> QED
    BY <2>1, <2>4, <2>5, <2>6, <2>8
<1> QED
  BY <1>4, <1>5, <1>6

\* What is loaded of a descriptor is what was written of it.
Reloaded(d, r, q) ==
  /\ q \in DscT /\ q.owner = r.owner /\ q.content = r.content
  /\ r.owner # NoSet =>
       /\ q.ext = r.ext /\ q.written = r.written /\ q.pid = r.pid /\ q.data \in DataOf(d)
       /\ q.written = {Record(d, q)} /\ Record(d, q) \in RecsOf(d)
  /\ r.owner = NoSet => q.written = {}
  /\ ~ InTree(d) => q = r

ReloadedDsc(d) ==
  IF Homes(d) = {} THEN [Absent EXCEPT !.data = IF d = Root THEN dsc[d].data ELSE <<>>]
  ELSE LET s == CHOOSE s \in Homes(d) : TRUE
           r == CHOOSE r \in StreamRecs(s) : r.dsc = d
       IN SetOwner([Absent EXCEPT
             !.data = r.data, !.pid = r.pid, !.written = {r},
             !.ext = CellsOfRec(s, r), !.content = dsc[d].content], s)

LEMMA ReloadedDscFacts ==
  ASSUME Inv(Memory), AllSynced, NEW d \in Dscs
  PROVE  Reloaded(d, dsc[d], ReloadedDsc(d))
<1>1. /\ dsc \in [Dscs -> DscT] /\ GoodDscs(dsc) /\ dsc[d] \in DscT
      /\ dsc[d].owner \in Sets \cup {NoSet} /\ dsc[d].content \in SUBSET Pos
      /\ dsc[d].ext \in SUBSET Nat
      /\ dsc[d].data \in Seq(Pos) \cup {<<v>> : v \in Values}
  BY MemoryFacts, WTFacts, DscTFacts DEF Inv, Fine
<1>2. PICK q : q = ReloadedDsc(d)
  OBVIOUS
<1>3. CASE dsc[d].owner = NoSet
  <2>1. q = [owner |-> NoSet, data |-> IF d = Root THEN dsc[d].data ELSE <<>>, pid |-> FALSE,
             ext |-> {}, content |-> {}, written |-> {}, notified |-> FALSE]
    <3>1. Homes(d) = {}
      BY <1>3, HomesFacts
    <3> QED
      BY <1>2, <3>1 DEF ReloadedDsc, Absent
  <2>2. q \in DscT
    <3>1. PICK x : x = IF d = Root THEN dsc[d].data ELSE <<>>
      OBVIOUS
    <3>2. x \in Seq(Pos) \cup {<<v>> : v \in Values}
      <4>1. <<>> \in Seq(Pos)
        OBVIOUS
      <4> QED
        BY <1>1, <3>1, <4>1
    <3>3. q = [owner |-> NoSet, data |-> x, pid |-> FALSE,
               ext |-> {}, content |-> {}, written |-> {}, notified |-> FALSE]
      BY <2>1, <3>1
    <3> QED
      BY ONLY <3>2, <3>3 DEF DscT
  <2>3. d # Root => ~ InTree(d) /\ dsc[d] = Absent
    <3>1. ASSUME d # Root PROVE ~ Rooted(dsc, d)
      <4>1. Owners(dsc) \in Ups /\ Owners(dsc)[d] = NoSet
        BY <1>1, <1>3, OwnersAreUps
      <4>2. Above(Owners(dsc), d) = {d}
        BY <4>1, AboveUnfold
      <4> QED
        BY <3>1, <4>2 DEF Rooted
    <3> QED
      BY <3>1, MemoryFacts, SyncedTree
  <2>4. InTree(Root)
    <3>1. Root \in Dscs /\ Owners(dsc) \in Ups
      BY <1>1, SetsAreFinite, OwnersAreUps
    <3> QED
      BY <3>1, AboveFacts DEF InTree
  <2>5. dsc[d].content = {}
    <3>1. CASE d = Root
      BY <3>1, SetsAreFinite, MemoryFacts DEF Inv, BlockInv
    <3>2. CASE d # Root
      BY <2>3, <3>2 DEF Absent
    <3> QED
      BY <3>1, <3>2
  <2>6. ~ InTree(d) => q = dsc[d]
    BY <2>1, <2>3, <2>4 DEF Absent
  <2>7. q.owner = NoSet /\ q.content = {} /\ q.written = {}
    BY <2>1
  <2> QED
    BY <1>2, <1>3, <2>2, <2>5, <2>6, <2>7 DEF Reloaded
<1>4. CASE dsc[d].owner # NoSet
  <2>1. PICK o \in Sets : o = dsc[d].owner
    BY <1>1, <1>4
  <2>2. PICK R \in RecsOf(d) :
          /\ dsc[d].written = {R} /\ R.pid = dsc[d].pid /\ R.dsc = d
          /\ R \in StreamRecs(o)
          /\ \A r \in StreamRecs(o) : r.dsc = d => r = R
          /\ CellsOfRec(o, R) = dsc[d].ext
    BY <1>4, <2>1, HomesFacts
  <2>3. Homes(d) = {o}
    BY <1>4, <2>1, HomesFacts
  <2>4. (CHOOSE s \in Homes(d) : TRUE) = o
    BY <2>3
  <2>5. (CHOOSE r \in StreamRecs(o) : r.dsc = d) = R
    BY <2>2
  <2>6. q = SetOwner([Absent EXCEPT
             !.data = R.data, !.pid = R.pid, !.written = {R},
             !.ext = CellsOfRec(o, R), !.content = dsc[d].content], o)
    BY <1>2, <2>3, <2>4, <2>5 DEF ReloadedDsc
  <2>7. q = [owner |-> o, data |-> R.data, pid |-> R.pid, ext |-> CellsOfRec(o, R),
             content |-> dsc[d].content, written |-> {R}, notified |-> TRUE]
    BY <2>6 DEF SetOwner, Absent
  <2>8. /\ q.owner = o /\ q.data = R.data /\ q.pid = R.pid /\ q.ext = dsc[d].ext
        /\ q.content = dsc[d].content /\ q.written = {R}
    BY <2>2, <2>7
  <2>9. R.data \in DataOf(d) /\ R.pid \in BOOLEAN /\ R = [dsc |-> d, data |-> R.data, pid |-> R.pid]
    BY <2>2 DEF RecsOf
  <2>10. d # Root
    BY <1>1, <1>4 DEF GoodDscs
  <2>11. q \in DscT
    <3>1. R \in Recs
      BY <2>10 DEF Recs
    <3>2. R.data \in Seq(Pos) \cup {<<v>> : v \in Values}
      BY <2>9 DEF DataOf
    <3>3. CellsOfRec(o, R) \in SUBSET Nat
      BY <1>1, <2>2
    <3> QED
      BY ONLY <1>1, <2>1, <2>7, <2>9, <3>1, <3>2, <3>3 DEF DscT
  <2>12. Record(d, q) = R
    BY <2>8, <2>9 DEF Record
  <2>13. InTree(d)
    <3>1. ASSUME ~ InTree(d) PROVE FALSE
      <4>1. dsc[d] = Absent
        BY <3>1, SyncedTree
      <4> QED
        BY <1>4, <4>1 DEF Absent
    <3> QED
      BY <3>1
  <2> QED
    BY <1>2, <1>4, <2>1, <2>2, <2>8, <2>9, <2>11, <2>12, <2>13 DEF Reloaded
<1> QED
  BY <1>3, <1>4

\* A set that has no segment and nothing pending has no descriptors.
LEMMA NoMembers ==
  ASSUME NEW ds, NEW S \in SetT, NEW s \in Sets, CellInv(ds, S, s), Settled(S), S.segm = <<>>
  PROVE  Members(ds, s) = {}
<1>1. S.past \in Nat /\ Len(S.cells) \in Nat
  BY SetTFacts
<1>2. Len(S.cells) = 0
  <2>1. Len(S.cells) = Len(S.segm) * CellsPerBlk /\ Len(S.segm) = 0
    BY DEF CellInv, Room
  <2> QED
    BY <2>1, SetsAssumption
<1>3. S.used = {}
  BY <1>1, <1>2 DEF CellInv, Room
<1>4. \A d \in Members(ds, s) : ds[d].ext # {} /\ ds[d].ext \subseteq S.used
  <2>1. \A d \in Members(ds, s) : ds[d].ext # {}
    BY DEF CellInv, Settled, Recorded
  <2>2. \A d \in Members(ds, s) : ds[d].ext \subseteq S.used
    BY DEF CellInv, Claimed
  <2> QED
    BY <2>1, <2>2
<1> QED
  BY <1>3, <1>4

ReloadedSet(s) ==
  IF ~ InTree(s) \/ StoredSegm(s) = <<>> THEN EmptySet
  ELSE LET recs == StreamRecs(s)
       IN [EmptySet EXCEPT
             !.segm = sets[s].segm, !.cells = sets[s].cells,
             !.past = Len(sets[s].cells),
             !.used = 1 .. HeaderCells \cup UNION {CellsOfRec(s, r) : r \in recs},
             !.sum = SetToBag(recs)]

EmptySetIs(T) ==
  /\ T.segm = <<>> /\ T.past = 0 /\ T.used = {} /\ T.cells = <<>> /\ T.to_add = {}
  /\ T.to_update = {} /\ T.to_remove = {} /\ T.to_destroy = {} /\ T \in SetT

LEMMA EmptySetFacts == EmptySetIs(EmptySet)
<1>1. EmptyBag \in Sums
  <2>1. EmptyBag = [r \in {} |-> 0]
    BY SMT DEF EmptyBag, SetToBag
  <2>2. {} \in SUBSET Recs
    OBVIOUS
  <2>3. [r \in {} |-> 0] \in [{} -> Nat]
    OBVIOUS
  <2> QED
    BY <2>1, <2>2, <2>3 DEF Sums
<1>2. <<>> \in Seq(Pos) /\ <<>> \in Seq(Cell)
  OBVIOUS
<1>3. EmptySet \in SetT
  BY <1>1, <1>2 DEF EmptySet, SetT
<1> QED
  BY <1>3 DEF EmptySet, EmptySetIs

\* A set is loaded with the stream it had.
LEMMA ReloadedSetFacts ==
  ASSUME Inv(Memory), AllSynced, NEW s \in Sets, InTree(s) => StoredSegmIsRight(s),
         NEW es, \A d \in Dscs : Reloaded(d, dsc[d], es[d])
  PROVE  LET T == ReloadedSet(s)
         IN /\ T \in SetT /\ Settled(T) /\ T.segm \in {sets[s].segm, <<>>}
            /\ CellInv(es, T, s) /\ (~ InTree(s) => T = sets[s])
<1> DEFINE M == Members(dsc, s)
<1>1. /\ Fine(Memory) /\ dsc \in [Dscs -> DscT] /\ sets \in [Sets -> SetT] /\ GoodDscs(dsc)
      /\ CellInv(dsc, sets[s], s) /\ NoSet \notin Sets /\ s \in Dscs
  BY MemoryFacts, WTFacts, SetsAreFinite DEF Inv, Fine
<1>2. PICK S \in SetT : S = sets[s]
  BY <1>1
<1>3. Settled(S) /\ CellInv(dsc, S, s)
  BY <1>1, <1>2, SyncedTree
<1>4. Members(es, s) = M
  BY DEF Members, Reloaded
<1>5. PICK T : T = ReloadedSet(s)
  OBVIOUS
<1>6. ASSUME M = {}, T = EmptySet
      PROVE  T \in SetT /\ Settled(T) /\ T.segm = <<>> /\ CellInv(es, T, s)
  <2>1. EmptySetIs(T)
    BY <1>6, EmptySetFacts
  <2>2. CellInv(es, T, s)
    BY <1>4, <1>6, EmptyCellInv
  <2> QED
    BY <2>1, <2>2 DEF EmptySetIs, Settled
<1>7. CASE ~ InTree(s)
  <2>1. S = EmptySet /\ T = EmptySet
    BY <1>1, <1>2, <1>5, <1>7, SyncedTree DEF ReloadedSet
  <2>2. S.segm = <<>>
    BY <2>1, EmptySetFacts DEF EmptySetIs
  <2>3. M = {}
    BY <1>3, <2>2, NoMembers
  <2> QED
    BY <1>2, <1>5, <1>6, <1>7, <2>1, <2>3
<1>8. CASE InTree(s) /\ StoredSegm(s) = <<>>
  <2>1. T = EmptySet
    BY <1>5, <1>8 DEF ReloadedSet
  <2>2. M = {}
    <3>1. CASE S.segm = <<>>
      BY <1>3, <3>1, NoMembers
    <3>2. CASE S.segm # <<>>
      BY <1>2, <1>8, <3>2 DEF StoredSegmIsRight
    <3> QED
      BY <3>1, <3>2
  <2> QED
    BY <1>5, <1>6, <1>8, <2>1, <2>2
<1>9. CASE InTree(s) /\ StoredSegm(s) # <<>>
  <2>1. S.segm # <<>>
    BY <1>2, <1>9 DEF StoredSegmIsRight
  <2>2. /\ S.segm \in Seq(Pos) /\ S.past \in Nat /\ S.cells \in Seq(Cell) /\ Len(S.cells) \in Nat
        /\ S.used \in SUBSET Nat /\ S.sum \in Sums
    BY SetTFacts
  <2>3. /\ Room(S) /\ Claimed(dsc, S, s) /\ Recorded(dsc, S, s) /\ Padded(S)
        /\ S.sum = SetToBag(Records(dsc, s))
    BY <1>3 DEF CellInv
  <2>4. S.to_add = {} /\ S.to_update = {} /\ S.to_remove = {} /\ S.to_destroy = {}
    BY <1>3 DEF Settled
  <2>5. S.past # 0 /\ HeaderOf(S) = 1 .. HeaderCells
    <3>1. S.past # 0
      BY <2>1, <2>3 DEF Room
    <3> QED
      BY <3>1 DEF HeaderOf
  <2>6. /\ 1 .. HeaderCells \subseteq S.used /\ S.used \subseteq 1 .. S.past /\ S.past <= Len(S.cells)
        /\ Len(S.cells) = Len(S.segm) * CellsPerBlk
    BY <2>3, <2>5 DEF Room
  <2>7. StreamRecs(s) = Records(dsc, s)
    BY SyncedStreams
  <2>8. PICK X : X = 1 .. HeaderCells \cup UNION {CellsOfRec(s, r) : r \in StreamRecs(s)}
    OBVIOUS
  <2>9. X = S.used
    <3>1. PICK lo, rec : IsLaid(dsc, sets[s], s, lo, rec)
      BY SyncedStreams
    <3>2. sets[s] \in SetT
      BY <1>1
    <3>3. StreamHas(s, lo, rec)
      BY <3>1, <3>2, LaidStream
    <3>4. /\ StreamRecs(s) = {rec[d] : d \in M}
          /\ \A d \in M : CellsOfRec(s, rec[d]) = dsc[d].ext
      BY <3>3 DEF StreamHas
    <3>5. {CellsOfRec(s, r) : r \in StreamRecs(s)} = {dsc[d].ext : d \in M}
      BY <3>4
    <3>6. S.used = 1 .. HeaderCells \cup UNION {dsc[d].ext : d \in M}
      <4>1. UNION S.to_remove = {}
        BY <2>4
      <4> QED
        BY <2>3, <2>5, <4>1 DEF Claimed
    <3> QED
      BY <2>8, <3>5, <3>6
  <2>10. PICK m \in Nat : m = Len(S.cells)
    BY <2>2
  <2>11. PICK sum \in Sums : sum = SetToBag(StreamRecs(s)) /\ sum = S.sum
    BY <2>2, <2>3, <2>7
  <2>12. T = [EmptySet EXCEPT !.segm = S.segm, !.cells = S.cells, !.past = m, !.used = X, !.sum = sum]
    BY <1>2, <1>5, <1>9, <2>8, <2>10, <2>11 DEF ReloadedSet
  <2>13. T = [segm |-> S.segm, past |-> m, used |-> X, cells |-> S.cells,
              to_add |-> {}, to_update |-> {}, to_remove |-> {}, to_destroy |-> {}, sum |-> sum]
    BY <2>12 DEF EmptySet
  <2>14. /\ T.segm = S.segm /\ T.past = m /\ T.used = S.used /\ T.cells = S.cells
         /\ T.to_add = {} /\ T.to_update = {} /\ T.to_remove = {} /\ T.to_destroy = {} /\ T.sum = S.sum
    BY <2>9, <2>11, <2>13
  <2>15. T \in SetT
    <3>1. X \in SUBSET Nat
      BY <2>2, <2>9
    <3> QED
      BY ONLY <2>2, <2>10, <2>11, <2>13, <3>1 DEF SetT
  <2>16. m # 0
    BY <2>2, <2>5, <2>6, <2>10
  <2>17. HeaderOf(T) = HeaderOf(S) /\ HeaderOf(T) = 1 .. HeaderCells
    BY <2>5, <2>14, <2>16 DEF HeaderOf
  <2>18. Room(T)
    <3>1. T.used \subseteq 1 .. T.past
      BY <2>2, <2>6, <2>10, <2>14
    <3> QED
      BY <2>6, <2>10, <2>14, <2>16, <2>17, <3>1 DEF Room
  <2>19. \A d \in M : /\ es[d].ext = dsc[d].ext /\ es[d].written = dsc[d].written
                      /\ es[d].pid = dsc[d].pid
    <3> SUFFICES ASSUME NEW d \in M
                 PROVE  /\ es[d].ext = dsc[d].ext /\ es[d].written = dsc[d].written
                        /\ es[d].pid = dsc[d].pid
      OBVIOUS
    <3>1. d \in Dscs /\ dsc[d].owner # NoSet
      BY <1>1 DEF Members
    <3> QED
      BY <3>1 DEF Reloaded
  <2>20. Claimed(es, T, s)
    <3>1. UNION {es[d].ext : d \in M} = UNION {dsc[d].ext : d \in M}
      BY <2>19
    <3> QED
      BY <1>4, <2>3, <2>4, <2>14, <2>17, <2>19, <3>1 DEF Claimed
  <2>21. Recorded(es, T, s)
    <3> SUFFICES ASSUME NEW d \in M
                 PROVE  /\ es[d].ext = {} <=> d \in T.to_add
                        /\ es[d].ext # {} => \E R \in es[d].written : HasRecord(T, d, es[d], R)
                        /\ d \notin T.to_add \cup T.to_update
                             => \A R \in es[d].written : R.pid = es[d].pid
      BY <1>4 DEF Recorded
    <3>1. /\ dsc[d].ext = {} <=> d \in S.to_add
          /\ dsc[d].ext # {} => \E R \in dsc[d].written : HasRecord(S, d, dsc[d], R)
          /\ d \notin S.to_add \cup S.to_update
               => \A R \in dsc[d].written : R.pid = dsc[d].pid
      BY <2>3, RecordedFacts
    <3>2. \A R : HasRecord(S, d, dsc[d], R) => HasRecord(T, d, es[d], R)
      BY <2>14, <2>19 DEF HasRecord
    <3> QED
      BY <2>4, <2>14, <2>19, <3>1, <3>2
  <2>22. Padded(T)
    BY <2>3, <2>14 DEF Padded
  <2>23. T.sum = SetToBag(Records(es, s))
    <3>1. Records(es, s) = Records(dsc, s)
      BY <1>4, <2>19 DEF Records
    <3> QED
      BY <2>3, <2>14, <3>1
  <2>24. CellInv(es, T, s)
    BY <2>18, <2>20, <2>21, <2>22, <2>23 DEF CellInv
  <2>25. Settled(T)
    BY <2>14 DEF Settled
  <2> QED
    BY <1>2, <1>5, <1>9, <2>14, <2>15, <2>24, <2>25
<1> QED
  BY <1>7, <1>8, <1>9

\* The tree that is loaded is the one there was.
LEMMA ReopenFacts ==
  ASSUME Inv(Memory), AllSynced, \A s \in Sets : InTree(s) => StoredSegmIsRight(s),
         NEW v, v = [dsc |-> [d \in Dscs |-> ReloadedDsc(d)],
                     sets |-> [s \in Sets |-> ReloadedSet(s)],
                     in_use |-> v.in_use, dirty |-> dirty \cup (in_use \ v.in_use)],
         v.in_use = BlksOf(v.sets, Sets) \cup UNION {v.dsc[d].content : d \in Dscs}
  PROVE  /\ Inv(v) /\ Unforgotten(v, FALSE)
         /\ v.in_use \subseteq in_use /\ v.dirty \subseteq dirty \cup in_use
<1> DEFINE w == Memory
<1>1. /\ Fine(w) /\ TreeInv(w) /\ BlockInv(w) /\ w.dsc = dsc /\ w.sets = sets
      /\ w.in_use = in_use /\ w.dirty = dirty
      /\ w.dsc \in [Dscs -> DscT] /\ w.sets \in [Sets -> SetT] /\ GoodDscs(w.dsc)
      /\ w.in_use \in SUBSET Pos /\ w.dirty \in SUBSET Pos /\ IsFiniteSet(w.in_use)
  BY MemoryFacts, WTFacts DEF Inv, Fine
<1>2. Sets \subseteq Dscs /\ Plain \subseteq Dscs /\ NoSet \notin Sets /\ Plain \cap Sets = {}
  BY SetsAreFinite
<1>3. /\ \A d \in Dscs : v.dsc[d] = ReloadedDsc(d)
      /\ \A s \in Sets : v.sets[s] = ReloadedSet(s)
      /\ v.dirty = dirty \cup (in_use \ v.in_use)
  OBVIOUS
<1>4. \A d \in Dscs : Reloaded(d, w.dsc[d], v.dsc[d])
  BY <1>1, <1>3, ReloadedDscFacts
<1>5. \A s \in Sets : /\ v.sets[s] \in SetT /\ Settled(v.sets[s])
                      /\ v.sets[s].segm \in {w.sets[s].segm, <<>>}
                      /\ CellInv(v.dsc, v.sets[s], s) /\ (~ InTree(s) => v.sets[s] = w.sets[s])
  <2> SUFFICES ASSUME NEW s \in Sets
               PROVE  /\ v.sets[s] \in SetT /\ Settled(v.sets[s])
                      /\ v.sets[s].segm \in {w.sets[s].segm, <<>>}
                      /\ CellInv(v.dsc, v.sets[s], s) /\ (~ InTree(s) => v.sets[s] = w.sets[s])
    OBVIOUS
  <2>1. PICK es : es = v.dsc
    OBVIOUS
  <2>2. \A d \in Dscs : Reloaded(d, dsc[d], es[d])
    BY <1>1, <1>4, <2>1
  <2>3. PICK T : T = ReloadedSet(s)
    OBVIOUS
  <2>4. /\ T \in SetT /\ Settled(T) /\ T.segm \in {sets[s].segm, <<>>}
        /\ CellInv(es, T, s) /\ (~ InTree(s) => T = sets[s])
    BY <2>2, <2>3, ReloadedSetFacts
  <2> QED
    BY <1>1, <1>3, <2>1, <2>3, <2>4
<1>6. v.dsc \in [Dscs -> DscT] /\ v.sets \in [Sets -> SetT]
  <2>1. \A d \in Dscs : v.dsc[d] \in DscT
    BY <1>4 DEF Reloaded
  <2>2. v.dsc = [d \in Dscs |-> ReloadedDsc(d)] /\ v.sets = [s \in Sets |-> ReloadedSet(s)]
    OBVIOUS
  <2> HIDE DEF w
  <2>3. \A d \in Dscs : ReloadedDsc(d) \in DscT
    BY <1>3, <2>1
  <2>4. \A s \in Sets : ReloadedSet(s) \in SetT
    BY <1>3, <1>5
  <2> QED
    BY ONLY <2>2, <2>3, <2>4
<1> HIDE DEF w
<1>7. \A s \in Sets : Settled(w.sets[s])
  BY <1>1, SyncedTree
<1>8. SameTree(w, v)
  BY <1>4, <1>5, <1>7 DEF SameTree, Reloaded, Settled
<1>9. /\ \A d \in Dscs : IsThere(v, d) <=> IsThere(w, d)
      /\ \A d \in Dscs : InTree(d) => IsThere(w, d)
  <2>1. \A d \in Dscs : IsThere(v, d) <=> IsThere(w, d)
    BY <1>8, SameTreeFacts
  <2>2. \A d \in Dscs : InTree(d) => Rooted(w.dsc, d)
    BY <1>1, MemoryFacts
  <2> QED
    BY <1>1, <2>1, <2>2, RootedHolders
<1>10. TreeInv(v)
  <2>1. \A t \in Sets : v.sets[t].to_destroy # {} => v.sets[t].to_remove # {}
    BY <1>5 DEF Settled
  <2>2. \A d \in Dscs : ~ IsThere(w, d) => /\ v.dsc[d] = w.dsc[d]
                                           /\ d \in Sets => v.sets[d] = w.sets[d]
    <3> SUFFICES ASSUME NEW d \in Dscs, ~ IsThere(w, d)
                 PROVE  v.dsc[d] = w.dsc[d] /\ (d \in Sets => v.sets[d] = w.sets[d])
      OBVIOUS
    <3>1. ~ InTree(d)
      BY <1>9
    <3> QED
      BY <1>4, <1>5, <3>1 DEF Reloaded
  <2> QED
    BY <1>1, <1>8, <2>1, <2>2, TreeKept
<1>11. \A d \in Dscs : v.dsc[d].content = w.dsc[d].content
  BY <1>4 DEF Reloaded
<1>12. \A d \in Dscs : BlksAt(v, d) \subseteq BlksAt(w, d)
  <2> SUFFICES ASSUME NEW d \in Dscs PROVE BlksAt(v, d) \subseteq BlksAt(w, d)
    OBVIOUS
  <2>1. v.dsc[d].content = w.dsc[d].content
    BY <1>11
  <2>2. d \in Sets => ToSet(v.sets[d].segm) \subseteq ToSet(w.sets[d].segm)
    <3>1. ToSet(<<>>) = {}
      BY DEF ToSet
    <3> QED
      BY <1>5, <3>1
  <2> QED
    BY <2>1, <2>2 DEF BlksAt
<1>13. v.in_use = UNION {BlksAt(v, d) : d \in Dscs}
  <2>1. ASSUME NEW c PROVE c \in v.in_use <=> \E d \in Dscs : c \in BlksAt(v, d)
    <3>1. c \in v.in_use <=> \/ \E s \in Sets : c \in ToSet(v.sets[s].segm)
                             \/ \E d \in Dscs : c \in v.dsc[d].content
      BY DEF BlksOf
    <3>2. (\E d \in Dscs : c \in BlksAt(v, d))
            <=> \E d \in Dscs : c \in v.dsc[d].content \/ (d \in Sets /\ c \in ToSet(v.sets[d].segm))
      BY DEF BlksAt
    <3> QED
      BY <1>2, <3>1, <3>2
  <2> HIDE DEF BlksAt
  <2> QED
    BY <2>1
<1>14. BlockInv(v)
  <2>1. \A d, e \in Dscs : d # e => BlksAt(v, d) \cap BlksAt(v, e) = {}
    <3>1. \A d, e \in Dscs : d # e => BlksAt(w, d) \cap BlksAt(w, e) = {}
      BY <1>1 DEF BlockInv
    <3> HIDE DEF BlksAt
    <3> QED
      BY <1>12, <3>1
  <2>2. \A s \in Sets : IsInjective(v.sets[s].segm) /\ v.dsc[s].content = {}
    <3>1. IsInjective(<<>>)
      BY DEF IsInjective
    <3> QED
      BY <1>1, <1>2, <1>5, <1>11, <3>1 DEF BlockInv
  <2>3. \A d \in WithContent : IsThere(v, d) => v.dsc[d].content # {}
    <3>1. WithContent \subseteq Dscs
      BY SetsAssumption DEF Dscs
    <3> QED
      BY <1>1, <1>9, <1>11, <3>1 DEF BlockInv
  <2> QED
    BY <1>13, <2>1, <2>2, <2>3 DEF BlockInv
<1>15. v.in_use \subseteq w.in_use
  <2>1. w.in_use = UNION {BlksAt(w, d) : d \in Dscs}
    BY <1>1 DEF BlockInv
  <2> HIDE DEF BlksAt
  <2> QED
    BY <1>12, <1>13, <2>1
<1>16. Fine(v)
  <2>1. IsFiniteSet(v.in_use)
    BY <1>1, <1>15, FS_Subset
  <2>2. v \in WT
    <3>1. v.in_use \in SUBSET Pos /\ v.dirty \in SUBSET Pos
      BY <1>1, <1>3, <1>15
    <3>2. PICK a : a = v.dsc
      OBVIOUS
    <3>3. PICK b : b = v.sets
      OBVIOUS
    <3>4. PICK c : c = v.in_use
      OBVIOUS
    <3>5. PICK e : e = v.dirty
      OBVIOUS
    <3>6. v = [dsc |-> a, sets |-> b, in_use |-> c, dirty |-> e]
      <4>1. PICK x : x = dirty \cup (in_use \ v.in_use)
        OBVIOUS
      <4>2. PICK y : y = [d \in Dscs |-> ReloadedDsc(d)]
        OBVIOUS
      <4>3. PICK z : z = [s \in Sets |-> ReloadedSet(s)]
        OBVIOUS
      <4>4. v = [dsc |-> y, sets |-> z, in_use |-> c, dirty |-> x]
        BY <3>4, <4>1, <4>2, <4>3
      <4> QED
        BY ONLY <3>2, <3>3, <3>4, <3>5, <4>4
    <3> QED
      BY ONLY <1>6, <3>1, <3>2, <3>3, <3>4, <3>5, <3>6 DEF WT
  <2>3. GoodDscs(v.dsc)
    <3> SUFFICES ASSUME NEW d \in Dscs
                 PROVE  /\ v.dsc[d].owner # NoSet => d # Root /\ v.dsc[d].data \in DataOf(d)
                        /\ v.dsc[d].written = {} \/ \E r \in RecsOf(d) : v.dsc[d].written = {r}
      BY DEF GoodDscs
    <3>1. Reloaded(d, w.dsc[d], v.dsc[d])
      BY <1>4
    <3>2. w.dsc[d].owner # NoSet => d # Root
      BY <1>1 DEF GoodDscs
    <3> QED
      BY <3>1, <3>2 DEF Reloaded
  <2>4. GoodSets(v.dsc, v.sets)
    BY <1>5 DEF GoodSets, Settled
  <2> QED
    BY <2>1, <2>2, <2>3, <2>4 DEF Fine
<1>17. Inv(v)
  BY <1>5, <1>10, <1>14, <1>16 DEF Inv
<1>18. Unforgotten(v, FALSE)
  BY <1>2, <1>4 DEF Unforgotten, Reloaded
<1> QED
  BY <1>1, <1>3, <1>15, <1>17, <1>18

(* The invariant of the specification *)

\* Everything is in order, what was changed is pending, and the sets that
\* wait for their sync are in the tree.
SetsInv ==
  /\ Inv(Memory) /\ Unforgotten(Memory, ~ loaded)
  /\ todo \subseteq Sets /\ \A s \in todo : Rooted(dsc, s)
  /\ in_use \cup dirty \subseteq Blks
  /\ loaded \in BOOLEAN /\ release \in BOOLEAN /\ calls \in 0 .. MaxCalls

LEMMA InitSetsInv == Init => SetsInv
<1> SUFFICES ASSUME Init PROVE SetsInv
  OBVIOUS
<1>1. /\ dsc = [d \in Dscs |-> Absent] /\ sets = [s \in Sets |-> EmptySet]
      /\ in_use = {} /\ dirty = {} /\ todo = {} /\ release = FALSE
      /\ loaded = FALSE /\ calls = 0
  BY DEF Init
<1>2. Sets \subseteq Dscs /\ Plain \subseteq Dscs /\ NoSet \notin Sets /\ Root \in Sets
  BY SetsAreFinite
<1>3. PICK w : w = Memory
  OBVIOUS
<1>4. /\ w.dsc = dsc /\ w.sets = sets /\ w.in_use = {} /\ w.dirty = {}
  BY <1>1, <1>3, MemoryFacts
<1>5. /\ Absent \in DscT /\ Absent.owner = NoSet /\ Absent.written = {} /\ Absent.content = {}
  <2>1. <<>> \in Seq(Pos)
    OBVIOUS
  <2> QED
    BY <2>1 DEF Absent, DscT
<1>6. EmptySetIs(EmptySet)
  BY EmptySetFacts
<1>7. EmptySet \in SetT /\ EmptySet.to_destroy = {} /\ EmptySet.to_add = {} /\ EmptySet.to_update = {}
      /\ EmptySet.segm = <<>>
  BY <1>6 DEF EmptySetIs
<1>8. /\ \A d \in Dscs : w.dsc[d] = Absent
      /\ \A s \in Sets : w.sets[s] = EmptySet
      /\ dsc \in [Dscs -> DscT] /\ sets \in [Sets -> SetT]
  BY <1>1, <1>4, <1>5, <1>7
<1>9. Fine(w)
  <2>1. w \in WT
    BY <1>1, <1>3, <1>8 DEF Memory, WT
  <2>2. IsFiniteSet(w.in_use)
    BY <1>4, FS_EmptySet
  <2>3. GoodDscs(w.dsc)
    BY <1>5, <1>8 DEF GoodDscs
  <2>4. GoodSets(w.dsc, w.sets)
    BY <1>7, <1>8 DEF GoodSets
  <2> QED
    BY <2>1, <2>2, <2>3, <2>4 DEF Fine
<1>10. \A d \in Dscs : IsThere(w, d) <=> d = Root
  <2> SUFFICES ASSUME NEW d \in Dscs PROVE Holder(w.dsc, w.sets, d) = NoSet
    BY DEF IsThere
  <2>1. w.dsc \in [Dscs -> DscT]
    BY <1>4, <1>8
  <2>2. w.dsc[d].owner = NoSet /\ \A t \in Sets : d \notin w.sets[t].to_destroy
    BY <1>5, <1>7, <1>8
  <2> QED
    BY <2>1, <2>2, HolderFacts
<1>11. TreeInv(w)
  <2>1. Rooted(w.dsc, Root) /\ IsHeld(w, Root)
    <3>1. w.dsc \in [Dscs -> DscT] /\ Root \in Dscs
      BY <1>2, <1>4, <1>8
    <3>2. Rooted(w.dsc, Root)
      BY <1>9, <3>1, RootedFacts DEF Fine
    <3> QED
      BY <1>9, <3>1, <3>2, RootedHolders
  <2> QED
    BY <1>7, <1>8, <1>10, <2>1 DEF TreeInv
<1>12. BlockInv(w)
  <2>1. ToSet(<<>>) = {}
    BY DEF ToSet
  <2>2. \A d \in Dscs : BlksAt(w, d) = {}
    BY <1>5, <1>7, <1>8, <2>1 DEF BlksAt
  <2>3. IsInjective(<<>>)
    BY DEF IsInjective
  <2>4. \A s \in Sets : IsInjective(w.sets[s].segm) /\ w.dsc[s].content = {}
    BY <1>2, <1>5, <1>7, <1>8, <2>3
  <2>5. \A d \in WithContent : d \in Dscs /\ d # Root
    BY SetsAssumption DEF Dscs
  <2> QED
    BY <1>4, <1>10, <2>2, <2>4, <2>5 DEF BlockInv
<1>13. \A s \in Sets : CellInv(w.dsc, w.sets[s], s)
  <2> SUFFICES ASSUME NEW s \in Sets PROVE CellInv(w.dsc, w.sets[s], s)
    OBVIOUS
  <2>1. Members(w.dsc, s) = {}
    BY <1>2, <1>5, <1>8 DEF Members
  <2> QED
    BY <1>8, <2>1, EmptyCellInv
<1>14. Unforgotten(w, ~ loaded)
  BY <1>2, <1>5, <1>8 DEF Unforgotten
<1>15. calls \in 0 .. MaxCalls
  BY <1>1, SetsAssumption
<1> QED
  BY <1>1, <1>3, <1>9, <1>11, <1>12, <1>13, <1>14, <1>15 DEF SetsInv, Inv

\* A call of the user keeps the invariant if the memory is in order then.
LEMMA CallKeeps ==
  ASSUME SetsInv, Idle, Called, Inv(Memory'), Unforgotten(Memory', ~ loaded), in_use' \subseteq Blks
  PROVE  SetsInv'
<1>1. /\ todo = {} /\ dirty \subseteq Blks /\ loaded \in BOOLEAN /\ release \in BOOLEAN
      /\ calls \in 0 .. MaxCalls
  BY DEF SetsInv, Idle
<1>2. calls' \in 0 .. MaxCalls /\ dirty' = dirty /\ todo' = todo /\ release' = release /\ loaded' = loaded
  BY <1>1, SetsAssumption DEF Called
<1> QED
  BY <1>1, <1>2 DEF SetsInv

LEMMA MemoryTypes ==
  ASSUME SetsInv
  PROVE  /\ Inv(Memory) /\ Fine(Memory) /\ dsc \in [Dscs -> DscT] /\ sets \in [Sets -> SetT]
         /\ GoodDscs(dsc) /\ GoodSets(dsc, sets) /\ in_use \in SUBSET Pos /\ IsFiniteSet(in_use)
         /\ in_use \subseteq Blks /\ Unforgotten(Memory, ~ loaded) /\ (~ loaded) \in BOOLEAN
  BY MemoryFacts, WTFacts DEF SetsInv, Inv, Fine

LEMMA AddKeeps ==
  ASSUME SetsInv, NEW d \in Dscs, NEW s \in Sets, NEW value \in {<<>>} \cup {<<u>> : u \in Values},
         NEW pid \in BOOLEAN, Add(s, d, value, pid)
  PROVE  SetsInv'
<1>1. /\ Inv(Memory) /\ Fine(Memory) /\ in_use \in SUBSET Pos /\ IsFiniteSet(in_use)
      /\ in_use \subseteq Blks /\ Unforgotten(Memory, ~ loaded) /\ (~ loaded) \in BOOLEAN
  BY MemoryTypes
<1>2. PICK content : content = ToSet(IF d \in WithContent THEN NewBlks(in_use, 1) ELSE <<>>)
  OBVIOUS
<1>3. /\ Idle /\ InTree(s) /\ ~ Exists(d) /\ Called
      /\ d \in Sets => value = <<>> /\ ~ pid
      /\ d \in Plain => value # <<>>
      /\ content \subseteq Blks /\ in_use' = in_use \cup content
      /\ dsc' = [dsc EXCEPT ![d] = SetOwner(
                   [Absent EXCEPT !.data = value, !.pid = pid, !.content = content], s)]
      /\ sets' = Adopted(dsc, sets, d, s)
  BY <1>2 DEF Add
<1>4. /\ content \in SUBSET Pos /\ IsFiniteSet(content) /\ content \cap in_use = {}
      /\ d \in WithContent <=> content # {}
  <2>1. CASE d \in WithContent
    <3>1. PICK new : new = NewBlks(in_use, 1)
      OBVIOUS
    <3>2. in_use \in SUBSET Nat
      BY <1>1 DEF Pos
    <3>3. /\ new \in Seq(Pos) /\ Len(new) = 1
          /\ \A i \in 1 .. 1 : new[i] \in Pos /\ new[i] \notin in_use
      BY <1>1, <3>1, <3>2, NewBlksFacts
    <3>4. IsFiniteSet(ToSet(new)) /\ ToSet(new) = {new[i] : i \in 1 .. Len(new)}
      BY <3>3, ToSetFacts
    <3>5. ToSet(new) = {new[1]} /\ new[1] \in Pos /\ new[1] \notin in_use
      <4>1. 1 .. 1 = {1}
        OBVIOUS
      <4> QED
        BY <3>3, <3>4, <4>1
    <3> QED
      BY <1>2, <2>1, <3>1, <3>4, <3>5
  <2>2. CASE d \notin WithContent
    <3>1. content = {}
      BY <1>2, <2>2 DEF ToSet
    <3> QED
      BY <2>2, <3>1, FS_EmptySet
  <2> QED
    BY <2>1, <2>2
<1>5. value \in DataOf(d)
  <2>1. CASE d \in Plain
    BY <1>3, <2>1 DEF DataOf
  <2>2. CASE d \notin Plain
    <3>1. value = <<>>
      BY <1>3, <2>2 DEF Dscs
    <3>2. <<>> \in Seq(Pos)
      OBVIOUS
    <3> QED
      BY <2>2, <3>1, <3>2 DEF DataOf
  <2> QED
    BY <2>1, <2>2
<1>6. d \in Sets => content = {}
  BY <1>4, SetsAssumption
<1>7. PICK w : w = Memory
  OBVIOUS
<1>8. w.dsc = dsc /\ w.sets = sets /\ w.in_use = in_use /\ w.dirty = dirty /\ Inv(w)
  BY <1>1, <1>7, MemoryFacts
<1>9. ~ IsThere(w, d) /\ Rooted(w.dsc, s)
  BY <1>3, <1>7, <1>8, MemoryFacts
<1>10. PICK v : v = AddedTo(w, d, s, value, pid, content)
  OBVIOUS
<1>11. Inv(v) /\ \A fresh \in BOOLEAN : Unforgotten(w, fresh) => Unforgotten(v, fresh)
  <2>1. Inv(w)
    BY <1>8
  <2>2. ~ IsThere(w, d)
    BY <1>9
  <2>3. Rooted(w.dsc, s)
    BY <1>9
  <2>4. content \in SUBSET Pos
    BY <1>4
  <2>5. IsFiniteSet(content)
    BY <1>4
  <2>6. content \cap w.in_use = {}
    BY <1>4, <1>8
  <2>7. d \in WithContent => content # {}
    BY <1>4
  <2> QED
    BY ONLY <1>5, <1>6, <1>10, <2>1, <2>2, <2>3, <2>4, <2>5, <2>6, <2>7, AddedFacts
<1>12. Memory' = v
  <2>1. dirty' = dirty
    BY <1>3 DEF Called
  <2> QED
    BY <1>3, <1>8, <1>10, <2>1 DEF Memory, AddedTo
<1>13. Unforgotten(Memory', ~ loaded)
  BY <1>1, <1>7, <1>11, <1>12
<1> QED
  BY <1>1, <1>3, <1>11, <1>12, <1>13, CallKeeps

LEMMA ModifyKeeps ==
  ASSUME SetsInv, Usage = {}, NEW d \in Dscs, NEW u \in Values, NEW marks \in BOOLEAN,
         Modify(d, <<u>>, marks)
  PROVE  SetsInv'
<1>1. /\ Inv(Memory) /\ dsc \in [Dscs -> DscT] /\ GoodDscs(dsc)
      /\ in_use \subseteq Blks /\ Unforgotten(Memory, ~ loaded) /\ (~ loaded) \in BOOLEAN
  BY MemoryTypes
<1>2. PICK noted \in BOOLEAN : noted = ~ (dsc[d].notified /\ ~ marks)
  OBVIOUS
<1>3. PICK value : value = <<u>>
  OBVIOUS
<1>4. /\ Idle /\ d \in Plain /\ InTree(d) /\ (marks \/ ~ loaded) /\ Called /\ in_use' = in_use
      /\ dsc' = [dsc EXCEPT ![d].data = value, ![d].notified = TRUE]
      /\ sets' = IF noted THEN Notified(sets, dsc[d].owner, d) ELSE sets
  BY <1>2, <1>3 DEF Modify
<1>5. PICK w : w = Memory
  OBVIOUS
<1>6. w.dsc = dsc /\ w.sets = sets /\ w.in_use = in_use /\ w.dirty = dirty /\ Inv(w)
  BY <1>1, <1>5, MemoryFacts
<1>7. d # Root /\ Rooted(w.dsc, d)
  BY <1>4, <1>6, MemoryFacts, SetsAreFinite
<1>8. PICK es : es = dsc'
  OBVIOUS
<1>9. dsc[d] \in DscT /\ value \in DataOf(d)
  BY <1>1, <1>3, <1>4 DEF DataOf
<1>10. PICK r \in DscT : r = dsc[d]
  BY <1>9
<1>11. es = [dsc EXCEPT ![d] = [r EXCEPT !.data = value, !.notified = TRUE]]
  <2>1. es = [dsc EXCEPT ![d].data = value, ![d].notified = TRUE]
    BY <1>4, <1>8
  <2> QED
    BY ONLY <1>1, <1>10, <2>1
<1>12. PICK q : q = [r EXCEPT !.data = value, !.notified = TRUE]
  OBVIOUS
<1>13. /\ q \in DscT /\ q.data = value /\ q.owner = r.owner /\ q.ext = r.ext
       /\ q.content = r.content /\ q.written = r.written /\ q.pid = r.pid
  <2>1. value \in {<<v>> : v \in Values}
    BY <1>3
  <2> QED
    BY ONLY <1>10, <1>12, <2>1 DEF DscT
<1>14. /\ es \in [Dscs -> DscT] /\ es[d] = q /\ \A x \in Dscs \ {d} : es[x] = w.dsc[x]
  BY <1>1, <1>6, <1>11, <1>12, <1>13
<1>15. /\ es[d].data \in DataOf(d)
       /\ es[d].owner = w.dsc[d].owner /\ es[d].ext = w.dsc[d].ext
       /\ es[d].content = w.dsc[d].content /\ es[d].written = w.dsc[d].written
       /\ es[d].pid = w.dsc[d].pid
  BY <1>6, <1>9, <1>10, <1>13, <1>14
<1>16. PICK v : v = [dsc |-> es,
                     sets |-> IF noted THEN Notified(w.sets, w.dsc[d].owner, d) ELSE w.sets,
                     in_use |-> w.in_use, dirty |-> w.dirty]
  OBVIOUS
<1>17. /\ Inv(v)
       /\ \A fresh \in BOOLEAN :
            /\ Unforgotten(w, fresh)
            /\ noted \/ (fresh /\ w.dsc[d].notified) \/ d \notin Plain
            => Unforgotten(v, fresh)
  BY <1>6, <1>7, <1>14, <1>15, <1>16, ModifiedFacts
<1>18. Memory' = v
  <2>1. dirty' = dirty
    BY <1>4 DEF Called
  <2> QED
    BY <1>4, <1>6, <1>8, <1>16, <2>1 DEF Memory
<1>19. noted \/ (~ loaded /\ w.dsc[d].notified)
  <2>1. dsc[d].notified \in BOOLEAN
    BY <1>9, DscTFacts
  <2> QED
    BY <1>2, <1>4, <1>6, <2>1
<1>20. Unforgotten(Memory', ~ loaded)
  BY <1>1, <1>5, <1>17, <1>18, <1>19
<1> QED
  BY <1>1, <1>4, <1>17, <1>18, <1>20, CallKeeps

LEMMA MarkKeeps ==
  ASSUME SetsInv, NEW d \in Dscs, MarkAsModified(d)
  PROVE  SetsInv'
<1>1. /\ Inv(Memory) /\ dsc \in [Dscs -> DscT] /\ GoodDscs(dsc)
      /\ in_use \subseteq Blks /\ Unforgotten(Memory, ~ loaded) /\ (~ loaded) \in BOOLEAN
  BY MemoryTypes
<1>2. /\ Idle /\ InTree(d) /\ d # Root /\ Called /\ in_use' = in_use /\ dsc' = dsc
      /\ sets' = Notified(sets, dsc[d].owner, d)
  BY DEF MarkAsModified
<1>3. PICK w : w = Memory
  OBVIOUS
<1>4. w.dsc = dsc /\ w.sets = sets /\ w.in_use = in_use /\ w.dirty = dirty /\ Inv(w)
  BY <1>1, <1>3, MemoryFacts
<1>5. Rooted(w.dsc, d)
  BY <1>2, <1>4, MemoryFacts
<1>6. dsc[d].data \in DataOf(d)
  <2>1. dsc[d].owner # NoSet
    BY <1>1, <1>2, <1>4, <1>5, RootedFacts
  <2> QED
    BY <1>1, <2>1 DEF GoodDscs
<1>7. PICK es : es = dsc
  OBVIOUS
<1>8. PICK noted \in BOOLEAN : noted = TRUE
  OBVIOUS
<1>9. PICK v : v = [dsc |-> es,
                    sets |-> IF noted THEN Notified(w.sets, w.dsc[d].owner, d) ELSE w.sets,
                    in_use |-> w.in_use, dirty |-> w.dirty]
  OBVIOUS
<1>10. /\ es \in [Dscs -> DscT] /\ es[d].data \in DataOf(d)
       /\ es[d].owner = w.dsc[d].owner /\ es[d].ext = w.dsc[d].ext
       /\ es[d].content = w.dsc[d].content /\ es[d].written = w.dsc[d].written
       /\ es[d].pid = w.dsc[d].pid
       /\ \A x \in Dscs \ {d} : es[x] = w.dsc[x]
  BY <1>1, <1>4, <1>6, <1>7
<1>11. /\ Inv(v)
       /\ \A fresh \in BOOLEAN :
            /\ Unforgotten(w, fresh)
            /\ noted \/ (fresh /\ w.dsc[d].notified) \/ d \notin Plain
            => Unforgotten(v, fresh)
  BY <1>2, <1>4, <1>5, <1>9, <1>10, ModifiedFacts
<1>12. Memory' = v
  <2>1. dirty' = dirty
    BY <1>2 DEF Called
  <2> QED
    BY <1>2, <1>4, <1>7, <1>8, <1>9, <2>1 DEF Memory
<1>13. Unforgotten(Memory', ~ loaded)
  BY <1>1, <1>3, <1>8, <1>11, <1>12
<1> QED
  BY <1>1, <1>2, <1>11, <1>12, <1>13, CallKeeps

LEMMA MoveOutKeeps ==
  ASSUME SetsInv, NEW d \in Dscs, NEW home \in Sets, MoveOut(d, home)
  PROVE  SetsInv'
<1>1. /\ Inv(Memory) /\ in_use \subseteq Blks /\ Unforgotten(Memory, ~ loaded)
      /\ (~ loaded) \in BOOLEAN
  BY MemoryTypes
<1>2. /\ Idle /\ d # Root /\ InTree(d) /\ InTree(home) /\ home # dsc[d].owner
      /\ home \notin Tree(d) /\ Called /\ in_use' = in_use
      /\ sets' = Adopted(dsc, Dropped(dsc, sets, d, TRUE), d, home)
      /\ dsc' = [dsc EXCEPT ![d] = [SetOwner(@, home) EXCEPT !.ext = {}]]
  BY DEF MoveOut
<1>3. PICK w : w = Memory
  OBVIOUS
<1>4. w.dsc = dsc /\ w.sets = sets /\ w.in_use = in_use /\ w.dirty = dirty /\ Inv(w)
  BY <1>1, <1>3, MemoryFacts
<1>5. Rooted(w.dsc, d) /\ Rooted(w.dsc, home) /\ d \notin Above(Owners(w.dsc), home)
  BY <1>2, <1>4, MemoryFacts DEF Tree
<1>6. PICK v : v = [dsc |-> [w.dsc EXCEPT ![d] = [SetOwner(@, home) EXCEPT !.ext = {}]],
                    sets |-> Adopted(w.dsc, Dropped(w.dsc, w.sets, d, TRUE), d, home),
                    in_use |-> w.in_use, dirty |-> w.dirty]
  OBVIOUS
<1>7. Inv(v) /\ \A fresh \in BOOLEAN : Unforgotten(w, fresh) => Unforgotten(v, fresh)
  BY <1>2, <1>4, <1>5, <1>6, MovedFacts
<1>8. Memory' = v
  <2>1. dirty' = dirty
    BY <1>2 DEF Called
  <2> QED
    BY <1>2, <1>4, <1>6, <2>1 DEF Memory
<1>9. Unforgotten(Memory', ~ loaded)
  BY <1>1, <1>3, <1>7, <1>8
<1> QED
  BY <1>1, <1>2, <1>7, <1>8, <1>9, CallKeeps

LEMMA EraseKeeps ==
  ASSUME SetsInv, Usage = {}, NEW d \in Dscs, Erase(d)
  PROVE  SetsInv'
<1>1. /\ Inv(Memory) /\ in_use \subseteq Blks /\ Unforgotten(Memory, ~ loaded)
      /\ (~ loaded) \in BOOLEAN
  BY MemoryTypes
<1>2. /\ Idle /\ d # Root /\ InTree(d) /\ Called /\ in_use' = in_use
      /\ \A t \in Tree(d) : sets[t].to_destroy \cap Sets = {}
      /\ sets' = Dropped(dsc, sets, d, FALSE)
      /\ dsc' = [dsc EXCEPT ![d] = SetOwner(@, NoSet)]
  BY DEF Erase
<1>3. PICK w : w = Memory
  OBVIOUS
<1>4. w.dsc = dsc /\ w.sets = sets /\ w.in_use = in_use /\ w.dirty = dirty /\ Inv(w)
  BY <1>1, <1>3, MemoryFacts
<1>5. /\ Rooted(w.dsc, d)
      /\ \A t \in Sets : d \in Above(Owners(w.dsc), t) => w.sets[t].to_destroy \cap Sets = {}
  BY <1>2, <1>4, MemoryFacts DEF Tree
<1>6. PICK v : v = [dsc |-> [w.dsc EXCEPT ![d] = SetOwner(@, NoSet)],
                    sets |-> Dropped(w.dsc, w.sets, d, FALSE),
                    in_use |-> w.in_use, dirty |-> w.dirty]
  OBVIOUS
<1>7. Inv(v) /\ \A fresh \in BOOLEAN : Unforgotten(w, fresh) => Unforgotten(v, fresh)
  BY <1>2, <1>4, <1>5, <1>6, ErasedFacts
<1>8. Memory' = v
  <2>1. dirty' = dirty
    BY <1>2 DEF Called
  <2> QED
    BY <1>2, <1>4, <1>6, <2>1 DEF Memory
<1>9. Unforgotten(Memory', ~ loaded)
  BY <1>1, <1>3, <1>7, <1>8
<1> QED
  BY <1>1, <1>2, <1>7, <1>8, <1>9, CallKeeps

ClearedDscs(ds, s) ==
  [d \in Dscs |-> IF ds[d].owner \in TreeOf(ds, s) THEN SetOwner(ds[d], NoSet) ELSE ds[d]]
ClearedSets(ds, ss, s) ==
  [t \in Sets |->
    IF t \notin TreeOf(ds, s) THEN ss[t]
    ELSE LET M == Members(ds, t)
         IN [ss[t] EXCEPT
               !.to_add = {}, !.to_update = {},
               !.to_remove = @ \cup {ds[d].ext : d \in M},
               !.to_destroy = @ \cup M,
               !.sum = SumWithout(@, ds, M)]]

LEMMA ClearSetKeeps ==
  ASSUME SetsInv, Usage = {}, NEW s \in Sets, ClearSet(s)
  PROVE  SetsInv'
<1>1. /\ Inv(Memory) /\ in_use \subseteq Blks /\ Unforgotten(Memory, ~ loaded)
      /\ (~ loaded) \in BOOLEAN
  BY MemoryTypes
<1>2. Tree(s) = TreeOf(dsc, s)
  BY DEF Tree, TreeOf
<1>3. /\ Idle /\ InTree(s) /\ Called /\ in_use' = in_use
      /\ \A t \in TreeOf(dsc, s) \ {s} : (Members(dsc, t) \cup sets[t].to_destroy) \cap Sets = {}
      /\ sets' = ClearedSets(dsc, sets, s) /\ dsc' = ClearedDscs(dsc, s)
  BY <1>2 DEF ClearSet, ClearedSets, ClearedDscs
<1>4. PICK w : w = Memory
  OBVIOUS
<1>5. w.dsc = dsc /\ w.sets = sets /\ w.in_use = in_use /\ w.dirty = dirty /\ Inv(w)
  BY <1>1, <1>4, MemoryFacts
<1>6. /\ Rooted(w.dsc, s)
      /\ \A t \in TreeOf(w.dsc, s) \ {s} : (Members(w.dsc, t) \cup w.sets[t].to_destroy) \cap Sets = {}
  BY <1>3, <1>5, MemoryFacts
<1>7. PICK v : v = [dsc |-> ClearedDscs(w.dsc, s), sets |-> ClearedSets(w.dsc, w.sets, s),
                    in_use |-> w.in_use, dirty |-> w.dirty]
  OBVIOUS
<1>8. Inv(v) /\ \A fresh \in BOOLEAN : Unforgotten(w, fresh) => Unforgotten(v, fresh)
  BY ONLY <1>5, <1>6, <1>7, ClearedFacts, Zenon DEF ClearedDscs, ClearedSets
<1>9. Memory' = v
  <2>1. dirty' = dirty
    BY <1>3 DEF Called
  <2> QED
    BY <1>3, <1>5, <1>7, <2>1 DEF Memory
<1>10. Unforgotten(Memory', ~ loaded)
  BY <1>1, <1>4, <1>8, <1>9
<1> QED
  BY <1>1, <1>3, <1>8, <1>9, <1>10, CallKeeps

LEMMA AssignKeeps ==
  ASSUME SetsInv, Usage = {}, NEW d \in Dscs, AssignPersistentId(d)
  PROVE  SetsInv'
<1>1. /\ Inv(Memory) /\ in_use \subseteq Blks /\ Unforgotten(Memory, ~ loaded)
      /\ (~ loaded) \in BOOLEAN
  BY MemoryTypes
<1>2. /\ Idle /\ d # Root /\ InTree(d) /\ Called /\ in_use' = in_use
      /\ dsc[d].written = {} /\ sets[dsc[d].owner].to_add = {d}
      /\ sets' = Adopted(dsc, sets, d, dsc[d].owner)
      /\ dsc' = [dsc EXCEPT ![d] = [SetOwner(@, @.owner) EXCEPT !.pid = TRUE]]
  BY DEF AssignPersistentId
<1>3. PICK w : w = Memory
  OBVIOUS
<1>4. w.dsc = dsc /\ w.sets = sets /\ w.in_use = in_use /\ w.dirty = dirty /\ Inv(w)
  BY <1>1, <1>3, MemoryFacts
<1>5. Rooted(w.dsc, d) /\ w.dsc[d].written = {} /\ w.sets[w.dsc[d].owner].to_add = {d}
  BY <1>2, <1>4, MemoryFacts
<1>6. PICK v : v = [dsc |-> [w.dsc EXCEPT ![d] = [SetOwner(@, @.owner) EXCEPT !.pid = TRUE]],
                    sets |-> Adopted(w.dsc, w.sets, d, w.dsc[d].owner),
                    in_use |-> w.in_use, dirty |-> w.dirty]
  OBVIOUS
<1>7. Inv(v) /\ \A fresh \in BOOLEAN : Unforgotten(w, fresh) => Unforgotten(v, fresh)
  BY <1>2, <1>4, <1>5, <1>6, AssignedFacts
<1>8. Memory' = v
  <2>1. dirty' = dirty
    BY <1>2 DEF Called
  <2> QED
    BY <1>2, <1>4, <1>6, <2>1 DEF Memory
<1>9. Unforgotten(Memory', ~ loaded)
  BY <1>1, <1>3, <1>7, <1>8
<1> QED
  BY <1>1, <1>2, <1>7, <1>8, <1>9, CallKeeps

LEMMA FullSyncKeeps ==
  ASSUME SetsInv, NEW s \in Sets, NEW rel \in BOOLEAN, FullSync(s, rel)
  PROVE  SetsInv'
<1>1. /\ InTree(s) /\ todo' = Tree(s) /\ release' = rel
      /\ UNCHANGED <<dsc, sets, in_use, dirty, loaded, calls>>
  BY DEF FullSync
<1>2. Memory' = Memory
  BY <1>1 DEF Memory
<1>3. dsc \in [Dscs -> DscT] /\ Sets \subseteq Dscs
  BY MemoryTypes, SetsAreFinite
<1>4. \A t \in Tree(s) : t \in Sets /\ Rooted(dsc, t)
  <2> SUFFICES ASSUME NEW t \in Tree(s) PROVE t \in Sets /\ Rooted(dsc, t)
    OBVIOUS
  <2>1. t \in Sets /\ t \in Dscs /\ s \in Above(Owners(dsc), t) /\ Root \in Above(Owners(dsc), s)
    BY <1>1, <1>3 DEF Tree, InTree
  <2>2. Owners(dsc) \in Ups
    BY <1>3, OwnersAreUps
  <2>3. Above(Owners(dsc), s) \subseteq Above(Owners(dsc), t)
    BY <2>1, <2>2, AboveThrough
  <2> QED
    BY <2>1, <2>3 DEF Rooted
<1>5. todo' \subseteq Sets /\ \A t \in todo' : Rooted(dsc', t)
  BY <1>1, <1>4
<1> QED
  BY <1>1, <1>2, <1>5 DEF SetsInv

LEMMA SyncKeeps ==
  ASSUME SetsInv, NEW s \in Sets, SyncSet(s)
  PROVE  SetsInv'
<1>1. /\ Inv(Memory) /\ in_use \subseteq Blks /\ Unforgotten(Memory, ~ loaded)
      /\ release \in BOOLEAN
  BY MemoryTypes DEF SetsInv
<1>2. PICK w : w = Memory
  OBVIOUS
<1>3. w.dsc = dsc /\ w.sets = sets /\ w.in_use = in_use /\ w.dirty = dirty /\ Inv(w)
  BY <1>1, <1>2, MemoryFacts
<1>4. s \in todo /\ Rooted(w.dsc, s)
  BY <1>3 DEF SyncSet, SetsInv
<1>5. ToPlace(s) = w.sets[s].to_add \cup TooSmall(w, s)
  BY <1>3 DEF ToPlace, TooSmall
<1>6. PICK order, f, v :
        /\ order \in SetToSeqs(w.sets[s].to_add \cup TooSmall(w, s))
        /\ f = Flushed(w, s, order)
        /\ v = WithHeaderUpdated(IF release THEN Released(f, s) ELSE f, s)
        /\ f.in_use \subseteq Blks
        /\ dsc' = v.dsc /\ sets' = v.sets /\ in_use' = v.in_use /\ dirty' = v.dirty
  <2>1. PICK order \in SetToSeqs(ToPlace(s)) :
          LET f == Flushed(w, s, order)
              v == WithHeaderUpdated(IF release THEN Released(f, s) ELSE f, s)
          IN /\ f.in_use \subseteq Blks
             /\ dsc' = v.dsc /\ sets' = v.sets /\ in_use' = v.in_use /\ dirty' = v.dirty
    BY <1>2 DEF SyncSet, Memory
  <2> QED
    BY <1>5, <2>1
<1>7. PICK rel \in BOOLEAN : rel = release
  BY <1>1
<1>8. v = WithHeaderUpdated(IF rel THEN Released(f, s) ELSE f, s)
  BY <1>6, <1>7
<1>9. /\ Synced(w, v, s) /\ v.in_use \subseteq f.in_use
      /\ v.dirty \subseteq w.dirty \cup w.in_use \cup f.in_use
  BY <1>3, <1>4, <1>6, <1>8, SyncFacts
<1>10. Inv(v) /\ UpToDate(w, v, s)
  BY <1>9 DEF Synced
<1>11. Memory' = v
  <2>1. v = [dsc |-> v.dsc, sets |-> v.sets, in_use |-> v.in_use, dirty |-> v.dirty]
    BY <1>10, WTFacts DEF Inv, Fine
  <2>2. Memory' = [dsc |-> dsc', sets |-> sets', in_use |-> in_use', dirty |-> dirty']
    BY DEF Memory
  <2> QED
    BY <1>6, <2>1, <2>2
<1>12. /\ todo' = todo \ {s} /\ release' = (release /\ todo' # {}) /\ UNCHANGED <<loaded, calls>>
  BY DEF SyncSet
<1>13. Unforgotten(Memory', ~ loaded)
  BY <1>1, <1>2, <1>10, <1>11, UnforgottenAfter
<1>14. \A t \in todo' : Rooted(dsc', t)
  <2>1. \A t \in todo : t \in Dscs /\ Rooted(w.dsc, t)
    BY <1>3, SetsAreFinite DEF SetsInv
  <2>2. \A t \in todo : Rooted(v.dsc, t)
    BY <1>10, <2>1 DEF UpToDate
  <2> QED
    BY <1>6, <1>12, <2>2
<1>15. in_use' \cup dirty' \subseteq Blks
  BY <1>3, <1>6, <1>9 DEF SetsInv
<1>16. release' \in BOOLEAN
  BY <1>12
<1>17. Inv(Memory')
  BY <1>10, <1>11
<1> QED
  BY <1>12, <1>13, <1>14, <1>15, <1>16, <1>17 DEF SetsInv

LEMMA ReopenKeeps ==
  ASSUME SetsInv, Reopen
  PROVE  SetsInv'
<1>1. Inv(Memory) /\ Unforgotten(Memory, ~ loaded)
  BY MemoryTypes
<1>2. /\ Idle /\ AllSynced
      /\ \A s \in Sets : InTree(s) => StoredSegmIsRight(s)
      /\ dsc' = [d \in Dscs |-> ReloadedDsc(d)]
      /\ sets' = [s \in Sets |-> ReloadedSet(s)]
      /\ in_use' = BlksOf(sets', Sets) \cup UNION {dsc'[d].content : d \in Dscs}
      /\ dirty' = dirty \cup (in_use \ in_use')
      /\ loaded' = TRUE /\ calls < MaxCalls /\ calls' = calls + 1 /\ UNCHANGED <<todo, release>>
  BY DEF Reopen, ReloadedDsc, ReloadedSet
<1>3. PICK v : v = Memory'
  OBVIOUS
<1>4. v.dsc = dsc' /\ v.sets = sets' /\ v.in_use = in_use' /\ v.dirty = dirty'
  BY <1>3 DEF Memory
<1>5. v = [dsc |-> [d \in Dscs |-> ReloadedDsc(d)],
           sets |-> [s \in Sets |-> ReloadedSet(s)],
           in_use |-> v.in_use, dirty |-> dirty \cup (in_use \ v.in_use)]
  BY <1>2, <1>3, <1>4 DEF Memory
<1>6. v.in_use = BlksOf(v.sets, Sets) \cup UNION {v.dsc[d].content : d \in Dscs}
  BY <1>2, <1>4
<1>7. /\ Inv(v) /\ Unforgotten(v, FALSE)
      /\ v.in_use \subseteq in_use /\ v.dirty \subseteq dirty \cup in_use
  BY <1>1, <1>2, <1>5, <1>6, ReopenFacts
<1>8. in_use' \cup dirty' \subseteq Blks
  BY <1>4, <1>7 DEF SetsInv
<1>9. todo' = {} /\ release' \in BOOLEAN
  BY <1>2 DEF SetsInv, Idle
<1>10. calls' \in 0 .. MaxCalls
  BY <1>2, SetsAssumption DEF SetsInv
<1>11. Inv(Memory') /\ Unforgotten(Memory', FALSE)
  BY <1>3, <1>7
<1>12. (~ loaded') = FALSE /\ loaded' \in BOOLEAN
  BY <1>2
<1> QED
  BY <1>8, <1>9, <1>10, <1>11, <1>12 DEF SetsInv

LEMMA NextKeeps ==
  ASSUME SetsInv, Usage = {}, [Next]_vars
  PROVE  SetsInv'
<1>1. CASE UNCHANGED vars
  <2>1. Memory' = Memory
    BY <1>1 DEF Memory, vars
  <2> QED
    BY <1>1, <2>1 DEF SetsInv, vars
<1>2. CASE Reopen
  BY <1>2, ReopenKeeps
<1>3. CASE \E s \in Sets : SyncSet(s)
  BY <1>3, SyncKeeps
<1>4. CASE UserCall
  <2>1. ASSUME NEW d \in Dscs, NEW s \in Sets, NEW v \in {<<>>} \cup {<<u>> : u \in Values},
               NEW pid \in BOOLEAN, Add(s, d, v, pid)
        PROVE  SetsInv'
    BY <2>1, AddKeeps
  <2>2. ASSUME NEW d \in Dscs, NEW u \in Values, NEW marks \in BOOLEAN, Modify(d, <<u>>, marks)
        PROVE  SetsInv'
    BY <2>2, ModifyKeeps
  <2>3. ASSUME NEW d \in Dscs, MarkAsModified(d) PROVE SetsInv'
    BY <2>3, MarkKeeps
  <2>4. ASSUME NEW d \in Dscs, Erase(d) PROVE SetsInv'
    BY <2>4, EraseKeeps
  <2>5. ASSUME NEW d \in Dscs, AssignPersistentId(d) PROVE SetsInv'
    BY <2>5, AssignKeeps
  <2>6. ASSUME NEW d \in Dscs, NEW s \in Sets, MoveOut(d, s) PROVE SetsInv'
    BY <2>6, MoveOutKeeps
  <2>7. ASSUME NEW s \in Sets, ClearSet(s) PROVE SetsInv'
    BY <2>7, ClearSetKeeps
  <2>8. ASSUME NEW s \in Sets, NEW rel \in Releases, FullSync(s, rel) PROVE SetsInv'
    BY <2>8, FullSyncKeeps, SetsAssumption
  <2> QED
    BY <1>4, <2>1, <2>2, <2>3, <2>4, <2>5, <2>6, <2>7, <2>8 DEF UserCall
<1> QED
  BY <1>1, <1>2, <1>3, <1>4 DEF Next

\* The invariant is kept by a user that does none of what the code lets it
\* do and breaks the tree.
THEOREM SetsInvHolds ==
  ASSUME Usage = {}
  PROVE  Spec => []SetsInv
<1>1. Init => SetsInv
  BY InitSetsInv
<1>2. SetsInv /\ [Next]_vars => SetsInv'
  BY NextKeeps
<1> QED
  BY <1>1, <1>2, PTL DEF Spec

(* The properties *)

\* A sequence of some of its values only.
LEMMA SeqOfFewer ==
  ASSUME NEW S, NEW T, NEW q \in Seq(S), ToSet(q) \subseteq T
  PROVE  q \in Seq(T)
<1>1. Len(q) \in Nat /\ q \in [1 .. Len(q) -> S] /\ ToSet(q) = {q[i] : i \in 1 .. Len(q)}
  BY ToSetFacts
<1>2. q \in [1 .. Len(q) -> T]
  BY <1>1
<1> QED
  BY <1>1, <1>2

\* The types are what they should be; nobody owns itself.
THEOREM SetsTypes ==
  ASSUME Usage = {}
  PROVE  Spec => []TypeOK
<1>1. ASSUME SetsInv PROVE TypeOK
  <2> DEFINE w == Memory
             up == Holders(w.dsc, w.sets)
  <2>1. /\ Fine(w) /\ TreeInv(w) /\ BlockInv(w) /\ w.dsc = dsc /\ w.sets = sets
        /\ w.in_use = in_use /\ in_use \subseteq Blks
        /\ dsc \in [Dscs -> DscT] /\ sets \in [Sets -> SetT] /\ GoodDscs(dsc) /\ GoodSets(dsc, sets)
        /\ \A s \in Sets : CellInv(dsc, sets[s], s)
    BY <1>1, MemoryTypes, MemoryFacts DEF Inv
  <2>2. /\ Sets \subseteq Dscs /\ Plain \subseteq Dscs /\ NoSet \notin Dscs /\ Root \in Sets
        /\ Root \in Dscs
    BY SetsAreFinite
  <2> HIDE DEF w
  <2>3. \A d \in Dscs : /\ dsc[d].owner \in Sets \cup {NoSet}
                        /\ dsc[d].pid \in BOOLEAN /\ dsc[d].notified \in BOOLEAN
    BY <2>1, DscTFacts
  <2>4. \A d \in Dscs : dsc[d].owner # d
    <3> SUFFICES ASSUME NEW d \in Dscs, dsc[d].owner = d PROVE FALSE
      OBVIOUS
    <3>1. dsc[d].owner # NoSet /\ d # Root
      BY <2>1, <2>2 DEF GoodDscs
    <3>2. Holder(w.dsc, w.sets, d) = d
      BY <2>1, <3>1, HolderFacts
    <3>3. Root \in Above(up, d)
      BY <2>1, <2>2, <3>1, <3>2 DEF TreeInv, IsThere, IsHeld
    <3>4. up \in Ups /\ \A x \in Dscs : up[x] = Holder(w.dsc, w.sets, x)
      BY <2>1, HoldersAreUps
    <3>5. up[Root] = NoSet
      <4>1. dsc[Root].owner = NoSet
        BY <2>1, <2>2 DEF GoodDscs
      <4>2. \A t \in Sets : Root \notin sets[t].to_destroy
        BY <2>1 DEF GoodSets, IsErased
      <4> QED
        BY <2>1, <2>2, <3>4, <4>1, <4>2, HolderFacts
    <3> HIDE DEF up
    <3>6. up[d] # d
      BY <3>1, <3>3, <3>4, <3>5, NoCycle
    <3> QED
      BY <3>2, <3>4, <3>6
  <2>5. \A d \in Dscs : BlksAt(w, d) \subseteq Blks
    <3>1. w.in_use = UNION {BlksAt(w, d) : d \in Dscs}
      BY <2>1 DEF BlockInv
    <3> HIDE DEF BlksAt
    <3> QED
      BY <2>1, <3>1
  <2>6. \A d \in Dscs : dsc[d].content \subseteq Blks
    BY <2>1, <2>5 DEF BlksAt
  <2>7. \A d \in Dscs : Cardinality(dsc[d].written) <= 1
    <3> SUFFICES ASSUME NEW d \in Dscs PROVE Cardinality(dsc[d].written) <= 1
      OBVIOUS
    <3>1. dsc[d].written = {} \/ \E r : dsc[d].written = {r}
      BY <2>1 DEF GoodDscs
    <3>2. CASE dsc[d].written = {}
      BY <3>2, FS_EmptySet
    <3>3. CASE \E r : dsc[d].written = {r}
      BY <3>3, FS_Singleton
    <3> QED
      BY <3>1, <3>2, <3>3
  <2>8. ASSUME NEW s \in Sets
        PROVE  /\ sets[s].segm \in Seq(Blks) /\ sets[s].past \in Nat
               /\ Len(sets[s].cells) = Len(sets[s].segm) * CellsPerBlk
               /\ sets[s].past <= Len(sets[s].cells)
               /\ sets[s].used \subseteq 1 .. sets[s].past
               /\ sets[s].to_add \cup sets[s].to_update \cup sets[s].to_destroy \subseteq Dscs
    <3>1. PICK S \in SetT : S = sets[s]
      BY <2>1
    <3>2. /\ S.segm \in Seq(Pos) /\ S.past \in Nat
          /\ S.to_add \in SUBSET Dscs /\ S.to_update \in SUBSET Dscs /\ S.to_destroy \in SUBSET Dscs
      BY SetTFacts
    <3>3. /\ Len(S.cells) = Len(S.segm) * CellsPerBlk /\ S.past <= Len(S.cells)
          /\ S.used \subseteq 1 .. S.past
      BY <2>1, <3>1 DEF CellInv, Room
    <3>4. ToSet(S.segm) \subseteq Blks
      BY <2>1, <2>2, <2>5, <3>1 DEF BlksAt
    <3>5. S.segm \in Seq(Blks)
      BY <3>2, <3>4, SeqOfFewer
    <3> QED
      BY <3>1, <3>2, <3>3, <3>5
  <2>9. /\ in_use \cup dirty \subseteq Blks /\ todo \subseteq Sets /\ release \in BOOLEAN
        /\ loaded \in BOOLEAN /\ calls \in 0 .. MaxCalls
    BY <1>1 DEF SetsInv
  <2> QED
    BY <2>3, <2>4, <2>6, <2>7, <2>8, <2>9 DEF TypeOK
<1>2. Spec => []SetsInv
  BY SetsInvHolds
<1> QED
  BY <1>1, <1>2, PTL

\* Every block and every cell that was given is held once, whatever was
\* erased, moved, flushed or loaded: nothing is lost and nothing is given
\* twice.
THEOREM SpaceHeld ==
  ASSUME Usage = {}
  PROVE  Spec => []SpaceIsHeld
<1>1. ASSUME SetsInv PROVE SpaceIsHeld
  <2> DEFINE w == Memory
             SS == {s \in Sets : Exists(s)}
             D == {d \in Plain : Exists(d)}
  <2>1. /\ TreeInv(w) /\ BlockInv(w) /\ w.dsc = dsc /\ w.sets = sets
        /\ w.in_use = in_use
        /\ \A s \in Sets : CellInv(dsc, sets[s], s)
    BY <1>1, MemoryTypes, MemoryFacts DEF Inv
  <2>2. /\ Sets \subseteq Dscs /\ Plain \subseteq Dscs /\ Plain \cap Sets = {}
        /\ Dscs = Plain \cup Sets /\ WithContent \subseteq Plain
    BY SetsAreFinite, SetsAssumption DEF Dscs
  <2>3. \A d : Exists(d) <=> IsThere(w, d)
    BY MemoryFacts
  <2> HIDE DEF w
  <2>4. \A s \in Sets : CellsAreHeld(s)
    <3> SUFFICES ASSUME NEW s \in Sets PROVE CellsAreHeld(s)
      OBVIOUS
    <3>1. Claimed(dsc, sets[s], s)
      BY <2>1 DEF CellInv
    <3>2. PICK S : S = sets[s]
      OBVIOUS
    <3>3. Claimed(dsc, S, s)
      BY <3>1, <3>2
    <3>4. /\ \A x \in S.to_remove : \A y \in S.to_remove \ {x} : x \cap (HeaderOf(S) \cup y) = {}
          /\ \A d \in Members(dsc, s) :
               /\ dsc[d].ext \cap (HeaderOf(S) \cup UNION S.to_remove) = {}
               /\ \A e \in Members(dsc, s) \ {d} : dsc[d].ext \cap dsc[e].ext = {}
      <4>1. \A x \in S.to_remove : x \cap HeaderOf(S) = {}
                                   /\ \A y \in S.to_remove : x # y => x \cap y = {}
        BY <3>3 DEF Claimed
      <4>2. \A d \in Members(dsc, s) :
              /\ dsc[d].ext \cap HeaderOf(S) = {} /\ dsc[d].ext \cap UNION S.to_remove = {}
              /\ \A e \in Members(dsc, s) : d # e => dsc[d].ext \cap dsc[e].ext = {}
        BY <3>3 DEF Claimed
      <4>3. ASSUME NEW x \in S.to_remove, NEW y \in S.to_remove \ {x}
            PROVE  x \cap (HeaderOf(S) \cup y) = {}
        <5>1. x \cap HeaderOf(S) = {} /\ x \cap y = {}
          BY <4>1
        <5> QED
          BY <5>1
      <4>4. ASSUME NEW d \in Members(dsc, s)
            PROVE  dsc[d].ext \cap (HeaderOf(S) \cup UNION S.to_remove) = {}
        <5>1. dsc[d].ext \cap HeaderOf(S) = {} /\ dsc[d].ext \cap UNION S.to_remove = {}
          BY <4>2
        <5> QED
          BY <5>1
      <4> QED
        BY <4>2, <4>3, <4>4
    <3>5. S.used = HeaderOf(S) \cup (UNION S.to_remove) \cup UNION {dsc[d].ext : d \in Members(dsc, s)}
      BY <3>3 DEF Claimed
    <3> QED
      BY <3>2, <3>4, <3>5 DEF CellsAreHeld, HeaderOf
  <2>5. /\ \A s \in Sets : BlksAt(w, s) = ToSet(sets[s].segm)
        /\ \A d \in Plain : BlksAt(w, d) = dsc[d].content
    BY <2>1, <2>2 DEF BlksAt, BlockInv
  <2>6. \A d, e \in Dscs : d # e => BlksAt(w, d) \cap BlksAt(w, e) = {}
    BY <2>1 DEF BlockInv
  <2>7. in_use = UNION {BlksAt(w, d) : d \in Dscs}
    BY <2>1 DEF BlockInv
  <2>8. \A d \in Dscs : ~ Exists(d) => BlksAt(w, d) = {}
    <3> SUFFICES ASSUME NEW d \in Dscs, ~ Exists(d) PROVE BlksAt(w, d) = {}
      OBVIOUS
    <3>1. dsc[d] = Absent /\ (d \in Sets => sets[d] = EmptySet)
      BY <2>1, <2>3 DEF TreeInv
    <3>2. Absent.content = {} /\ EmptySet.segm = <<>> /\ ToSet(<<>>) = {}
      BY DEF Absent, EmptySet, ToSet
    <3> QED
      BY <2>1, <3>1, <3>2 DEF BlksAt
  <2> HIDE DEF BlksAt
  <2>9. in_use = BlksOf(sets, SS) \cup UNION {dsc[d].content : d \in D}
    <3>1. ASSUME NEW b \in in_use
          PROVE  b \in BlksOf(sets, SS) \cup UNION {dsc[d].content : d \in D}
      <4>1. PICK d \in Dscs : b \in BlksAt(w, d)
        BY <2>7
      <4>2. Exists(d)
        BY <2>8, <4>1
      <4>3. CASE d \in Sets
        BY <2>5, <4>1, <4>2, <4>3 DEF BlksOf
      <4>4. CASE d \in Plain
        BY <2>5, <4>1, <4>2, <4>4
      <4> QED
        BY <2>2, <4>3, <4>4
    <3>2. ASSUME NEW b \in BlksOf(sets, SS) PROVE b \in in_use
      <4>1. PICK s \in SS : b \in ToSet(sets[s].segm)
        BY DEF BlksOf
      <4> QED
        BY <2>2, <2>5, <2>7, <4>1
    <3>3. ASSUME NEW d \in D, NEW b \in dsc[d].content PROVE b \in in_use
      BY <2>2, <2>5, <2>7
    <3> QED
      BY <3>1, <3>2, <3>3
  <2>10. \A s \in Sets :
           /\ IsInjective(sets[s].segm)
           /\ \A t \in Sets \ {s} : ToSet(sets[s].segm) \cap ToSet(sets[t].segm) = {}
           /\ \A d \in Plain : ToSet(sets[s].segm) \cap dsc[d].content = {}
    <3> SUFFICES ASSUME NEW s \in Sets
                 PROVE  /\ IsInjective(sets[s].segm)
                        /\ \A t \in Sets \ {s} : ToSet(sets[s].segm) \cap ToSet(sets[t].segm) = {}
                        /\ \A d \in Plain : ToSet(sets[s].segm) \cap dsc[d].content = {}
      OBVIOUS
    <3>1. IsInjective(sets[s].segm)
      BY <2>1 DEF BlockInv
    <3>2. \A t \in Sets \ {s} : ToSet(sets[s].segm) \cap ToSet(sets[t].segm) = {}
      BY <2>2, <2>5, <2>6
    <3>3. \A d \in Plain : ToSet(sets[s].segm) \cap dsc[d].content = {}
      <4> SUFFICES ASSUME NEW d \in Plain PROVE ToSet(sets[s].segm) \cap dsc[d].content = {}
        OBVIOUS
      <4>1. d # s /\ d \in Dscs /\ s \in Dscs
        BY <2>2
      <4>2. BlksAt(w, s) \cap BlksAt(w, d) = {}
        BY <2>6, <4>1
      <4> QED
        BY <2>5, <4>2
    <3> QED
      BY <3>1, <3>2, <3>3
  <2>11. \A d \in D : /\ \A e \in D \ {d} : dsc[d].content \cap dsc[e].content = {}
                      /\ d \in WithContent => dsc[d].content # {}
    <3> SUFFICES ASSUME NEW d \in D
                 PROVE  /\ \A e \in D \ {d} : dsc[d].content \cap dsc[e].content = {}
                        /\ d \in WithContent => dsc[d].content # {}
      OBVIOUS
    <3>1. \A e \in D \ {d} : dsc[d].content \cap dsc[e].content = {}
      BY <2>2, <2>5, <2>6
    <3>2. d \in WithContent => dsc[d].content # {}
      BY <2>1, <2>3 DEF BlockInv
    <3> QED
      BY <3>1, <3>2
  <2> HIDE DEF SS, D
  <2>12. SpaceIsHeld
    BY <2>4, <2>9, <2>10, <2>11 DEF SpaceIsHeld, SS, D
  <2> QED
    BY <2>12
<1>2. Spec => []SetsInv
  BY SetsInvHolds
<1> QED
  BY <1>1, <1>2, PTL

\* What was changed in memory is pending until it is written.
THEOREM NothingForgotten ==
  ASSUME Usage = {}
  PROVE  Spec => []NothingIsForgotten
<1>1. ASSUME SetsInv PROVE NothingIsForgotten
  <2>1. /\ dsc \in [Dscs -> DscT] /\ GoodDscs(dsc) /\ Unforgotten(Memory, ~ loaded)
        /\ \A s \in Sets : CellInv(dsc, sets[s], s)
    BY <1>1, MemoryTypes, MemoryFacts DEF Inv
  <2> SUFFICES ASSUME NEW d \in Plain, InTree(d)
               PROVE  LET S == sets[dsc[d].owner]
                      IN /\ dsc[d].ext = {} => d \in S.to_add
                         /\ dsc[d].written # {Record(d, dsc[d])} => d \in S.to_add \cup S.to_update
    BY DEF NothingIsForgotten
  <2>2. d \in Dscs /\ d # Root
    BY SetsAreFinite
  <2>3. PICK s \in Sets : s = dsc[d].owner /\ s # NoSet
    BY <2>1, <2>2, MemoryFacts, RootedFacts
  <2>4. d \in Members(dsc, s) /\ Recorded(dsc, sets[s], s)
    BY <2>1, <2>2, <2>3 DEF Members, CellInv
  <2>5. dsc[d].ext = {} => d \in sets[s].to_add
    BY <2>4, RecordedFacts
  <2>6. dsc[d].written # {Record(d, dsc[d])} => d \in sets[s].to_add \cup sets[s].to_update
    BY <2>1, <2>3, MemoryFacts DEF Unforgotten
  <2> QED
    BY <2>3, <2>5, <2>6
<1>2. Spec => []SetsInv
  BY SetsInvHolds
<1> QED
  BY <1>1, <1>2, PTL

\* The cells after the header are padding, what it left, and whole records.
LEMMA LaidReadable ==
  ASSUME NEW s \in Sets, sets[s] \in SetT, NEW lo, NEW rec, IsLaid(dsc, sets[s], s, lo, rec)
  PROVE  IsReadableBut(s, Leftover)
<1> DEFINE M == Members(dsc, s)
<1>1. PICK q : q = sets[s].cells
  OBVIOUS
<1>2. DOMAIN q = 1 .. Len(q) /\ Len(q) \in Nat /\ HeaderCells \in Nat
  BY <1>1, SetTFacts, SetsAssumption
<1>3. /\ \A d \in M :
           /\ lo[d] \in Pos /\ rec[d].dsc = d
           /\ dsc[d].ext = lo[d] .. lo[d] + Footprint(d, rec[d]) - 1
           /\ Footprint(d, rec[d]) \in Pos
           /\ \A c \in dsc[d].ext : c \in DOMAIN q /\ q[c] = PartOf(rec[d], c - lo[d] + 1)
      /\ \A c \in DOMAIN q :
           /\ c <= HeaderCells => q[c] = Header
           /\ c > HeaderCells => Blank(c, q[c]) \/ \E d \in M : c \in dsc[d].ext
  BY <1>1 DEF IsLaid
<1> HIDE DEF M
<1>4. SUFFICES ASSUME NEW c \in DOMAIN q
               PROVE  IF c <= HeaderCells THEN q[c] = Header
                      ELSE \/ q[c] = Zero
                           \/ c \in Leftover /\ q[c] = Old
                           \/ /\ Len(q[c]) = 2
                              /\ q[c][2] > 1 => q[c - 1] = PartOf(q[c][1], q[c][2] - 1)
                              /\ q[c][2] < Footprint(q[c][1].dsc, q[c][1]) =>
                                   /\ c + 1 \in DOMAIN q
                                   /\ q[c + 1] = PartOf(q[c][1], q[c][2] + 1)
  BY <1>1 DEF IsReadableBut
<1>5. CASE c <= HeaderCells
  BY <1>3, <1>5
<1>6. CASE c > HeaderCells /\ Blank(c, q[c])
  <2>1. q[c] = Zero \/ (c \in Leftover /\ q[c] = Old)
    BY <1>6 DEF Blank
  <2>2. ~ (c <= HeaderCells)
    BY <1>2, <1>6
  <2> QED
    BY <2>1, <2>2
<1>7. CASE c > HeaderCells /\ \E d \in M : c \in dsc[d].ext
  <2>1. ~ (c <= HeaderCells)
    BY <1>2, <1>7
  <2>2. PICK d \in M : c \in dsc[d].ext
    BY <1>7
  <2>3. PICK l \in Nat : l = lo[d]
    BY <1>3, <2>2 DEF Pos
  <2>4. PICK m \in Nat : m = Footprint(d, rec[d])
    BY <1>3, <2>2 DEF Pos
  <2>5. PICK R : R = rec[d]
    OBVIOUS
  <2>6. /\ dsc[d].ext = l .. l + m - 1 /\ R.dsc = d /\ m = Footprint(R.dsc, R)
        /\ \A x \in l .. l + m - 1 : x \in DOMAIN q /\ q[x] = PartOf(R, x - l + 1)
    BY <1>3, <2>2, <2>3, <2>4, <2>5
  <2>7. c \in l .. l + m - 1 /\ c \in Nat
    BY <1>2, <1>4, <2>2, <2>6
  <2>8. q[c] = PartOf(R, c - l + 1)
    BY <2>6, <2>7
  <2>9. Len(q[c]) = 2 /\ q[c][1] = R /\ q[c][2] = c - l + 1
    BY <2>8 DEF PartOf
  <2>10. ASSUME q[c][2] > 1 PROVE q[c - 1] = PartOf(q[c][1], q[c][2] - 1)
    <3>1. c - l + 1 > 1
      BY <2>9, <2>10
    <3>2. c - 1 \in l .. l + m - 1 /\ (c - 1) - l + 1 = (c - l + 1) - 1
      BY <2>3, <2>4, <2>7, <3>1
    <3>3. q[c - 1] = PartOf(R, (c - 1) - l + 1)
      BY <2>6, <3>2
    <3> QED
      BY <2>9, <3>2, <3>3
  <2>11. ASSUME q[c][2] < Footprint(q[c][1].dsc, q[c][1])
         PROVE  c + 1 \in DOMAIN q /\ q[c + 1] = PartOf(q[c][1], q[c][2] + 1)
    <3>1. c - l + 1 < m
      BY <2>6, <2>9, <2>11
    <3>2. c + 1 \in l .. l + m - 1 /\ (c + 1) - l + 1 = (c - l + 1) + 1
      BY <2>3, <2>4, <2>7, <3>1
    <3>3. c + 1 \in DOMAIN q /\ q[c + 1] = PartOf(R, (c + 1) - l + 1)
      BY <2>6, <3>2
    <3> QED
      BY <2>9, <3>2, <3>3
  <2> QED
    BY <2>1, <2>9, <2>10, <2>11
<1>8. c \in Nat
  BY <1>2, <1>4
<1>9. c <= HeaderCells \/ c > HeaderCells
  BY <1>2, <1>8
<1> QED
  BY <1>3, <1>5, <1>6, <1>7, <1>9

\* As many records as descriptors, each once.
LEMMA LaidOnce ==
  ASSUME NEW s \in Sets, dsc \in [Dscs -> DscT], NEW lo, NEW rec, StreamHas(s, lo, rec)
  PROVE  /\ Cardinality(Starts(s)) = Cardinality(Members(dsc, s))
         /\ SetToBag(StreamRecs(s))
              = [r \in StreamRecs(s) |-> Cardinality({c \in Starts(s) : sets[s].cells[c][1] = r})]
<1> DEFINE M == Members(dsc, s)
<1>1. PICK q : q = sets[s].cells
  OBVIOUS
<1>2. /\ Starts(s) = {lo[d] : d \in M} /\ StreamRecs(s) = {rec[d] : d \in M}
      /\ \A d \in M : q[lo[d]][1] = rec[d]
      /\ \A d, e \in M : d # e => lo[d] # lo[e] /\ rec[d] # rec[e]
  BY <1>1 DEF StreamHas
<1>3. IsFiniteSet(M)
  <2>1. M \subseteq Dscs /\ IsFiniteSet(Dscs)
    BY SetsAreFinite DEF Members
  <2> QED
    BY <2>1, FS_Subset
<1> HIDE DEF M
<1>4. Cardinality(Starts(s)) = Cardinality(M)
  <2>1. PICK f : f = [d \in M |-> lo[d]]
    OBVIOUS
  <2>2. f \in Bijection(M, Starts(s))
    <3>1. f \in [M -> Starts(s)] /\ \A d \in M : f[d] = lo[d]
      BY <1>2, <2>1
    <3>2. \A d, e \in M : f[d] = f[e] => d = e
      BY <1>2, <3>1
    <3>3. \A x \in Starts(s) : \E d \in M : f[d] = x
      BY <1>2, <3>1
    <3> QED
      BY <3>1, <3>2, <3>3 DEF Bijection, Injection, Surjection, IsInjective
  <2>3. ExistsBijection(M, Starts(s))
    BY <2>2 DEF ExistsBijection
  <2> QED
    BY <1>3, <2>3, FS_Bijection
<1>5. \A r \in StreamRecs(s) : Cardinality({c \in Starts(s) : q[c][1] = r}) = 1
  <2> SUFFICES ASSUME NEW r \in StreamRecs(s)
               PROVE  Cardinality({c \in Starts(s) : q[c][1] = r}) = 1
    OBVIOUS
  <2>1. PICK d \in M : r = rec[d]
    BY <1>2
  <2>2. {c \in Starts(s) : q[c][1] = r} = {lo[d]}
    <3>1. lo[d] \in Starts(s) /\ q[lo[d]][1] = r
      BY <1>2, <2>1
    <3>2. ASSUME NEW c \in Starts(s), q[c][1] = r PROVE c = lo[d]
      <4>1. PICK e \in M : c = lo[e]
        BY <1>2, <3>2
      <4>2. rec[e] = rec[d]
        BY <1>2, <2>1, <3>2, <4>1
      <4>3. e = d
        BY <1>2, <4>2
      <4> QED
        BY <4>1, <4>3
    <3> QED
      BY <3>1, <3>2
  <2> QED
    BY <2>2, FS_Singleton
<1>6. SetToBag(StreamRecs(s)) = [r \in StreamRecs(s) |-> 1]
  BY DEF SetToBag
<1> QED
  BY <1>1, <1>4, <1>5, <1>6 DEF M

\* A set with nothing pending has its descriptors in its stream, with their
\* last records, and padding, whatever the blocks are. Only the cells that
\* the header left of its blocks may keep what these had before.
THEOREM StreamIsRight ==
  ASSUME Usage = {}
  PROVE  Spec => []StreamIsTheSet
<1>1. ASSUME SetsInv PROVE StreamIsTheSet
  <2>1. /\ dsc \in [Dscs -> DscT] /\ GoodDscs(dsc) /\ Unforgotten(Memory, ~ loaded) /\ TreeInv(Memory)
        /\ sets \in [Sets -> SetT] /\ \A s \in Sets : CellInv(dsc, sets[s], s)
        /\ Memory.dsc = dsc /\ Memory.sets = sets
    BY <1>1, MemoryTypes, MemoryFacts DEF Inv
  <2> SUFFICES ASSUME NEW s \in Sets, InTree(s), ~ Pending(s)
               PROVE  /\ \A r \in StreamRecs(s) : dsc[r.dsc].owner = s
                      /\ Cardinality(Starts(s)) = Cardinality(Members(dsc, s))
                      /\ \A d \in Members(dsc, s) : \E r \in StreamRecs(s) :
                           /\ r.dsc = d /\ r.pid = dsc[d].pid
                           /\ d \in Plain => r.data = dsc[d].data
                      /\ sets[s].segm # <<>> =>
                           /\ IsReadableBut(s, Leftover)
                           /\ sets[s].sum = [r \in StreamRecs(s) |->
                                Cardinality({c \in Starts(s) : sets[s].cells[c][1] = r})]
    BY DEF StreamIsTheSet
  <2>2. Settled(sets[s])
    <3>1. sets[s].to_add = {} /\ sets[s].to_update = {} /\ sets[s].to_remove = {}
      BY DEF Pending
    <3>2. sets[s].to_destroy # {} => sets[s].to_remove # {}
      BY <2>1 DEF TreeInv
    <3> QED
      BY <3>1, <3>2 DEF Settled
  <2>3. PICK S \in SetT : S = sets[s]
    BY <2>1
  <2>4. CellInv(dsc, S, s) /\ Settled(S)
    BY <2>1, <2>2, <2>3
  <2>5. PICK lo, rec : IsLaid(dsc, S, s, lo, rec)
    BY <2>1, <2>4, StreamIsLaid
  <2>6. IsLaid(dsc, sets[s], s, lo, rec) /\ sets[s] \in SetT
    BY <2>3, <2>5
  <2>7. StreamHas(s, lo, rec)
    BY <2>6, LaidStream
  <2>8. StreamRecs(s) = {rec[d] : d \in Members(dsc, s)} /\ StreamRecs(s) = Records(dsc, s)
    BY <2>7 DEF StreamHas
  <2>9. \A d \in Members(dsc, s) : rec[d].dsc = d /\ rec[d].pid = dsc[d].pid /\ dsc[d].written = {rec[d]}
    BY <2>6 DEF IsLaid
  <2>10. \A d \in Members(dsc, s) : d \in Dscs /\ dsc[d].owner = s
    BY DEF Members
  <2>11. \A r \in StreamRecs(s) : dsc[r.dsc].owner = s
    BY <2>8, <2>9, <2>10
  <2>12. ASSUME NEW d \in Members(dsc, s), d \in Plain PROVE rec[d].data = dsc[d].data
    <3>1. dsc[d].owner = s /\ s # NoSet
      BY <2>10, SetsAreFinite
    <3>2. d \notin sets[s].to_add \cup sets[s].to_update
      BY <2>2 DEF Settled
    <3>3. dsc[d].written = {Record(d, dsc[d])}
      BY <2>1, <2>12, <3>1, <3>2 DEF Unforgotten
    <3>4. rec[d] = Record(d, dsc[d])
      BY <2>9, <3>3
    <3> QED
      BY <3>4 DEF Record
  <2>13. \A d \in Members(dsc, s) : \E r \in StreamRecs(s) :
           /\ r.dsc = d /\ r.pid = dsc[d].pid
           /\ d \in Plain => r.data = dsc[d].data
    BY <2>8, <2>9, <2>12
  <2>14. IsReadableBut(s, Leftover)
    BY <2>6, LaidReadable
  <2>15. sets[s].sum = SetToBag(StreamRecs(s))
    BY <2>3, <2>4, <2>8 DEF CellInv
  <2>16. /\ Cardinality(Starts(s)) = Cardinality(Members(dsc, s))
         /\ SetToBag(StreamRecs(s))
              = [r \in StreamRecs(s) |-> Cardinality({c \in Starts(s) : sets[s].cells[c][1] = r})]
    BY <2>1, <2>7, LaidOnce
  <2> QED
    BY <2>11, <2>13, <2>14, <2>15, <2>16
<1>2. Spec => []SetsInv
  BY SetsInvHolds
<1> QED
  BY <1>1, <1>2, PTL

-----------------------------------------------------------------------------
(* The sets are a store *)

IsStoreStep == Store!Next \/ UNCHANGED Store!vars

\* While no stream changes its records, the user edits the tree.
LEMMA EditOrNothing ==
  ASSUME \A s \in Sets : StreamRecs(s)' = StreamRecs(s)
  PROVE  IsStoreStep
<1>1. [s \in Sets |-> {Shown(r) : r \in StreamRecs(s)}]'
        = [s \in Sets |-> {Shown(r) : r \in StreamRecs(s)}]
  <2>1. \A s \in Sets : {Shown(r) : r \in StreamRecs(s)}' = {Shown(r) : r \in StreamRecs(s)}
    BY DEF Shown
  <2> QED
    BY <2>1
<1>2. CASE UNCHANGED [d \in Dscs |->
             IF d # Root /\ InTree(d) THEN {[owner |-> dsc[d].owner, rec |-> Shown(Record(d, dsc[d]))]}
             ELSE {}]
  BY <1>1, <1>2 DEF IsStoreStep, Store!vars
<1>3. CASE ~ UNCHANGED [d \in Dscs |->
             IF d # Root /\ InTree(d) THEN {[owner |-> dsc[d].owner, rec |-> Shown(Record(d, dsc[d]))]}
             ELSE {}]
  <2>1. Store!Edit
    BY <1>1, <1>3 DEF Store!Edit
  <2> QED
    BY <2>1 DEF IsStoreStep, Store!Next
<1> QED
  BY <1>2, <1>3

\* The records of a stream are in its cells.
LEMMA SameCellsSameRecs ==
  ASSUME NEW s \in Sets, sets'[s].cells = sets[s].cells
  PROVE  StreamRecs(s)' = StreamRecs(s)
<1>1. Starts(s)' = Starts(s)
  BY DEF Starts
<1> QED
  BY <1>1 DEF StreamRecs

LEMMA SameCells ==
  ASSUME \A s \in Sets : sets'[s].cells = sets[s].cells
  PROVE  IsStoreStep
  BY SameCellsSameRecs, EditOrNothing

\* Nothing is stored at first, and only the root is in the tree.
LEMMA StoreStarts == Init => Store!Init
<1> SUFFICES ASSUME Init PROVE Store!Init
  OBVIOUS
<1>1. /\ dsc = [d \in Dscs |-> Absent] /\ sets = [s \in Sets |-> EmptySet]
  BY DEF Init
<1>2. \A s \in Sets : StreamRecs(s) = {}
  <2> SUFFICES ASSUME NEW s \in Sets PROVE StreamRecs(s) = {}
    OBVIOUS
  <2>1. sets[s].cells = <<>>
    BY <1>1 DEF EmptySet
  <2>2. Starts(s) = {}
    BY <2>1 DEF Starts
  <2> QED
    BY <2>2 DEF StreamRecs
<1>3. ASSUME NEW d \in Dscs, d # Root PROVE ~ InTree(d)
  <2>1. Absent \in DscT /\ Absent.owner = NoSet
    BY EmptyTypes DEF Absent
  <2>2. dsc \in [Dscs -> DscT] /\ dsc[d].owner = NoSet
    BY <1>1, <2>1
  <2>3. PICK up : up = Owners(dsc)
    OBVIOUS
  <2>4. up \in Ups /\ up[d] = NoSet
    BY <2>2, <2>3, OwnersAreUps
  <2>5. Above(up, d) = {d}
    BY <2>4, AboveUnfold
  <2> QED
    BY <1>3, <2>3, <2>5 DEF InTree
<1> QED
  BY <1>2, <1>3 DEF Store!Init

\* A call of the user changes no stream.
LEMMA CallsStoreNothing ==
  ASSUME SetsInv, UserCall
  PROVE  \A t \in Sets : sets'[t].cells = sets[t].cells
<1>1. dsc \in [Dscs -> DscT] /\ sets \in [Sets -> SetT] /\ GoodDscs(dsc)
  BY MemoryTypes
<1>2. ASSUME NEW ss \in [Sets -> SetT], NEW d \in Dscs, NEW s \in Sets, NEW t \in Sets
      PROVE  Adopted(dsc, ss, d, s)[t].cells = ss[t].cells
  <2>1. PICK tt : tt = Adopted(dsc, ss, d, s)
    OBVIOUS
  <2>2. (\A x \in Sets \ {s} : tt[x] = ss[x]) /\ SameSets(ss[s], tt[s])
    BY <1>1, <2>1, AdoptedFacts
  <2> QED
    BY <2>1, <2>2 DEF SameSets, SameStream
<1>3. ASSUME NEW d \in Dscs, NEW s \in Sets, NEW t \in Sets
      PROVE  Notified(sets, s, d)[t].cells = sets[t].cells
  <2>1. PICK S \in SetT : S = sets[s]
    BY <1>1
  <2>2. \/ Notified(sets, s, d) = sets
        \/ Notified(sets, s, d) = [sets EXCEPT ![s] = [S EXCEPT !.to_update = @ \cup {d}]]
    BY <2>1 DEF Notified
  <2>3. [S EXCEPT !.to_update = @ \cup {d}].cells = S.cells
    BY DEF SetT
  <2>4. PICK T : T = [S EXCEPT !.to_update = @ \cup {d}]
    OBVIOUS
  <2>5. Notified(sets, s, d) = sets \/ Notified(sets, s, d) = [sets EXCEPT ![s] = T]
    BY <2>2, <2>4
  <2> QED
    BY <1>1, <2>1, <2>3, <2>4, <2>5
<1>4. \A d \in Dscs : InTree(d) /\ d # Root => dsc[d].owner \in Sets
  BY <1>1, MemoryFacts, RootedFacts
<1>5. ASSUME NEW d \in Dscs, NEW s \in Sets, NEW v, NEW pid, Add(s, d, v, pid), NEW t \in Sets
      PROVE  sets'[t].cells = sets[t].cells
  BY <1>1, <1>2, <1>5 DEF Add
<1>6. ASSUME NEW d \in Dscs, NEW v, NEW marks, Modify(d, v, marks), NEW t \in Sets
      PROVE  sets'[t].cells = sets[t].cells
  <2>1. d \in Plain /\ InTree(d)
    BY <1>6 DEF Modify
  <2>2. dsc[d].owner \in Sets
    BY <1>4, <2>1, SetsAreFinite
  <2>3. sets' = sets \/ sets' = Notified(sets, dsc[d].owner, d)
    BY <1>6 DEF Modify
  <2> QED
    BY <1>3, <2>2, <2>3
<1>7. ASSUME NEW d \in Dscs, MarkAsModified(d), NEW t \in Sets
      PROVE  sets'[t].cells = sets[t].cells
  <2>1. d # Root /\ InTree(d) /\ sets' = Notified(sets, dsc[d].owner, d)
    BY <1>7 DEF MarkAsModified
  <2> QED
    BY <1>3, <1>4, <2>1
<1>8. ASSUME NEW d \in Dscs, Erase(d), NEW t \in Sets
      PROVE  sets'[t].cells = sets[t].cells
  <2>1. d # Root /\ InTree(d) /\ sets' = Dropped(dsc, sets, d, FALSE)
    BY <1>8 DEF Erase
  <2>2. PICK s \in Sets : s = dsc[d].owner
    BY <1>4, <2>1
  <2>3. PICK S \in SetT : S = sets[s]
    BY <1>1
  <2>4. PICK sum : sum = SumWithout(S.sum, dsc, {d})
    OBVIOUS
  <2>5. PICK T : T = [S EXCEPT !.to_add = @ \ {d}, !.to_update = @ \ {d},
                               !.to_remove = @ \cup {dsc[d].ext},
                               !.to_destroy = @ \cup {d}, !.sum = sum]
    OBVIOUS
  <2>6. T.cells = S.cells
    BY <2>5 DEF SetT
  <2>7. sets' = [sets EXCEPT ![s] = T]
    BY <1>1, <2>1, <2>2, <2>3, <2>4, <2>5 DEF Dropped, KeptToDestroy
  <2> QED
    BY <1>1, <2>3, <2>6, <2>7
<1>9. ASSUME NEW d \in Dscs, AssignPersistentId(d), NEW t \in Sets
      PROVE  sets'[t].cells = sets[t].cells
  <2>1. d # Root /\ InTree(d) /\ sets' = Adopted(dsc, sets, d, dsc[d].owner)
    BY <1>9 DEF AssignPersistentId
  <2> QED
    BY <1>1, <1>2, <1>4, <2>1
<1>10. ASSUME NEW d \in Dscs, NEW home \in Sets, MoveOut(d, home), NEW t \in Sets
       PROVE  sets'[t].cells = sets[t].cells
  <2>1. d # Root /\ InTree(d) /\ sets' = Adopted(dsc, Dropped(dsc, sets, d, TRUE), d, home)
    BY <1>10 DEF MoveOut
  <2>2. PICK s \in Sets : s = dsc[d].owner
    BY <1>4, <2>1
  <2>3. PICK ss : ss = Dropped(dsc, sets, d, TRUE)
    OBVIOUS
  <2>4. LeftWith(dsc, sets, ss, d, s)
    BY <1>1, <2>2, <2>3, DroppedToMove
  <2>5. ss \in [Sets -> SetT] /\ ss[t].cells = sets[t].cells
    BY <2>4 DEF LeftWith, SameStream
  <2> QED
    BY <1>2, <2>1, <2>3, <2>5
<1>11. ASSUME NEW s \in Sets, ClearSet(s), NEW t \in Sets
       PROVE  sets'[t].cells = sets[t].cells
  <2>1. Tree(s) = TreeOf(dsc, s)
    BY DEF Tree, TreeOf
  <2>2. sets' = ClearedSets(dsc, sets, s)
    BY <1>11, <2>1 DEF ClearSet, ClearedSets
  <2>3. PICK S \in SetT : S = sets[t]
    BY <1>1
  <2>4. PICK M : M = Members(dsc, t)
    OBVIOUS
  <2>5. PICK T : T = [S EXCEPT !.to_add = {}, !.to_update = {},
                               !.to_remove = @ \cup {dsc[d].ext : d \in M},
                               !.to_destroy = @ \cup M, !.sum = SumWithout(@, dsc, M)]
    OBVIOUS
  <2>6. T.cells = S.cells
    BY <2>5 DEF SetT
  <2>7. sets'[t] = IF t \notin TreeOf(dsc, s) THEN S ELSE T
    BY <2>2, <2>3, <2>4, <2>5 DEF ClearedSets
  <2> QED
    BY <2>3, <2>6, <2>7
<1>12. ASSUME NEW s, NEW rel, FullSync(s, rel), NEW t \in Sets
       PROVE  sets'[t].cells = sets[t].cells
  BY <1>12 DEF FullSync
<1> QED
  BY <1>5, <1>6, <1>7, <1>8, <1>9, <1>10, <1>11, <1>12 DEF UserCall

\* What is shown of a descriptor.
SameShown(d, r, q) == q.owner = r.owner /\ q.pid = r.pid /\ (d \in Plain => q.data = r.data)

\* What the sync of s does to the rest: who is not in the tree may be
\* destroyed, and the streams of the other sets stay.
OthersShow(w, v, s) ==
  /\ \A d \in Dscs : Rooted(w.dsc, d) => Rooted(v.dsc, d)
  /\ \A d \in Dscs : \/ SameShown(d, w.dsc[d], v.dsc[d])
                     \/ ~ Rooted(w.dsc, d) /\ v.dsc[d].owner = NoSet
  /\ \A t \in Sets \ {s} : \/ v.sets[t].cells = w.sets[t].cells
                           \/ ~ Rooted(w.dsc, t) /\ v.sets[t].cells = <<>>

LEMMA OthersShowThrough ==
  ASSUME NEW u, NEW v, NEW w, NEW s, OthersShow(u, v, s), OthersShow(v, w, s)
  PROVE  OthersShow(u, w, s)
<1>1. Sets \subseteq Dscs
  BY SetsAreFinite
<1>2. \A d \in Dscs : Rooted(u.dsc, d) => Rooted(w.dsc, d)
  BY DEF OthersShow
<1>3. ASSUME NEW d \in Dscs
      PROVE  \/ SameShown(d, u.dsc[d], w.dsc[d])
             \/ ~ Rooted(u.dsc, d) /\ w.dsc[d].owner = NoSet
  <2>1. CASE SameShown(d, u.dsc[d], v.dsc[d]) /\ SameShown(d, v.dsc[d], w.dsc[d])
    BY <2>1 DEF SameShown
  <2>2. CASE ~ Rooted(v.dsc, d) /\ w.dsc[d].owner = NoSet
    BY <2>2 DEF OthersShow
  <2>3. CASE /\ ~ Rooted(u.dsc, d) /\ v.dsc[d].owner = NoSet
             /\ SameShown(d, v.dsc[d], w.dsc[d])
    BY <2>3 DEF SameShown
  <2> QED
    BY <2>1, <2>2, <2>3 DEF OthersShow
<1>4. ASSUME NEW t \in Sets \ {s}
      PROVE  \/ w.sets[t].cells = u.sets[t].cells
             \/ ~ Rooted(u.dsc, t) /\ w.sets[t].cells = <<>>
  <2>1. /\ \/ v.sets[t].cells = u.sets[t].cells
           \/ ~ Rooted(u.dsc, t) /\ v.sets[t].cells = <<>>
        /\ \/ w.sets[t].cells = v.sets[t].cells
           \/ ~ Rooted(v.dsc, t) /\ w.sets[t].cells = <<>>
    BY DEF OthersShow
  <2>2. Rooted(u.dsc, t) => Rooted(v.dsc, t)
    BY <1>1 DEF OthersShow
  <2> QED
    BY <2>1, <2>2
<1> QED
  BY <1>2, <1>3, <1>4 DEF OthersShow

\* Only the stream of s and what is not shown of the descriptors change.
LEMMA OthersAreSame ==
  ASSUME NEW w, Fine(w), NEW v, Fine(v), NEW s \in Sets,
         \A d \in Dscs : SameShown(d, w.dsc[d], v.dsc[d]),
         \A t \in Sets \ {s} : v.sets[t].cells = w.sets[t].cells
  PROVE  OthersShow(w, v, s)
<1>1. w.dsc \in [Dscs -> DscT] /\ v.dsc \in [Dscs -> DscT] /\ GoodDscs(w.dsc)
  BY WTFacts DEF Fine
<1>2. \A x \in Dscs : v.dsc[x].owner = w.dsc[x].owner
  BY DEF SameShown
<1>3. PICK ds \in [Dscs -> DscT], es \in [Dscs -> DscT] : ds = w.dsc /\ es = v.dsc
  BY <1>1
<1>4. GoodDscs(ds) /\ \A x \in Dscs : Rooted(ds, x) => es[x].owner = ds[x].owner
  BY <1>1, <1>2, <1>3
<1>5. \A d \in Dscs : Rooted(ds, d) => Rooted(es, d)
  BY ONLY <1>3, <1>4, RootedKept
<1> QED
  BY <1>3, <1>5 DEF OthersShow

\* The steps of a flush but the destruction, and the ones that follow it.
LEMMA HeaderShows ==
  ASSUME NEW w, Fine(w), NEW s \in Sets, NEW h, h = WithHeader(w, s)
  PROVE  OthersShow(w, h, s)
<1>1. Fine(h)
  BY WithHeaderFacts
<1>2. h = w \/ \E new, more : HeaderedWith(w, h, s, new, more)
  BY WithHeaderFacts
<1>3. \A d \in Dscs : SameShown(d, w.dsc[d], h.dsc[d])
  BY <1>2 DEF HeaderedWith, SameShown
<1>4. \A t \in Sets \ {s} : h.sets[t].cells = w.sets[t].cells
  <2>1. h.dsc = w.dsc /\ (h = w \/ \E T : h.sets = [w.sets EXCEPT ![s] = T])
    BY <1>2 DEF HeaderedWith
  <2>2. w.sets \in [Sets -> SetT]
    BY WTFacts DEF Fine
  <2> QED
    BY <2>1, <2>2
<1> QED
  BY <1>1, <1>3, <1>4, OthersAreSame

LEMMA DeallocatedShows ==
  ASSUME NEW w, Fine(w), NEW s \in Sets, NEW a, a = Deallocated(w, s)
  PROVE  OthersShow(w, a, s)
<1>1. Fine(a) /\ DeallocatedWith(w, a, s)
  BY DeallocatedFacts
<1>2. w.sets \in [Sets -> SetT] /\ w.dsc \in [Dscs -> DscT]
  BY WTFacts DEF Fine
<1>3. ASSUME NEW d \in Dscs PROVE SameShown(d, w.dsc[d], a.dsc[d])
  <2>1. PICK r \in DscT : r = w.dsc[d]
    BY <1>2
  <2>2. PICK ext : ext = ExtAfter(w, s, d)
    OBVIOUS
  <2>3. a.dsc[d] = [r EXCEPT !.ext = ext]
    BY <1>1, <2>1, <2>2 DEF DeallocatedWith
  <2>4. SameShown(d, r, [r EXCEPT !.ext = ext])
    BY DEF SameShown, DscT
  <2> QED
    BY <2>1, <2>3, <2>4
<1>4. \A t \in Sets \ {s} : a.sets[t].cells = w.sets[t].cells
  <2>1. \E T : a.sets = [w.sets EXCEPT ![s] = T]
    BY <1>1 DEF DeallocatedWith
  <2> QED
    BY <1>2, <2>1
<1> QED
  BY <1>1, <1>3, <1>4, OthersAreSame

LEMMA DestroyedShows ==
  ASSUME NEW w, Fine(w), NEW s \in Sets, NEW b, b = Destroyed(w, s)
  PROVE  OthersShow(w, b, s)
<1>1. Fine(b) /\ DestroyedWith(w, b, s)
  BY DestroyedFacts
<1>2. w.sets \in [Sets -> SetT] /\ w.dsc \in [Dscs -> DscT] /\ Sets \subseteq Dscs
  BY WTFacts, SetsAreFinite DEF Fine
<1>3. \A d \in Dscs : Rooted(w.dsc, d) => d \notin Gone(w, s) /\ Rooted(b.dsc, d)
  BY RootedIsNotGone
<1>4. /\ \A d \in Dscs : b.dsc[d] = IF d \in Gone(w, s) THEN Absent ELSE w.dsc[d]
      /\ \A t \in Sets \ {s} : b.sets[t] = IF t \in Gone(w, s) THEN EmptySet ELSE w.sets[t]
  BY <1>1 DEF DestroyedWith
<1>5. Absent.owner = NoSet /\ EmptySet.cells = <<>>
  BY EmptySetFacts DEF Absent, EmptySetIs
<1>6. ASSUME NEW d \in Dscs
      PROVE  \/ SameShown(d, w.dsc[d], b.dsc[d])
             \/ ~ Rooted(w.dsc, d) /\ b.dsc[d].owner = NoSet
  BY <1>3, <1>4, <1>5 DEF SameShown
<1>7. ASSUME NEW t \in Sets \ {s}
      PROVE  \/ b.sets[t].cells = w.sets[t].cells
             \/ ~ Rooted(w.dsc, t) /\ b.sets[t].cells = <<>>
  BY <1>2, <1>3, <1>4, <1>5
<1> QED
  BY <1>3, <1>6, <1>7 DEF OthersShow

LEMMA AllocatedShows ==
  ASSUME NEW w, Fine(w), NEW s \in Sets, NEW P \in SUBSET Dscs,
         \A d \in P : w.dsc[d].data \in DataOf(d),
         NEW order \in SetToSeqs(P), NEW c, c = Allocated(w, s, order)
  PROVE  Fine(c) /\ OthersShow(w, c, s)
<1>1. IsFiniteSet(P)
  BY SetsAreFinite, FS_Subset
<1>2. PICK n \in Nat : order \in [1 .. n -> P]
  BY <1>1, OrderFacts
<1>3. order \in Seq(Dscs) /\ Len(order) = n
  <2>1. order \in [1 .. n -> Dscs]
    BY <1>2
  <2> QED
    BY <2>1, FunctionIsSeq
<1>4. \A i \in 1 .. Len(order) : w.dsc[order[i]].data \in DataOf(order[i])
  BY <1>2, <1>3
<1>5. PICK had : had = Len(w.sets[s].cells)
  OBVIOUS
<1>6. PICK g \in [0 .. Len(order) -> OnlyPlaces(w, s)] : c = Filled(g[Len(order)], s, had)
  BY <1>3, <1>4, <1>5, AllocatedFacts
<1>7. PICK u \in OnlyPlaces(w, s) : u = g[Len(order)]
  BY <1>3, <1>6
<1>8. /\ Fine(u) /\ u \in WT
      /\ \A d \in Dscs : u.dsc[d] = [w.dsc[d] EXCEPT !.ext = u.dsc[d].ext]
      /\ \A t \in Sets \ {s} : u.sets[t] = w.sets[t]
  BY DEF OnlyPlaces
<1>9. Fine(c) /\ c.dsc = u.dsc /\ \E T : c.sets = [u.sets EXCEPT ![s] = T]
  BY <1>6, <1>7, <1>8, FilledFacts
<1>10. w.dsc \in [Dscs -> DscT] /\ u.sets \in [Sets -> SetT]
  BY <1>8, WTFacts DEF Fine
<1>11. ASSUME NEW d \in Dscs PROVE SameShown(d, w.dsc[d], c.dsc[d])
  <2>1. PICK r \in DscT : r = w.dsc[d]
    BY <1>10
  <2>2. PICK ext : ext = u.dsc[d].ext
    OBVIOUS
  <2>3. c.dsc[d] = [r EXCEPT !.ext = ext]
    BY <1>8, <1>9, <2>1, <2>2
  <2>4. SameShown(d, r, [r EXCEPT !.ext = ext])
    BY DEF SameShown, DscT
  <2> QED
    BY <2>1, <2>3, <2>4
<1>12. \A t \in Sets \ {s} : c.sets[t].cells = w.sets[t].cells
  BY <1>8, <1>9, <1>10
<1> QED
  BY <1>9, <1>11, <1>12, OthersAreSame

LEMMA WrittenShows ==
  ASSUME NEW w, Fine(w), NEW s \in Sets, NEW e, e = Written(w, s)
  PROVE  OthersShow(w, e, s)
<1>1. Fine(e) /\ WrittenWith(w, e, s)
  BY WrittenFacts
<1>2. w.sets \in [Sets -> SetT] /\ w.dsc \in [Dscs -> DscT]
  BY WTFacts DEF Fine
<1>3. ASSUME NEW d \in Dscs PROVE SameShown(d, w.dsc[d], e.dsc[d])
  <2>1. PICK r \in DscT : r = w.dsc[d]
    BY <1>2
  <2>2. PICK written : written = {Record(d, w.dsc[d])}
    OBVIOUS
  <2>3. e.dsc[d] = r \/ e.dsc[d] = [r EXCEPT !.written = written, !.notified = FALSE]
    BY <1>1, <2>1, <2>2 DEF WrittenWith
  <2>4. SameShown(d, r, [r EXCEPT !.written = written, !.notified = FALSE]) /\ SameShown(d, r, r)
    BY DEF SameShown, DscT
  <2> QED
    BY <2>1, <2>3, <2>4
<1>4. \A t \in Sets \ {s} : e.sets[t].cells = w.sets[t].cells
  <2>1. \E T : e.sets = [w.sets EXCEPT ![s] = T]
    BY <1>1 DEF WrittenWith
  <2> QED
    BY <1>2, <2>1
<1> QED
  BY <1>1, <1>3, <1>4, OthersAreSame

LEMMA NotifiesShows ==
  ASSUME NEW w, Fine(w), NEW s \in Sets, s # Root => w.dsc[s].owner \in Sets,
         NEW segm, NEW f, f = Notifies(w, s, segm)
  PROVE  Fine(f) /\ OthersShow(w, f, s)
<1>1. Fine(f) /\ NotifiesWith(w, f, s)
  BY NotifiesFacts
<1>2. w.sets \in [Sets -> SetT] /\ w.dsc \in [Dscs -> DscT] /\ Sets \subseteq Dscs
  BY WTFacts, SetsAreFinite DEF Fine
<1>3. ASSUME NEW d \in Dscs PROVE SameShown(d, w.dsc[d], f.dsc[d])
  <2>1. PICK r \in DscT : r = w.dsc[s]
    BY <1>2
  <2>2. f.dsc = w.dsc \/ f.dsc = [w.dsc EXCEPT ![s] = [r EXCEPT !.notified = TRUE]]
    BY <1>1, <2>1 DEF NotifiesWith
  <2>3. SameShown(s, r, [r EXCEPT !.notified = TRUE])
    BY DEF SameShown, DscT
  <2>4. SameShown(d, w.dsc[d], w.dsc[d])
    BY DEF SameShown
  <2>5. PICK q : q = [r EXCEPT !.notified = TRUE]
    OBVIOUS
  <2>6. (f.dsc = w.dsc \/ f.dsc = [w.dsc EXCEPT ![s] = q]) /\ SameShown(s, r, q)
    BY <2>2, <2>3, <2>5
  <2> QED
    BY <1>2, <2>1, <2>4, <2>6
<1>4. ASSUME NEW t \in Sets PROVE f.sets[t].cells = w.sets[t].cells
  <2>1. CASE f.sets = w.sets
    BY <2>1
  <2>2. CASE f.sets # w.sets
    <3>1. PICK o \in Sets : f.sets = [w.sets EXCEPT ![o] = [w.sets[o] EXCEPT !.to_update = @ \cup {s}]]
      BY <1>1, <2>2 DEF NotifiesWith, NotifiedWith
    <3>2. PICK S \in SetT : S = w.sets[o]
      BY <1>2
    <3>3. [S EXCEPT !.to_update = @ \cup {s}].cells = S.cells
      BY DEF SetT
    <3>4. PICK T : T = [S EXCEPT !.to_update = @ \cup {s}]
      OBVIOUS
    <3>5. f.sets = [w.sets EXCEPT ![o] = T] /\ T.cells = S.cells
      BY <3>1, <3>2, <3>3, <3>4
    <3> QED
      BY <1>2, <3>2, <3>5
  <2> QED
    BY <2>1, <2>2
<1> QED
  BY <1>1, <1>3, <1>4, OthersAreSame

LEMMA ReleasedShows ==
  ASSUME NEW w, Fine(w), NEW s \in Sets, Room(w.sets[s]), NEW v, v = Released(w, s)
  PROVE  OthersShow(w, v, s)
<1>1. Fine(v) /\ ReleasedWith(w, v, s)
  BY ReleasedFacts
<1>2. w.sets \in [Sets -> SetT]
  BY WTFacts DEF Fine
<1>3. v.dsc = w.dsc /\ \E T : v.sets = [w.sets EXCEPT ![s] = T]
  BY <1>1 DEF ReleasedWith
<1>4. \A d \in Dscs : SameShown(d, w.dsc[d], v.dsc[d])
  BY <1>3 DEF SameShown
<1>5. \A t \in Sets \ {s} : v.sets[t].cells = w.sets[t].cells
  BY <1>2, <1>3
<1> QED
  BY <1>1, <1>4, <1>5, OthersAreSame

LEMMA HeaderUpdatedShows ==
  ASSUME NEW w, Fine(w), NEW s \in Sets, NEW v, v = WithHeaderUpdated(w, s)
  PROVE  OthersShow(w, v, s)
<1>1. Fine(v) /\ HeaderUpdatedWith(w, v, s)
  BY HeaderUpdatedFacts
<1>2. w.dsc \in [Dscs -> DscT] /\ s \in Dscs /\ s \notin Plain
  BY WTFacts, SetsAreFinite DEF Fine
<1>3. ASSUME NEW d \in Dscs PROVE SameShown(d, w.dsc[d], v.dsc[d])
  <2>1. PICK r \in DscT : r = w.dsc[s]
    BY <1>2
  <2>2. PICK q : q = [r EXCEPT !.data = v.dsc[s].data]
    OBVIOUS
  <2>3. v.dsc = [w.dsc EXCEPT ![s] = q]
    BY <1>1, <2>1, <2>2 DEF HeaderUpdatedWith
  <2>4. SameShown(s, r, q)
    BY <1>2, <2>2 DEF SameShown, DscT
  <2>5. SameShown(d, w.dsc[d], w.dsc[d])
    BY DEF SameShown
  <2> QED
    BY <1>2, <2>1, <2>3, <2>4, <2>5
<1>4. \A t \in Sets \ {s} : v.sets[t].cells = w.sets[t].cells
  BY <1>1 DEF HeaderUpdatedWith
<1> QED
  BY <1>1, <1>3, <1>4, OthersAreSame

\* What the sync of s does to what is not its own.
LEMMA SyncShows ==
  ASSUME NEW w, Inv(w), NEW s \in Sets, Rooted(w.dsc, s),
         NEW order \in SetToSeqs(w.sets[s].to_add \cup TooSmall(w, s)), NEW rel \in BOOLEAN,
         NEW f, f = Flushed(w, s, order),
         NEW v, v = WithHeaderUpdated(IF rel THEN Released(f, s) ELSE f, s)
  PROVE  OthersShow(w, v, s)
<1>1. PICK P : P = w.sets[s].to_add \cup TooSmall(w, s)
  OBVIOUS
<1>2. Fine(w) /\ s \in Dscs /\ s # NoSet /\ w.dsc \in [Dscs -> DscT] /\ GoodDscs(w.dsc)
  BY SetsAreFinite, WTFacts DEF Inv, Fine
<1>3. \A d \in P : d \in Dscs \ {Root} /\ w.dsc[d].owner = s /\ w.dsc[d].data \in DataOf(d)
  <2>1. P \subseteq ToWrite(w, s)
    BY <1>1 DEF ToWrite, TooSmall
  <2> QED
    BY <1>2, <2>1, ToWriteFacts
<1>4. Fine(f) /\ Room(f.sets[s])
  <2>1. Synced(w, f, s)
    BY FlushedStage
  <2> QED
    BY <2>1 DEF Synced, Inv, CellInv
<1>5. OthersShow(w, f, s)
  <2>1. PICK h : h = WithHeader(w, s)
    OBVIOUS
  <2>2. Fine(h) /\ OthersShow(w, h, s)
    BY <1>2, <2>1, WithHeaderFacts, HeaderShows
  <2>3. CASE ~ RequiresWrite(h.sets[s])
    BY <2>1, <2>2, <2>3 DEF Flushed
  <2>4. CASE RequiresWrite(h.sets[s])
    <3>1. PICK a : a = Deallocated(h, s)
      OBVIOUS
    <3>2. Fine(a) /\ OthersShow(h, a, s)
      BY <2>2, <3>1, DeallocatedFacts, DeallocatedShows
    <3>3. PICK b : b = Destroyed(a, s)
      OBVIOUS
    <3>4. Fine(b) /\ OthersShow(a, b, s)
      BY <3>2, <3>3, DestroyedFacts, DestroyedShows
    <3>5. OthersShow(w, b, s)
      BY <2>2, <3>2, <3>4, OthersShowThrough
    <3>6. \A d \in P : b.dsc[d].data \in DataOf(d)
      <4>1. \A d \in P : Rooted(w.dsc, d)
        BY <1>2, <1>3, RootedFacts
      <4>2. \A d \in P : d \in Dscs /\ b.dsc[d].owner = s
        BY <1>3, <3>5, <4>1 DEF OthersShow, SameShown
      <4>3. GoodDscs(b.dsc)
        BY <3>4 DEF Fine
      <4> QED
        BY <1>2, <4>2, <4>3 DEF GoodDscs
    <3>7. PICK c : c = Allocated(b, s, order)
      OBVIOUS
    <3>8. P \in SUBSET Dscs /\ order \in SetToSeqs(P)
      BY <1>1, <1>3
    <3>9. Fine(c) /\ OthersShow(b, c, s)
      BY <3>4, <3>6, <3>7, <3>8, AllocatedShows
    <3>10. PICK e : e = Written(c, s)
      OBVIOUS
    <3>11. Fine(e) /\ OthersShow(c, e, s)
      BY <3>9, <3>10, WrittenFacts, WrittenShows
    <3>12. OthersShow(w, c, s)
      BY <3>5, <3>9, OthersShowThrough
    <3>13. OthersShow(w, e, s)
      BY <3>11, <3>12, OthersShowThrough
    <3>14. s # Root => e.dsc[s].owner \in Sets
      <4>1. Rooted(e.dsc, s)
        BY <1>2, <3>13 DEF OthersShow
      <4>2. e.dsc \in [Dscs -> DscT] /\ GoodDscs(e.dsc)
        BY <3>11, WTFacts DEF Fine
      <4> QED
        BY <1>2, <4>1, <4>2, RootedFacts
    <3>15. PICK segm : segm = h.sets[s].segm
      OBVIOUS
    <3>16. f = Notifies(e, s, segm)
      BY <2>1, <2>4, <3>1, <3>3, <3>7, <3>10, <3>15 DEF Flushed
    <3>17. OthersShow(e, f, s)
      BY <3>11, <3>14, <3>16, NotifiesShows
    <3> QED
      BY <3>13, <3>17, OthersShowThrough
  <2> QED
    BY <2>3, <2>4
<1>6. PICK g : g = IF rel THEN Released(f, s) ELSE f
  OBVIOUS
<1>7. Fine(g) /\ OthersShow(w, g, s)
  <2>1. CASE rel
    <3>1. g = Released(f, s)
      BY <1>6, <2>1
    <3>2. Fine(g) /\ OthersShow(f, g, s)
      BY <1>4, <3>1, ReleasedFacts, ReleasedShows
    <3> QED
      BY <1>5, <3>2, OthersShowThrough
  <2>2. CASE ~ rel
    BY <1>4, <1>5, <1>6, <2>2
  <2> QED
    BY <2>1, <2>2
<1>8. OthersShow(g, v, s)
  BY <1>6, <1>7, HeaderUpdatedShows
<1> QED
  BY <1>7, <1>8, OthersShowThrough

\* What a set owns, as the store sees it.
LEMMA OwnedFacts ==
  ASSUME NEW s \in Sets
  PROVE  Store!Owned(s) = {Shown(Record(d, dsc[d])) :
                             d \in {d \in Dscs : d # Root /\ InTree(d) /\ dsc[d].owner = s}}
<1> DEFINE E(d) == [owner |-> dsc[d].owner, rec |-> Shown(Record(d, dsc[d]))]
           T == [d \in Dscs |-> IF d # Root /\ InTree(d) THEN {E(d)} ELSE {}]
           U == UNION {T[d] : d \in Dscs}
           D == {d \in Dscs : d # Root /\ InTree(d)}
<1>1. Store!Owned(s) = {e.rec : e \in {e \in U : e.owner = s}}
  BY DEF Store!Owned
<1>2. \A d \in Dscs : E(d).owner = dsc[d].owner /\ E(d).rec = Shown(Record(d, dsc[d]))
  OBVIOUS
<1> HIDE DEF E
<1>3. \A e : e \in U <=> \E d \in D : e = E(d)
  OBVIOUS
<1> HIDE DEF U, T
<1>4. \A x : x \in Store!Owned(s) <=> \E d \in D : dsc[d].owner = s /\ x = Shown(Record(d, dsc[d]))
  <2>1. \A x : x \in Store!Owned(s) <=> \E e \in U : e.owner = s /\ x = e.rec
    BY <1>1
  <2> QED
    BY <1>2, <1>3, <2>1
<1> QED
  BY <1>4

\* A set of the tree with nothing pending shows what it owns.
ShowsWhatItOwns ==
  \A s \in Sets : Settled(sets[s]) /\ Rooted(dsc, s) =>
    {Shown(r) : r \in StreamRecs(s)} = Store!Owned(s)

LEMMA OwnedIsShown ==
  ASSUME SetsInv
  PROVE  ShowsWhatItOwns
<1>1. /\ dsc \in [Dscs -> DscT] /\ GoodDscs(dsc) /\ Unforgotten(Memory, ~ loaded)
      /\ sets \in [Sets -> SetT] /\ \A s \in Sets : CellInv(dsc, sets[s], s)
      /\ Memory.dsc = dsc /\ Memory.sets = sets
  BY MemoryTypes, MemoryFacts DEF Inv
<1> SUFFICES ASSUME NEW s \in Sets, Settled(sets[s]), Rooted(dsc, s)
             PROVE  {Shown(r) : r \in StreamRecs(s)} = Store!Owned(s)
  BY DEF ShowsWhatItOwns
<1>2. PICK S \in SetT : S = sets[s]
  BY <1>1
<1>3. CellInv(dsc, S, s) /\ Settled(S)
  BY <1>1, <1>2
<1>4. PICK lo, rec : IsLaid(dsc, S, s, lo, rec)
  BY <1>1, <1>3, StreamIsLaid
<1>5. IsLaid(dsc, sets[s], s, lo, rec) /\ sets[s] \in SetT
  BY <1>2, <1>4
<1>6. StreamHas(s, lo, rec)
  BY ONLY <1>5, LaidStream
<1>7. StreamRecs(s) = {rec[d] : d \in Members(dsc, s)}
  BY <1>6 DEF StreamHas
<1>8. \A d \in Members(dsc, s) : rec[d].dsc = d /\ rec[d].pid = dsc[d].pid /\ dsc[d].written = {rec[d]}
  BY <1>5 DEF IsLaid
<1>9. \A d \in Members(dsc, s) : d \in Dscs /\ dsc[d].owner = s
  BY DEF Members
<1>10. ASSUME NEW d \in Members(dsc, s) PROVE Shown(rec[d]) = Shown(Record(d, dsc[d]))
  <2>1. CASE d \in Plain
    <3>1. dsc[d].owner = s /\ s # NoSet
      BY <1>9, SetsAreFinite
    <3>2. d \notin sets[s].to_add \cup sets[s].to_update
      BY DEF Settled
    <3>3. dsc[d].written = {Record(d, dsc[d])}
      BY <1>1, <2>1, <3>1, <3>2 DEF Unforgotten
    <3>4. rec[d] = Record(d, dsc[d])
      BY <1>8, <3>3
    <3> QED
      BY <3>4
  <2>2. CASE d \notin Plain
    BY <1>8, <2>2 DEF Shown, Record
  <2> QED
    BY <2>1, <2>2
<1>11. Members(dsc, s) = {d \in Dscs : d # Root /\ InTree(d) /\ dsc[d].owner = s}
  <2>1. ASSUME NEW d \in Dscs, dsc[d].owner = s PROVE d # Root /\ InTree(d)
    <3>1. s # NoSet
      BY SetsAreFinite
    <3>2. Rooted(dsc, d) /\ d # Root
      BY <1>1, <2>1, <3>1, RootedFacts
    <3> QED
      BY <3>2, MemoryFacts
  <2> QED
    BY <2>1 DEF Members
<1> QED
  BY <1>7, <1>10, <1>11, OwnedFacts

LEMMA NoCellsNoRecs ==
  ASSUME NEW s \in Sets, sets'[s].cells = <<>>
  PROVE  StreamRecs(s)' = {}
<1>1. Starts(s)' = {}
  BY DEF Starts
<1> QED
  BY <1>1 DEF StreamRecs

\* The tree that the store sees.
ShownTree ==
  [d \in Dscs |->
    IF d # Root /\ InTree(d) THEN {[owner |-> dsc[d].owner, rec |-> Shown(Record(d, dsc[d]))]}
    ELSE {}]

\* The sync of a set stores what it owns, and at most ends what is stored of
\* sets that were erased.
LEMMA SyncIsSync ==
  ASSUME SetsInv, SetsInv', ShowsWhatItOwns', NEW s \in Sets, SyncSet(s)
  PROVE  IsStoreStep
<1>1. /\ Inv(Memory) /\ release \in BOOLEAN
      /\ dsc \in [Dscs -> DscT] /\ GoodDscs(dsc)
  BY MemoryTypes DEF SetsInv
<1>2. PICK w : w = Memory
  OBVIOUS
<1>3. w.dsc = dsc /\ w.sets = sets /\ w.in_use = in_use /\ w.dirty = dirty /\ Inv(w)
  BY <1>1, <1>2, MemoryFacts
<1>4. s \in todo /\ Rooted(w.dsc, s)
  BY <1>3 DEF SyncSet, SetsInv
<1>5. ToPlace(s) = w.sets[s].to_add \cup TooSmall(w, s)
  BY <1>3 DEF ToPlace, TooSmall
<1>6. PICK order, f, v :
        /\ order \in SetToSeqs(w.sets[s].to_add \cup TooSmall(w, s))
        /\ f = Flushed(w, s, order)
        /\ v = WithHeaderUpdated(IF release THEN Released(f, s) ELSE f, s)
        /\ dsc' = v.dsc /\ sets' = v.sets
  <2>1. PICK order \in SetToSeqs(ToPlace(s)) :
          LET f == Flushed(w, s, order)
              v == WithHeaderUpdated(IF release THEN Released(f, s) ELSE f, s)
          IN dsc' = v.dsc /\ sets' = v.sets
    BY <1>2 DEF SyncSet, Memory
  <2> QED
    BY <1>5, <2>1
<1>7. PICK rel \in BOOLEAN : rel = release
  BY <1>1
<1>8. v = WithHeaderUpdated(IF rel THEN Released(f, s) ELSE f, s)
  BY <1>6, <1>7
<1>9. Synced(w, v, s)
  BY <1>3, <1>4, <1>6, <1>8, SyncFacts
<1>10. OthersShow(w, v, s)
  BY <1>3, <1>4, <1>6, <1>8, SyncShows
<1>11. /\ Rooted(dsc', s) /\ Settled(sets'[s])
       /\ dsc' \in [Dscs -> DscT] /\ GoodDscs(dsc')
  BY <1>6, <1>9, WTFacts DEF Synced, Inv, Fine
<1>12. /\ \A d \in Dscs : Rooted(dsc, d) => Rooted(dsc', d)
       /\ \A d \in Dscs : \/ SameShown(d, dsc[d], dsc'[d])
                          \/ ~ Rooted(dsc, d) /\ dsc'[d].owner = NoSet
       /\ \A t \in Sets \ {s} : \/ sets'[t].cells = sets[t].cells
                                \/ ~ Rooted(dsc, t) /\ sets'[t].cells = <<>>
  BY <1>3, <1>6, <1>10 DEF OthersShow
<1>13. \A d \in Dscs : Rooted(dsc', d) => Rooted(dsc, d)
  <2>1. PICK ds \in [Dscs -> DscT], es \in [Dscs -> DscT] : ds = dsc' /\ es = dsc
    BY <1>1, <1>11
  <2>2. ASSUME NEW x \in Dscs, Rooted(ds, x) PROVE es[x].owner = ds[x].owner
    <3>1. Root \in Dscs /\ Rooted(es, Root)
      BY <1>1, <2>1, SetsAreFinite, RootedFacts
    <3>2. x # Root => ds[x].owner # NoSet
      BY <1>11, <2>1, <2>2, RootedFacts
    <3> QED
      BY <1>12, <2>1, <3>1, <3>2 DEF SameShown
  <2>3. GoodDscs(ds) /\ \A x \in Dscs : Rooted(ds, x) => es[x].owner = ds[x].owner
    BY <1>11, <2>1, <2>2
  <2>4. \A d \in Dscs : Rooted(ds, d) => Rooted(es, d)
    BY ONLY <2>1, <2>3, RootedKept
  <2> QED
    BY <2>1, <2>4
<1>14. \A d \in Dscs : /\ InTree(d) <=> Rooted(dsc, d)
                       /\ InTree(d)' <=> Rooted(dsc', d)
  BY DEF InTree, Rooted
<1>15. ShownTree' = ShownTree
  <2>1. ASSUME NEW d \in Dscs, InTree(d)
        PROVE  dsc'[d].owner = dsc[d].owner /\ Shown(Record(d, dsc'[d])) = Shown(Record(d, dsc[d]))
    <3>1. SameShown(d, dsc[d], dsc'[d])
      BY <1>12, <1>14, <2>1
    <3> QED
      BY <3>1 DEF SameShown, Shown, Record
  <2>2. \A d \in Dscs : InTree(d)' <=> InTree(d)
    BY <1>12, <1>13, <1>14
  <2> QED
    BY <2>1, <2>2 DEF ShownTree, Shown, Record
<1>16. Store!IsInTree(s)
  <2>1. Sets \subseteq Dscs
    BY SetsAreFinite
  <2> QED
    BY <1>3, <1>4, <1>14, <2>1 DEF Store!IsInTree
<1>17. {Shown(r) : r \in StreamRecs(s)}' = Store!Owned(s)
  <2>1. {Shown(r) : r \in StreamRecs(s)}' = Store!Owned(s)'
    BY <1>11 DEF ShowsWhatItOwns
  <2>2. Store!Owned(s)' = Store!Owned(s)
    BY <1>15 DEF ShownTree, Store!Owned
  <2> QED
    BY <2>1, <2>2
<1>18. ASSUME NEW t \in Sets \ {s}
       PROVE  \/ {Shown(r) : r \in StreamRecs(t)}' = {Shown(r) : r \in StreamRecs(t)}
              \/ ~ Store!IsInTree(t) /\ {Shown(r) : r \in StreamRecs(t)}' = {}
  <2>1. CASE sets'[t].cells = sets[t].cells
    <3>1. StreamRecs(t)' = StreamRecs(t)
      BY <2>1, SameCellsSameRecs
    <3> QED
      BY <3>1 DEF Shown
  <2>2. CASE ~ Rooted(dsc, t) /\ sets'[t].cells = <<>>
    <3>1. StreamRecs(t)' = {}
      BY <2>2, NoCellsNoRecs
    <3>2. t \in Dscs /\ Root \in Dscs /\ t # Root
      BY <1>1, <2>2, SetsAreFinite, RootedFacts
    <3>3. ~ Store!IsInTree(t)
      BY <1>14, <2>2, <3>2 DEF Store!IsInTree
    <3> QED
      BY <3>1, <3>3
  <2> QED
    BY <1>12, <2>1, <2>2
<1>19. Store!Sync(s)
  BY <1>15, <1>16, <1>17, <1>18 DEF Store!Sync, ShownTree
<1> QED
  BY <1>19 DEF IsStoreStep, Store!Next

\* What is loaded is what was stored.
LEMMA ReopenStoresNothing ==
  ASSUME SetsInv, Reopen
  PROVE  IsStoreStep
<1>1. Inv(Memory) /\ sets \in [Sets -> SetT] /\ \A s \in Sets : CellInv(dsc, sets[s], s)
  BY MemoryTypes, MemoryFacts DEF Inv
<1>2. /\ AllSynced /\ \A s \in Sets : InTree(s) => StoredSegmIsRight(s)
      /\ sets' = [s \in Sets |-> ReloadedSet(s)]
  BY DEF Reopen, ReloadedSet
<1>3. EmptySet.cells = <<>>
  BY EmptySetFacts DEF EmptySetIs
<1> SUFFICES ASSUME NEW s \in Sets PROVE StreamRecs(s)' = StreamRecs(s)
  BY EditOrNothing
<1>4. sets'[s] = ReloadedSet(s)
  BY <1>2
<1>5. CASE ~ InTree(s)
  <2>1. sets[s] = EmptySet
    BY <1>1, <1>2, <1>5, SyncedTree, SetsAreFinite
  <2>2. sets'[s] = EmptySet
    BY <1>4, <1>5 DEF ReloadedSet
  <2> QED
    BY <2>1, <2>2, SameCellsSameRecs
<1>6. CASE InTree(s) /\ StoredSegm(s) = <<>>
  <2>1. StreamRecs(s)' = {}
    <3>1. sets'[s] = EmptySet
      BY <1>4, <1>6 DEF ReloadedSet
    <3> QED
      BY <1>3, <3>1, NoCellsNoRecs
  <2>2. Members(dsc, s) = {}
    <3>1. CASE sets[s].segm = <<>>
      <4>1. Settled(sets[s])
        BY <1>1, <1>2, SyncedTree
      <4>2. PICK S \in SetT : S = sets[s]
        BY <1>1
      <4> QED
        BY <1>1, <3>1, <4>1, <4>2, NoMembers
    <3>2. CASE sets[s].segm # <<>>
      BY <1>2, <1>6, <3>2 DEF StoredSegmIsRight
    <3> QED
      BY <3>1, <3>2
  <2>3. StreamRecs(s) = {}
    <3>1. StreamRecs(s) = Records(dsc, s)
      BY <1>1, <1>2, SyncedStreams
    <3> QED
      BY <2>2, <3>1 DEF Records
  <2> QED
    BY <2>1, <2>3
<1>7. CASE InTree(s) /\ StoredSegm(s) # <<>>
  <2>1. PICK used, past, sum : sets'[s] = [EmptySet EXCEPT !.segm = sets[s].segm,
          !.cells = sets[s].cells, !.past = past, !.used = used, !.sum = sum]
    BY <1>4, <1>7 DEF ReloadedSet
  <2>2. sets'[s].cells = sets[s].cells
    BY <2>1 DEF EmptySet
  <2> QED
    BY <2>2, SameCellsSameRecs
<1> QED
  BY <1>5, <1>6, <1>7

\* The sets are a store: what is stored of a set is what it owned in its last
\* sync, and of the others nothing changes but that the erased ones go.
THEOREM SetsAreAStore ==
  ASSUME Usage = {}
  PROVE  Spec => ImplementsStore
<1>1. Init => Store!Init
  BY StoreStarts
<1>2. SetsInv => ShowsWhatItOwns
  BY OwnedIsShown
<1>3. SetsInv /\ SetsInv' /\ ShowsWhatItOwns' /\ [Next]_vars => [Store!Next]_(Store!vars)
  <2> SUFFICES ASSUME SetsInv, SetsInv', ShowsWhatItOwns', [Next]_vars PROVE IsStoreStep
    BY DEF IsStoreStep
  <2>1. CASE UNCHANGED vars
    BY <2>1, SameCells DEF vars
  <2>2. CASE UserCall
    BY <2>2, CallsStoreNothing, SameCells
  <2>3. CASE Reopen
    BY <2>3, ReopenStoresNothing
  <2>4. CASE \E s \in Sets : SyncSet(s)
    BY <2>4, SyncIsSync
  <2> QED
    BY <2>1, <2>2, <2>3, <2>4 DEF Next
<1>4. Spec => []SetsInv
  BY SetsInvHolds
<1> QED
  BY <1>1, <1>2, <1>3, <1>4, PTL DEF Spec, ImplementsStore, Store!Spec
=============================================================================
