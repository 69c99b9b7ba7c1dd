----------------------- MODULE DescriptorContentProofs ------------------------
(***************************************************************************)
(* From the parts to the whole. What is true of the operators the content  *)
(* of a descriptor is made of, for fields of any width: the cursors of an  *)
(* io, the words of a header (those of a segment are in ExtentLemmas), the *)
(* copies by chunks, the resizes. Then the invariant of the descriptor in  *)
(* the hands of the two versions of a program (ContentInvariant), that it  *)
(* keeps its types, that its records are read back, and that it is a       *)
(* ContentStore.                                                           *)
(***************************************************************************)
EXTENDS DescriptorContent, ExtentLemmas

(* The cursors of an io *)

\* An io over bytes of any kind, with its two cursors.
IOs(V, sz) == [bytes : [1 .. sz -> V], rd : Cursors(sz), wr : Cursors(sz)]

Clamp(x, lo, hi) == IF x < lo THEN lo ELSE IF x > hi THEN hi ELSE x

\* Where a seek would go if numbers were integers and there were no limits.
Ideal(src_sz, c, pos, way) ==
  CASE way = "beg" -> pos
    [] way = "end" -> src_sz - pos
    [] way = "fwd" -> c.at + pos
    [] way = "bwd" -> c.at - pos

LEMMA CursorFacts ==
  ASSUME NEW src_sz \in U32, NEW c \in Cursors(src_sz)
  PROVE  /\ c.at \in Int /\ c.min \in Int /\ c.end \in Int /\ src_sz \in Int
         /\ 0 <= c.min /\ c.min <= c.at /\ c.at <= c.end /\ c.end <= src_sz
         /\ src_sz < U32Cnt /\ U32Cnt \in Int
BY IOAssumption DEF Cursors, U32

-----------------------------------------------------------------------------
(***************************************************************************)
(* calc_seek: the cursor goes where integers would take it, moved to the   *)
(* nearest limit if that is out of them. No overflow of uint32_t, at any   *)
(* of the four ways, takes it anywhere else (iobase.cpp:45-78).            *)
(***************************************************************************)
THEOREM SeekIsClamp ==
  ASSUME NEW src_sz \in U32, NEW c \in Cursors(src_sz), NEW pos \in U32, NEW way \in Ways
  PROVE  calc_seek(src_sz, c, pos, way) = Clamp(Ideal(src_sz, c, pos, way), c.min, c.end)
<1> DEFINE goal == calc_seek(src_sz, c, pos, way) = Clamp(Ideal(src_sz, c, pos, way), c.min, c.end)
<1>1. /\ c.at \in Int /\ c.min \in Int /\ c.end \in Int /\ src_sz \in Int
      /\ 0 <= c.min /\ c.min <= c.at /\ c.at <= c.end /\ c.end <= src_sz
      /\ src_sz < U32Cnt /\ U32Cnt \in Int
  BY CursorFacts
<1>2. pos \in Int /\ 0 <= pos /\ pos < U32Cnt
  BY IOAssumption DEF U32
<1>3. SeekBeg(c, pos) = Clamp(pos, c.min, c.end)
  BY <1>1, <1>2 DEF SeekBeg, Clamp
<1>4. SeekEnd(src_sz, c, pos) = Clamp(src_sz - pos, c.min, c.end)
  BY <1>1, <1>2 DEF SeekEnd, Clamp
<1>5. SeekFwd(c, pos) = Clamp(c.at + pos, c.min, c.end)
  BY <1>1, <1>2 DEF SeekFwd, PlusU32, Clamp
<1>6. SeekBwd(c, pos) = Clamp(c.at - pos, c.min, c.end)
  BY <1>1, <1>2 DEF SeekBwd, Clamp
<1>7. CASE way = "beg"
  BY <1>3, <1>7 DEF calc_seek, Ideal
<1>8. CASE way = "end"
  BY <1>4, <1>8 DEF calc_seek, Ideal
<1>9. CASE way = "fwd"
  BY <1>5, <1>9 DEF calc_seek, Ideal
<1>10. CASE way = "bwd"
  BY <1>6, <1>10 DEF calc_seek, Ideal
<1> QED
  BY <1>7, <1>8, <1>9, <1>10 DEF Ways

LEMMA ClampInside ==
  ASSUME NEW x \in Int, NEW lo \in Int, NEW hi \in Int, lo <= hi
  PROVE  Clamp(x, lo, hi) \in Int /\ lo <= Clamp(x, lo, hi) /\ Clamp(x, lo, hi) <= hi
BY DEF Clamp

LEMMA IdealIsInt ==
  ASSUME NEW src_sz \in U32, NEW c \in Cursors(src_sz), NEW pos \in U32, NEW way \in Ways
  PROVE  Ideal(src_sz, c, pos, way) \in Int
<1>1. c.at \in Int /\ src_sz \in Int /\ pos \in Int
  BY CursorFacts DEF U32
<1> QED
  BY <1>1 DEF Ideal, Ways

(***************************************************************************)
(* A seek leaves the cursor inside its limits, and the limits where they   *)
(* were: what chk_within_limits asserts after each of them.                *)
(***************************************************************************)
THEOREM SeekKeepsLimits ==
  ASSUME NEW src_sz \in U32, NEW c \in Cursors(src_sz), NEW pos \in U32, NEW way \in Ways
  PROVE  LET moved == Seek(src_sz, c, pos, way)
         IN  /\ moved \in Cursors(src_sz)
             /\ moved.min = c.min /\ moved.end = c.end
<1> DEFINE at == calc_seek(src_sz, c, pos, way)
<1>1. /\ c.min \in Int /\ c.end \in Int /\ src_sz \in Int /\ U32Cnt \in Int
      /\ 0 <= c.min /\ c.min <= c.end /\ c.end <= src_sz /\ src_sz < U32Cnt
  BY CursorFacts
<1>2. at \in Int /\ c.min <= at /\ at <= c.end
  <2> DEFINE ideal == Ideal(src_sz, c, pos, way)
  <2>1. ideal \in Int
    BY IdealIsInt
  <2>2. at = Clamp(ideal, c.min, c.end)
    BY SeekIsClamp
  <2> HIDE DEF ideal, at
  <2> QED  BY <1>1, <2>1, <2>2, ClampInside
<1>3. c \in [at : U32, min : U32, end : U32]
  BY DEF Cursors
<1>4. at \in U32
  BY <1>1, <1>2 DEF U32
<1>5. [c EXCEPT !.at = at] \in [at : U32, min : U32, end : U32]
  BY <1>3, <1>4
<1>6. /\ [c EXCEPT !.at = at].at = at
      /\ [c EXCEPT !.at = at].min = c.min
      /\ [c EXCEPT !.at = at].end = c.end
  BY <1>3
<1> QED
  BY <1>1, <1>2, <1>5, <1>6 DEF Seek, Cursors

-----------------------------------------------------------------------------
(***************************************************************************)
(* limit: the positions between the new limits are those that were asked   *)
(* for and exist, even if min_pos + new_sz overflows a uint32_t, and the   *)
(* cursor is moved to the nearest of them (iobase.cpp:80-110).             *)
(***************************************************************************)
THEOREM LimitIsIntersection ==
  ASSUME NEW src_sz \in U32, NEW c \in Cursors(src_sz), NEW min_pos \in U32, NEW new_sz \in U32
  PROVE  LET limited == Limit(src_sz, c, min_pos, new_sz)
         IN  /\ limited \in Cursors(src_sz)
             /\ limited.at = Clamp(c.at, limited.min, limited.end)
             /\ \A i \in Nat : limited.min <= i /\ i < limited.end
                               <=> i < src_sz /\ min_pos <= i /\ i < min_pos + new_sz
<1> DEFINE limited == Limit(src_sz, c, min_pos, new_sz)
           min == Least(min_pos, src_sz)
           end == IF new_sz <= src_sz - min THEN min + new_sz ELSE src_sz
           at == IF c.at < min THEN min ELSE IF c.at > end THEN end ELSE c.at
<1>1. /\ c.at \in Int /\ src_sz \in Int /\ U32Cnt \in Int /\ min_pos \in Int /\ new_sz \in Int
      /\ 0 <= c.at /\ 0 <= min_pos /\ 0 <= new_sz /\ 0 <= src_sz /\ src_sz < U32Cnt
  BY CursorFacts DEF U32
<1>2. min \in Int /\ 0 <= min /\ min <= src_sz
  BY <1>1 DEF Least
<1>3. end \in Int /\ min <= end /\ end <= src_sz
  BY <1>1, <1>2
<1>4. at \in Int /\ min <= at /\ at <= end /\ at = Clamp(c.at, min, end)
  BY <1>1, <1>2, <1>3 DEF Clamp
<1>5. \A i \in Nat : min <= i /\ i < end <=> i < src_sz /\ min_pos <= i /\ i < min_pos + new_sz
  BY <1>1 DEF Least
<1>6. limited = [at |-> at, min |-> min, end |-> end]
  BY DEF Limit
<1>7. at \in U32 /\ min \in U32 /\ end \in U32
  BY <1>1, <1>2, <1>3, <1>4 DEF U32
<1>8. limited \in [at : U32, min : U32, end : U32]
  BY <1>6, <1>7
<1>9. limited.at = at /\ limited.min = min /\ limited.end = end
  BY <1>6
<1>10. limited \in Cursors(src_sz)
  <2> HIDE DEF limited, at, min, end
  <2> QED  BY <1>3, <1>4, <1>8, <1>9 DEF Cursors
<1> QED
  <2> HIDE DEF limited, at, min, end
  <2>1. limited.at = Clamp(c.at, limited.min, limited.end)
    BY <1>4, <1>9
  <2>2. \A i \in Nat : limited.min <= i /\ i < limited.end
                       <=> i < src_sz /\ min_pos <= i /\ i < min_pos + new_sz
    BY <1>5, <1>9
  <2> QED  BY <1>10, <2>1, <2>2 DEF limited

-----------------------------------------------------------------------------
(***************************************************************************)
(* A write that has room changes no byte out of the limits of its cursor,  *)
(* whatever seeks led there, and leaves an io like the one it had: what a  *)
(* caller hides with a limit stays hidden (iobase.cpp:22-43).              *)
(***************************************************************************)
THEOREM WritesStayInside ==
  ASSUME NEW V, NEW sz \in U32, NEW io \in IOs(V, sz), NEW data \in Seq(V),
         CanWrite(io, Len(data))
  PROVE  LET after == AfterWrite(io, data)
         IN  /\ after \in IOs(V, sz)
             /\ after.rd = io.rd /\ after.wr.min = io.wr.min /\ after.wr.end = io.wr.end
             /\ \A i \in 1 .. sz :
                  after.bytes[i] # io.bytes[i] => io.wr.min < i /\ i <= io.wr.end
<1> DEFINE after == AfterWrite(io, data)
           w == io.wr
           bytes == Patched(io.bytes, w.at, data)
           n == Len(data)
<1>1. /\ io.bytes \in [1 .. sz -> V] /\ io.rd \in Cursors(sz) /\ w \in Cursors(sz)
  BY DEF IOs
<1>2. /\ w.at \in Int /\ w.min \in Int /\ w.end \in Int /\ sz \in Int
      /\ 0 <= w.min /\ w.min <= w.at /\ w.at <= w.end /\ w.end <= sz
      /\ sz < U32Cnt /\ U32Cnt \in Int
  BY <1>1, CursorFacts
<1>3. n \in Int /\ 0 <= n /\ n <= w.end - w.at
  BY DEF CanWrite, Remain
<1>4. \A i \in w.at + 1 .. w.at + n : data[i - w.at] \in V
  BY <1>2, <1>3
<1>5. bytes \in [1 .. sz -> V]
  BY <1>1, <1>4 DEF Patched
<1>6. \A i \in 1 .. sz : bytes[i] # io.bytes[i] => w.min < i /\ i <= w.end
  BY <1>1, <1>2, <1>3 DEF Patched
<1>7. w \in [at : U32, min : U32, end : U32]
  BY <1>1 DEF Cursors
<1>8. w.at + n \in U32
  BY <1>2, <1>3 DEF U32
<1> DEFINE moved == [w EXCEPT !.at = w.at + n]
<1>9. /\ moved \in [at : U32, min : U32, end : U32]
      /\ moved.at = w.at + n /\ moved.min = w.min /\ moved.end = w.end
  BY <1>7, <1>8
<1>10. moved \in Cursors(sz)
  <2> HIDE DEF moved, w, n
  <2> QED  BY <1>2, <1>3, <1>9 DEF Cursors
<1>11. after = [io EXCEPT !.bytes = bytes, !.wr = moved]
  BY <1>1, <1>7 DEF AfterWrite, IOs
<1>12. /\ after \in IOs(V, sz)
       /\ after.bytes = bytes /\ after.rd = io.rd /\ after.wr = moved
  <2> HIDE DEF after, moved, bytes
  <2> QED  BY <1>5, <1>10, <1>11 DEF IOs
<1> QED
  <2> HIDE DEF after, moved, bytes, w, n
  <2>1. \A i \in 1 .. sz : after.bytes[i] # io.bytes[i] => io.wr.min < i /\ i <= io.wr.end
    BY <1>6, <1>12 DEF w
  <2>2. after.wr.min = io.wr.min /\ after.wr.end = io.wr.end
    BY <1>9, <1>12 DEF w
  <2> QED  BY <1>12, <2>1, <2>2 DEF after

-----------------------------------------------------------------------------
(* The words of a header *)

PartRow(part) ==
  part = [csize |-> part.csize, segm |-> part.segm] /\ part.csize \in Nat /\ SegmentRow(part.segm)

PartsRow(cparts) == IsRow(cparts) /\ \A k \in 1 .. Len(cparts) : PartRow(cparts[k])

HeaderRow(hdr) ==
  /\ hdr = [id |-> hdr.id, type |-> hdr.type, cparts |-> hdr.cparts, idata |-> hdr.idata]
  /\ hdr.id \in Nat /\ hdr.type \in Nat
  /\ PartsRow(hdr.cparts) /\ IsRow(hdr.idata)

\* The parts from n on are empty, and the one before is not.
EndsAt(cparts, n) ==
  /\ n > 0 => cparts[n].csize > 0
  /\ \A i \in n + 1 .. Len(cparts) : cparts[i].csize = 0

LEMMA CountIs ==
  ASSUME NEW cparts, PartsRow(cparts)
  PROVE  /\ count_incompressible_cparts(cparts) \in 0 .. Len(cparts)
         /\ EndsAt(cparts, count_incompressible_cparts(cparts))
         /\ \A m \in 0 .. Len(cparts) :
              EndsAt(cparts, m) => m = count_incompressible_cparts(cparts)
<1> DEFINE L == Len(cparts)
           S == {n \in 0 .. L : \A i \in n + 1 .. L : cparts[i].csize = 0}
           cnt == count_incompressible_cparts(cparts)
<1>1. L \in Nat /\ \A i \in 1 .. L : cparts[i].csize \in Nat
  BY RowLen DEF PartsRow, PartRow
<1>2. L \in S /\ S \in SUBSET Nat
  <2>1. L \in 0 .. L /\ \A i \in L + 1 .. L : FALSE
    BY <1>1
  <2> HIDE DEF L
  <2> QED
    BY <1>1, <2>1
<1>3. PICK n \in S : \A m \in S : n <= m
  <2> HIDE DEF S, L
  <2> QED
    BY <1>2, LeastExists
<1>4. n \in 0 .. L /\ EndsAt(cparts, n)
  <2>1. n \in 0 .. L /\ \A i \in n + 1 .. L : cparts[i].csize = 0
    OBVIOUS
  <2>2. ASSUME n > 0, ~ (cparts[n].csize > 0) PROVE FALSE
    <3>1. n \in 1 .. L /\ n - 1 \in 0 .. L /\ ~ (n <= n - 1)
      BY <1>1, <2>1, <2>2
    <3>2. cparts[n].csize = 0
      BY <1>1, <2>2, <3>1
    <3>3. \A i \in n - 1 + 1 .. L : i = n \/ i \in n + 1 .. L
      BY <1>1, <3>1
    <3>4. n - 1 \in S
      BY <2>1, <3>1, <3>2, <3>3
    <3> HIDE DEF S
    <3> QED
      BY <1>3, <3>1, <3>4
  <2> QED
    BY <2>1, <2>2 DEF EndsAt
<1>5. cnt = CHOOSE m \in 0 .. L : EndsAt(cparts, m)
  BY DEF count_incompressible_cparts, EndsAt
<1> HIDE DEF cnt, S
<1>6. cnt \in 0 .. L /\ EndsAt(cparts, cnt)
  BY <1>4, <1>5
<1>7. ASSUME NEW m \in 0 .. L, NEW k \in 0 .. L, EndsAt(cparts, m), EndsAt(cparts, k), m < k
      PROVE  FALSE
  <2>1. k \in m + 1 .. L /\ k > 0 /\ k \in 1 .. L
    BY <1>1, <1>7
  <2>2. cparts[k].csize > 0 /\ cparts[k].csize = 0
    BY <1>7, <2>1 DEF EndsAt
  <2> QED
    BY <1>1, <2>1, <2>2
<1>8. ASSUME NEW m \in 0 .. L, EndsAt(cparts, m) PROVE m = cnt
  <2>1. m \in Int /\ cnt \in Int /\ ~ (m < cnt) /\ ~ (cnt < m)
    BY <1>1, <1>6, <1>7, <1>8
  <2> QED
    BY <2>1
<1> QED
  BY <1>6, <1>8 DEF cnt

LEMMA LowAndHigh ==
  ASSUME NEW n \in Nat
  PROVE  /\ (n % LoCsizeCnt) + ((n \div LoCsizeCnt) * LoCsizeCnt) = n
         /\ (n % LoIsizeCnt) + ((n \div LoIsizeCnt) * LoIsizeCnt) = n
         /\ n < LoIsizeCnt => n % LoIsizeCnt = n
BY DescriptorRecordAssumption

PartWords(part) == CsizeWords(part.csize) \o SegmentWords(part.segm)

LEMMA CsizeWordsRow ==
  ASSUME NEW csize \in Nat
  PROVE  /\ IsRow(CsizeWords(csize))
         /\ Len(CsizeWords(csize)) = IF csize < LoCsizeCnt THEN 1 ELSE 2
         /\ CsizeWords(csize)[1].large = ~ (csize < LoCsizeCnt)
         /\ csize < LoCsizeCnt => CsizeWords(csize)[1].lo_csize = csize
         /\ ~ (csize < LoCsizeCnt) => /\ CsizeWords(csize)[1].lo_csize = csize % LoCsizeCnt
                                      /\ CsizeWords(csize)[2].hi_csize = csize \div LoCsizeCnt
<1>1. CASE csize < LoCsizeCnt
  <2>1. CsizeWords(csize) = <<[large |-> FALSE, lo_csize |-> csize]>>
    BY <1>1 DEF CsizeWords
  <2>2. PICK a : a = [large |-> FALSE, lo_csize |-> csize]
    OBVIOUS
  <2>3. IsRow(<<a>>) /\ Len(<<a>>) = 1 /\ <<a>>[1] = a
    BY ShortRows
  <2>4. a.large = FALSE /\ a.lo_csize = csize
    BY <2>2
  <2>5. PICK u : u = CsizeWords(csize)
    OBVIOUS
  <2>6. u = <<a>>
    BY <2>1, <2>2, <2>5
  <2>7. IsRow(u) /\ Len(u) = 1 /\ u[1].large = FALSE /\ u[1].lo_csize = csize
    BY <2>3, <2>4, <2>6
  <2> QED
    BY <1>1, <2>5, <2>7
<1>2. CASE ~ (csize < LoCsizeCnt)
  <2>1. PICK a, b : /\ a = [large |-> TRUE, lo_csize |-> csize % LoCsizeCnt]
                    /\ b = [hi_csize |-> csize \div LoCsizeCnt]
    OBVIOUS
  <2>2. CsizeWords(csize) = <<a, b>>
    BY <1>2, <2>1 DEF CsizeWords
  <2>3. IsRow(<<a, b>>) /\ Len(<<a, b>>) = 2 /\ <<a, b>>[1] = a /\ <<a, b>>[2] = b
    BY ShortRows
  <2>4. a.large = TRUE /\ a.lo_csize = csize % LoCsizeCnt /\ b.hi_csize = csize \div LoCsizeCnt
    BY <2>1
  <2>5. PICK u : u = CsizeWords(csize)
    OBVIOUS
  <2>6. u = <<a, b>>
    BY <2>2, <2>5
  <2>7. /\ IsRow(u) /\ Len(u) = 2 /\ u[1].large = TRUE
        /\ u[1].lo_csize = csize % LoCsizeCnt /\ u[2].hi_csize = csize \div LoCsizeCnt
    BY <2>3, <2>4, <2>6
  <2> QED
    BY <1>2, <2>5, <2>7
<1> QED
  BY <1>1, <1>2

LEMMA PartWordsRow ==
  ASSUME NEW part, PartRow(part)
  PROVE  /\ IsRow(PartWords(part)) /\ Len(PartWords(part)) \in Nat /\ Len(PartWords(part)) > 0
         /\ Len(PartWords(part)) = PartFootprint(part)
<1>1. IsRow(CsizeWords(part.csize)) /\ Len(CsizeWords(part.csize)) \in {1, 2}
      /\ Len(CsizeWords(part.csize)) = IF part.csize < LoCsizeCnt THEN 1 ELSE 2
  BY CsizeWordsRow DEF PartRow
<1>2. IsRow(SegmentWords(part.segm)) /\ Len(SegmentWords(part.segm)) \in Nat \ {0}
      /\ Len(SegmentWords(part.segm)) = SegmentFootprint(part.segm)
  BY SegmentWordsRow, SegmentFootprintIsExact DEF PartRow, SegmentRow
<1>3. /\ IsRow(PartWords(part))
      /\ Len(PartWords(part)) = Len(CsizeWords(part.csize)) + Len(SegmentWords(part.segm))
  BY <1>1, <1>2, ConcatRows DEF PartWords
<1> QED
  BY <1>1, <1>2, <1>3 DEF PartFootprint

\* A part is read as it was written, be its csize of one word or of two.
LEMMA PartIsReadBack ==
  ASSUME NEW part, PartRow(part), NEW stream, IsRow(stream), NEW at \in Nat,
         Holds(stream, at, PartWords(part))
  PROVE  ReadPart(stream, at) = [part |-> part, at |-> at + Len(PartWords(part))]
<1> DEFINE cw == CsizeWords(part.csize)
           sw == SegmentWords(part.segm)
           large == ~ (part.csize < LoCsizeCnt)
           at_segm == at + (IF large THEN 2 ELSE 1)
<1>1. part = [csize |-> part.csize, segm |-> part.segm] /\ part.csize \in Nat /\ SegmentRow(part.segm)
  BY DEF PartRow
<1>2. /\ IsRow(cw) /\ Len(cw) = (IF large THEN 2 ELSE 1) /\ cw[1].large = large
      /\ ~ large => cw[1].lo_csize = part.csize
      /\ large => cw[1].lo_csize = part.csize % LoCsizeCnt /\ cw[2].hi_csize = part.csize \div LoCsizeCnt
  BY <1>1, CsizeWordsRow
<1>3. IsRow(sw) /\ Len(sw) \in Nat
  BY <1>1, SegmentWordsRow DEF SegmentRow
<1> HIDE DEF cw, sw
<1>4. Holds(stream, at, cw) /\ Holds(stream, at + Len(cw), sw) /\ Len(PartWords(part)) = Len(cw) + Len(sw)
  BY <1>2, <1>3, HoldsConcat, ConcatRows DEF PartWords, cw, sw
<1> HIDE DEF large
<1>5. /\ stream[at] = cw[1]
      /\ large => stream[at + 1] = cw[2]
  <2>1. \A i \in 1 .. Len(cw) : stream[at + i - 1] = cw[i]
    BY <1>4 DEF Holds
  <2>2. 1 \in 1 .. Len(cw) /\ at + 1 - 1 = at
    BY <1>2
  <2>3. large => 2 \in 1 .. Len(cw) /\ at + 2 - 1 = at + 1
    BY <1>2
  <2> QED
    BY <2>1, <2>2, <2>3
<1>6. at_segm = at + Len(cw) /\ at_segm \in Nat
  BY <1>2
<1>7. ReadSegment(stream, at_segm) = [segm |-> part.segm, at |-> at_segm + Len(sw), done |-> TRUE]
  <2> HIDE DEF at_segm
  <2>1. Holds(stream, at_segm, SegmentWords(part.segm))
    BY <1>4, <1>6 DEF sw
  <2> QED
    BY <1>1, <1>6, <2>1, SegmentIsReadBack DEF sw
<1>8. stream[at].large = large
  BY <1>2, <1>5
<1>9. stream[at].lo_csize + (IF large THEN stream[at + 1].hi_csize * LoCsizeCnt ELSE 0) = part.csize
  <2>1. CASE ~ large
    BY <1>1, <1>2, <1>5, <2>1
  <2>2. CASE large
    <3>1. (part.csize % LoCsizeCnt) + ((part.csize \div LoCsizeCnt) * LoCsizeCnt) = part.csize
      BY <1>1, LowAndHigh
    <3> QED
      BY <1>2, <1>5, <2>2, <3>1
  <2> QED
    BY <2>1, <2>2
<1>10. at_segm + Len(sw) = at + Len(PartWords(part))
  BY <1>2, <1>3, <1>4
<1> DEFINE csize == stream[at].lo_csize
                    + (IF stream[at].large THEN stream[at + 1].hi_csize * LoCsizeCnt ELSE 0)
           seg == ReadSegment(stream, at + (IF stream[at].large THEN 2 ELSE 1))
<1>11. ReadPart(stream, at) = [part |-> [csize |-> csize, segm |-> seg.segm], at |-> seg.at]
  BY DEF ReadPart
<1>12. csize = part.csize
  BY <1>8, <1>9
<1>13. seg = ReadSegment(stream, at_segm)
  BY <1>8
<1> HIDE DEF csize, seg, at_segm
<1>14. seg.segm = part.segm /\ seg.at = at_segm + Len(sw)
  BY <1>7, <1>13
<1> QED
  BY <1>1, <1>10, <1>11, <1>12, <1>14

PartsPieces(cparts, cnt) == [k \in 1 .. cnt |-> PartWords(cparts[k])]

LEMMA PartsPiecesRows ==
  ASSUME NEW cparts, PartsRow(cparts), NEW cnt \in 0 .. Len(cparts)
  PROVE  /\ cnt \in Nat /\ PartsPieces(cparts, cnt) = [k \in 1 .. cnt |-> PartsPieces(cparts, cnt)[k]]
         /\ \A k \in 1 .. cnt : /\ PartsPieces(cparts, cnt)[k] = PartWords(cparts[k])
                                /\ IsRow(PartsPieces(cparts, cnt)[k])
                                /\ PartRow(cparts[k])
         /\ \E f : Flattens(f, PartsPieces(cparts, cnt), cnt)
<1>1. cnt \in Nat /\ \A k \in 1 .. cnt : PartRow(cparts[k])
  BY RowLen DEF PartsRow
<1> DEFINE ss == PartsPieces(cparts, cnt)
<1>2. ss = [k \in 1 .. cnt |-> ss[k]] /\ \A k \in 1 .. cnt : ss[k] = PartWords(cparts[k])
  BY DEF PartsPieces
<1> HIDE DEF ss
<1>3. \A k \in 1 .. cnt : IsRow(ss[k])
  BY <1>1, <1>2, PartWordsRow
<1>4. \E f : Flattens(f, ss, cnt)
  BY <1>1, <1>2, <1>3, FlattenSteps
<1> QED
  BY <1>1, <1>2, <1>3, <1>4 DEF ss

PartStep(stream, was) ==
  LET read == ReadPart(stream, was.at)
  IN  [cparts |-> Append(was.cparts, read.part), at |-> read.at]

LEMMA PartsAreReadBack ==
  ASSUME NEW cparts, PartsRow(cparts), NEW cnt \in 0 .. Len(cparts),
         NEW f, Flattens(f, PartsPieces(cparts, cnt), cnt),
         NEW stream, IsRow(stream), NEW at \in Nat, Holds(stream, at, f[cnt])
  PROVE  read_content_parts(stream, at, cnt) =
           [cparts |-> SubSeq(cparts, 1, cnt), at |-> at + Len(f[cnt])]
<1> DEFINE ss == PartsPieces(cparts, cnt)
           Read(k) == [cparts |-> SubSeq(cparts, 1, k), at |-> at + Len(f[k])]
           None == [cparts |-> << >>, at |-> at]
           IsRead(g) == g = [k \in 0 .. cnt |-> IF k = 0 THEN None ELSE PartStep(stream, g[k - 1])]
           w == [k \in 0 .. cnt |-> Read(k)]
<1>1. /\ cnt \in Nat
      /\ \A k \in 1 .. cnt : ss[k] = PartWords(cparts[k]) /\ IsRow(ss[k]) /\ PartRow(cparts[k])
  BY PartsPiecesRows
<1> HIDE DEF ss
<1>2. /\ Len(f[0]) = 0
      /\ \A k \in 0 .. cnt : Len(f[k]) \in Nat
      /\ \A k \in 1 .. cnt : Len(f[k]) = Len(f[k - 1]) + Len(ss[k])
      /\ \A k \in 1 .. cnt : Holds(stream, at + Len(f[k - 1]), ss[k])
  <2>1. Flattens(f, ss, cnt)
    BY DEF ss
  <2>2. \A k \in 1 .. cnt : IsRow(ss[k])
    BY <1>1
  <2>3. /\ Len(f[0]) = 0
        /\ \A k \in 0 .. cnt : Len(f[k]) \in Nat
        /\ \A k \in 1 .. cnt : Len(f[k]) = Len(f[k - 1]) + Len(ss[k])
    <3>1. cnt \in Nat
      BY <1>1
    <3> QED
      BY ONLY <2>1, <2>2, <3>1, FlattenLens
  <2>4. \A k \in 1 .. cnt : Holds(stream, at + Len(f[k - 1]), ss[k])
    <3>1. cnt \in Nat
      BY <1>1
    <3>2. Holds(stream, at, f[cnt])
      OBVIOUS
    <3>3. at \in Nat
      OBVIOUS
    <3> QED
      BY ONLY <2>1, <2>2, <3>1, <3>2, <3>3, HoldsFlattened
  <2> QED
    BY <2>3, <2>4
<1>3. ASSUME NEW k \in 1 .. cnt PROVE PartStep(stream, Read(k - 1)) = Read(k)
  <2> DEFINE a == at + Len(f[k - 1])
  <2>1. a \in Nat /\ a + Len(PartWords(cparts[k])) = at + Len(f[k])
    <3>1. k - 1 \in 0 .. cnt /\ k \in 0 .. cnt
      BY <1>1
    <3>2. Len(PartWords(cparts[k])) \in Nat
      BY <1>1, PartWordsRow
    <3>3. PICK x, y, z \in Nat : x = Len(f[k - 1]) /\ y = Len(PartWords(cparts[k])) /\ z = Len(f[k])
      BY <1>2, <3>1, <3>2
    <3>4. z = x + y
      BY <1>1, <1>2, <3>3
    <3>5. at + x \in Nat /\ (at + x) + y = at + z
      BY <3>4
    <3> QED
      BY <3>3, <3>5
  <2>2. Holds(stream, a, PartWords(cparts[k]))
    BY <1>1, <1>2
  <2> HIDE DEF a
  <2>3. PICK read : read = ReadPart(stream, a)
    OBVIOUS
  <2>4. read = [part |-> cparts[k], at |-> a + Len(PartWords(cparts[k]))]
    BY <1>1, <2>1, <2>2, <2>3, PartIsReadBack
  <2>5. read.part = cparts[k] /\ read.at = at + Len(f[k])
    BY <2>1, <2>4
  <2>6. Append(SubSeq(cparts, 1, k - 1), cparts[k]) = SubSeq(cparts, 1, k)
    <3>1. k \in 1 .. Len(cparts)
      BY <1>1
    <3> QED
      BY <3>1, AppendOfSubSeq DEF PartsRow
  <2>7. PICK u : u = Read(k - 1)
    OBVIOUS
  <2>8. u.cparts = SubSeq(cparts, 1, k - 1) /\ u.at = a
    BY <2>7 DEF a
  <2>9. PartStep(stream, u) = [cparts |-> Append(SubSeq(cparts, 1, k - 1), cparts[k]), at |-> at + Len(f[k])]
    BY <2>3, <2>5, <2>8 DEF PartStep
  <2> QED
    BY <2>6, <2>7, <2>9
<1>4. Read(0) = None
  <2>1. SubSeq(cparts, 1, 0) = << >>
    BY RowLen, SubSeqEmpty DEF PartsRow
  <2> QED
    BY <1>2, <2>1
<1>5. IsRead(w)
  <2> HIDE DEF Read, None
  <2>1. \A k \in 0 .. cnt : w[k] = Read(k)
    OBVIOUS
  <2>2. ASSUME NEW k \in 0 .. cnt PROVE Read(k) = IF k = 0 THEN None ELSE PartStep(stream, w[k - 1])
    <3>1. k # 0 => k \in 1 .. cnt /\ k - 1 \in 0 .. cnt
      BY <1>1
    <3> HIDE DEF w
    <3> QED
      BY <1>3, <1>4, <2>1, <3>1
  <2> QED
    BY <2>2
<1> DEFINE g == CHOOSE g : IsRead(g)
<1>6. IsRead(g)
  <2> HIDE DEF IsRead, w
  <2> QED
    BY <1>5
<1>7. read_content_parts(stream, at, cnt) = g[cnt]
  BY DEF read_content_parts, PartStep
<1> HIDE DEF g, Read
<1>8. \A k \in 0 .. cnt : g[k] = IF k = 0 THEN None ELSE PartStep(stream, g[k - 1])
  <2> HIDE DEF None
  <2> QED
    BY <1>6
<1>9. w[0] = Read(0) /\ w[cnt] = Read(cnt) /\ \A k \in 1 .. cnt : w[k] = Read(k) /\ w[k - 1] = Read(k - 1)
  <2>1. 0 \in 0 .. cnt /\ cnt \in 0 .. cnt /\ \A k \in 1 .. cnt : k \in 0 .. cnt /\ k - 1 \in 0 .. cnt
    BY <1>1
  <2> QED
    BY <2>1
<1> HIDE DEF w, None
<1>10. g[0] = w[0]
  <2>1. 0 \in 0 .. cnt
    BY <1>1
  <2> QED
    BY <1>4, <1>8, <1>9, <2>1
<1>11. ASSUME NEW k \in 1 .. cnt, g[k - 1] = w[k - 1] PROVE g[k] = w[k]
  <2>1. k \in 0 .. cnt /\ k # 0
    BY <1>1
  <2> QED
    BY <1>3, <1>8, <1>9, <1>11, <2>1
<1>12. g[cnt] = w[cnt]
  <2>1. Alike(g, w, cnt)
    BY <1>10, <1>11 DEF Alike
  <2> QED
    BY <1>1, <2>1, SameSteps
<1> QED
  BY <1>7, <1>9, <1>12 DEF Read

LEMMA PartsWordsRow ==
  ASSUME NEW cparts, PartsRow(cparts)
  PROVE  LET cnt == count_incompressible_cparts(cparts)
         IN  /\ IsRow(PartsWords(cparts)) /\ Len(PartsWords(cparts)) \in Nat
             /\ Len(PartsWords(cparts)) = PartsFootprint(cparts)
             /\ cnt = 0 => PartsWords(cparts) = << >>
             /\ cnt # 0 => \E f : /\ Flattens(f, PartsPieces(cparts, cnt), cnt)
                                  /\ IsRow(f[cnt])
                                  /\ PartsWords(cparts) = <<[content_part_cnt |-> cnt - 1]>> \o f[cnt]
<1> DEFINE cnt == count_incompressible_cparts(cparts)
           n == Len(cparts)
           c == [k \in 1 .. n |-> PartFootprint(cparts[k])]
           h == CHOOSE h : h = [k \in 0 .. n |-> IF k = 0 THEN 0 ELSE h[k - 1] + PartFootprint(cparts[k])]
<1>1. n \in Nat /\ cnt \in 0 .. n /\ n \in 0 .. n /\ cnt \in Nat
  BY CountIs, RowLen DEF PartsRow
<1>2. PartsWords(cparts) = IF cnt = 0 THEN << >>
                           ELSE <<[content_part_cnt |-> cnt - 1]>> \o FlattenSeq(PartsPieces(cparts, cnt))
  BY DEF PartsWords, PartsPieces, PartWords
<1>3. PartsFootprint(cparts) = IF cnt = 0 THEN 0 ELSE 1 + h[cnt]
  BY DEF PartsFootprint
<1> HIDE DEF cnt, h
<1>4. PICK f : Flattens(f, PartsPieces(cparts, cnt), cnt)
  BY <1>1, PartsPiecesRows
<1>5. PICK all : Flattens(all, PartsPieces(cparts, n), n)
  BY <1>1, PartsPiecesRows
<1>6. /\ Len(f[0]) = 0
      /\ \A k \in 0 .. cnt : Len(f[k]) \in Nat
      /\ \A k \in 1 .. cnt : Len(f[k]) = Len(f[k - 1]) + Len(PartWords(cparts[k]))
  <2> DEFINE ss == PartsPieces(cparts, cnt)
  <2>1. \A k \in 1 .. cnt : IsRow(ss[k]) /\ ss[k] = PartWords(cparts[k])
    BY <1>1, PartsPiecesRows
  <2>2. \A k \in 1 .. cnt : IsRow(ss[k])
    BY <2>1
  <2> HIDE DEF ss
  <2>3. Flattens(f, ss, cnt)
    BY <1>4 DEF ss
  <2>4. /\ Len(f[0]) = 0
        /\ \A k \in 0 .. cnt : Len(f[k]) \in Nat
        /\ \A k \in 1 .. cnt : Len(f[k]) = Len(f[k - 1]) + Len(ss[k])
    BY <1>1, <2>2, <2>3, FlattenLens
  <2> QED
    BY <2>1, <2>4
<1>7. /\ Len(all[0]) = 0
      /\ \A k \in 1 .. n : Len(all[k]) = Len(all[k - 1]) + Len(PartWords(cparts[k]))
  <2> DEFINE ss == PartsPieces(cparts, n)
  <2>1. \A k \in 1 .. n : IsRow(ss[k]) /\ ss[k] = PartWords(cparts[k])
    BY <1>1, PartsPiecesRows
  <2>2. \A k \in 1 .. n : IsRow(ss[k])
    BY <2>1
  <2> HIDE DEF ss
  <2>3. Flattens(all, ss, n)
    BY <1>5 DEF ss
  <2> HIDE DEF n
  <2>4. /\ Len(all[0]) = 0
        /\ \A k \in 1 .. n : Len(all[k]) = Len(all[k - 1]) + Len(ss[k])
    <3>1. n \in Nat
      BY <1>1
    <3> QED
      BY ONLY <2>2, <2>3, <3>1, FlattenLens
  <2> QED
    BY <2>1, <2>4
<1>8. \A k \in 1 .. n : Len(PartWords(cparts[k])) = c[k]
  BY PartWordsRow DEF PartsRow
<1> DEFINE w == [k \in 0 .. n |-> Len(all[k])]
           v == [k \in 0 .. cnt |-> Len(f[k])]
<1>9. w[0] = 0 /\ \A k \in 1 .. n : w[k] = w[k - 1] + c[k]
  <2>1. 0 \in 0 .. n
    BY <1>1
  <2>2. ASSUME NEW k \in 1 .. n PROVE w[k] = w[k - 1] + c[k]
    <3>1. k \in 0 .. n /\ k - 1 \in 0 .. n
      BY <1>1
    <3> HIDE DEF c
    <3> QED
      BY <1>7, <1>8, <3>1
  <2> QED
    BY <1>7, <2>1, <2>2
<1>10. v[0] = 0 /\ v[cnt] = Len(f[cnt]) /\ \A k \in 1 .. cnt : v[k] = v[k - 1] + c[k]
  <2>1. 0 \in 0 .. cnt /\ cnt \in 0 .. cnt
    BY <1>1
  <2>2. ASSUME NEW k \in 1 .. cnt PROVE v[k] = v[k - 1] + c[k]
    <3>1. k \in 0 .. cnt /\ k - 1 \in 0 .. cnt /\ k \in 1 .. n
      BY <1>1
    <3> HIDE DEF c
    <3> QED
      BY <1>6, <1>8, <3>1
  <2> QED
    BY <1>6, <2>1, <2>2
<1>11. h[cnt] = TotalOf(n, c, cnt)
  <2>1. ASSUME NEW k \in 0 .. n, k # 0 PROVE c[k] = PartFootprint(cparts[k])
    <3>1. k \in 1 .. n
      BY <1>1, <2>1
    <3> QED
      BY <3>1
  <2>2. \A u : [k \in 0 .. n |-> IF k = 0 THEN 0 ELSE u[k - 1] + c[k]] =
               [k \in 0 .. n |-> IF k = 0 THEN 0 ELSE u[k - 1] + PartFootprint(cparts[k])]
    <3> HIDE DEF c, n
    <3> QED
      BY <2>1
  <2> HIDE DEF c, n
  <2> QED
    BY <2>2 DEF TotalOf, IsTotal, h
<1> HIDE DEF c, w, v
<1>12. TotalOf(n, c, cnt) = w[cnt]
  <2> HIDE DEF n
  <2>1. w[0] = 0
    BY <1>9
  <2>2. \A k \in 1 .. n : w[k] = w[k - 1] + c[k]
    BY <1>9
  <2>3. TotalSteps(w, n, c)
    BY <2>1, <2>2 DEF TotalSteps
  <2> QED
    BY <1>1, <2>3, TotalFound
<1>13. w[cnt] = v[cnt]
  <2>1. ASSUME NEW k \in 1 .. cnt, w[k - 1] = v[k - 1] PROVE w[k] = v[k]
    <3>1. k \in 1 .. n
      BY <1>1
    <3> QED
      BY <1>9, <1>10, <2>1, <3>1
  <2>2. Alike(w, v, cnt)
    BY <1>9, <1>10, <2>1 DEF Alike
  <2> QED
    BY <1>1, <2>2, SameSteps
<1>14. FlattenSeq(PartsPieces(cparts, cnt)) = f[cnt] /\ IsRow(f[cnt]) /\ Len(f[cnt]) \in Nat
  <2>1. cnt \in 0 .. cnt
    BY <1>1
  <2> QED
    BY <1>4, <1>6, <2>1 DEF Flattens
<1> HIDE DEF n
<1>15. CASE cnt = 0
  <2>1. PartsWords(cparts) = << >> /\ PartsFootprint(cparts) = 0
    BY <1>2, <1>3, <1>15
  <2> QED
    BY <1>15, <2>1, ShortRows DEF cnt
<1>16. CASE cnt # 0
  <2>1. PICK first : first = [content_part_cnt |-> cnt - 1]
    OBVIOUS
  <2>2. PartsWords(cparts) = <<first>> \o f[cnt] /\ PartsFootprint(cparts) = 1 + h[cnt]
    BY <1>2, <1>3, <1>14, <1>16, <2>1
  <2>3. IsRow(<<first>>) /\ Len(<<first>>) = 1
    BY ShortRows
  <2>4. IsRow(PartsWords(cparts)) /\ Len(PartsWords(cparts)) = 1 + Len(f[cnt])
    BY <1>14, <2>2, <2>3, ConcatRows
  <2>5. Len(PartsWords(cparts)) = PartsFootprint(cparts)
    BY <1>10, <1>11, <1>12, <1>13, <2>2, <2>4
  <2>6. PartsWords(cparts) = <<[content_part_cnt |-> cnt - 1]>> \o f[cnt]
    BY <2>1, <2>2
  <2>7. Len(PartsWords(cparts)) \in Nat
    BY <2>4, RowLen
  <2> QED
    BY <1>4, <1>14, <1>16, <2>4, <2>5, <2>6, <2>7 DEF cnt
<1> QED
  BY <1>15, <1>16

IdataWords(idata) == [i \in DOMAIN idata |-> [idata |-> idata[i]]]

\* Five rows one after the other.
Five(a, b, c, d, e) == a \o b \o c \o d \o e

LEMMA FiveRows ==
  ASSUME NEW a, NEW b, NEW c, NEW d, NEW e,
         IsRow(a), IsRow(b), IsRow(c), IsRow(d), IsRow(e)
  PROVE  /\ IsRow(Five(a, b, c, d, e)) /\ Len(Five(a, b, c, d, e)) \in Nat
         /\ Len(Five(a, b, c, d, e)) = Len(a) + Len(b) + Len(c) + Len(d) + Len(e)
<1>1. Len(a) \in Nat /\ Len(b) \in Nat /\ Len(c) \in Nat /\ Len(d) \in Nat /\ Len(e) \in Nat
  BY RowLen
<1>2. IsRow(a \o b) /\ Len(a \o b) = Len(a) + Len(b)
  BY ConcatRows
<1>3. IsRow(a \o b \o c) /\ Len(a \o b \o c) = Len(a) + Len(b) + Len(c)
  BY <1>2, ConcatRows
<1>4. IsRow(a \o b \o c \o d) /\ Len(a \o b \o c \o d) = Len(a) + Len(b) + Len(c) + Len(d)
  BY <1>3, ConcatRows
<1>5. /\ IsRow(a \o b \o c \o d \o e)
      /\ Len(a \o b \o c \o d \o e) = Len(a) + Len(b) + Len(c) + Len(d) + Len(e)
  BY <1>4, ConcatRows
<1>6. Len(a \o b \o c \o d \o e) \in Nat
  BY <1>5, RowLen
<1> QED
  BY <1>5, <1>6 DEF Five

\* Each is held where the one before it ends.
LEMMA FiveRowsHeld ==
  ASSUME NEW a, NEW b, NEW c, NEW d, NEW e,
         IsRow(a), IsRow(b), IsRow(c), IsRow(d), IsRow(e),
         NEW stream, NEW at \in Nat, Holds(stream, at, Five(a, b, c, d, e))
  PROVE  \E at_b, at_c, at_d, at_e \in Nat :
           /\ at_b = at + Len(a) /\ at_c = at_b + Len(b) /\ at_d = at_c + Len(c) /\ at_e = at_d + Len(d)
           /\ at + Len(Five(a, b, c, d, e)) = at_e + Len(e)
           /\ Holds(stream, at, a) /\ Holds(stream, at_b, b) /\ Holds(stream, at_c, c)
           /\ Holds(stream, at_d, d) /\ Holds(stream, at_e, e)
<1> PICK at_b, at_c, at_d, at_e : /\ at_b = at + Len(a) /\ at_c = at_b + Len(b)
                                  /\ at_d = at_c + Len(c) /\ at_e = at_d + Len(d)
  OBVIOUS
<1> DEFINE ab == a \o b
           abc == ab \o c
           abcd == abc \o d
           all == abcd \o e
<1>1. Len(a) \in Nat /\ Len(b) \in Nat /\ Len(c) \in Nat /\ Len(d) \in Nat /\ Len(e) \in Nat
  BY RowLen
<1>2. IsRow(ab) /\ Len(ab) = Len(a) + Len(b)
  BY ConcatRows
<1>3. all = Five(a, b, c, d, e)
  BY DEF Five
<1> HIDE DEF ab
<1>4. IsRow(abc) /\ Len(abc) = Len(ab) + Len(c)
  BY <1>2, ConcatRows
<1> HIDE DEF abc
<1>5. IsRow(abcd) /\ Len(abcd) = Len(abc) + Len(d)
  BY <1>4, ConcatRows
<1> HIDE DEF abcd
<1>6. Len(all) = Len(abcd) + Len(e) /\ Holds(stream, at, all)
  BY <1>3, <1>5, ConcatRows
<1> HIDE DEF all
<1>7. Holds(stream, at, abcd) /\ Holds(stream, at + Len(abcd), e)
  BY <1>5, <1>6, HoldsConcat DEF all
<1>8. Holds(stream, at, abc) /\ Holds(stream, at + Len(abc), d)
  BY <1>4, <1>7, HoldsConcat DEF abcd
<1>9. Holds(stream, at, ab) /\ Holds(stream, at + Len(ab), c)
  BY <1>2, <1>8, HoldsConcat DEF abc
<1>10. Holds(stream, at, a) /\ Holds(stream, at + Len(a), b)
  BY <1>9, HoldsConcat DEF ab
<1>11. /\ at_b \in Nat /\ at_c \in Nat /\ at_d \in Nat /\ at_e \in Nat
       /\ at + Len(ab) = at_c /\ at + Len(abc) = at_d /\ at + Len(abcd) = at_e
       /\ at + Len(all) = at_e + Len(e)
  <2>1. PICK la, lb, lc, ld, le \in Nat :
          la = Len(a) /\ lb = Len(b) /\ lc = Len(c) /\ ld = Len(d) /\ le = Len(e)
    BY <1>1
  <2>2. /\ Len(ab) = la + lb /\ Len(abc) = la + lb + lc /\ Len(abcd) = la + lb + lc + ld
        /\ Len(all) = la + lb + lc + ld + le
    BY <1>2, <1>4, <1>5, <1>6, <2>1
  <2>3. at_b = at + la /\ at_c = at + la + lb /\ at_d = at + la + lb + lc /\ at_e = at + la + lb + lc + ld
    BY <2>1
  <2> QED
    BY ONLY <2>1, <2>2, <2>3, at \in Nat
<1> QED
  BY <1>3, <1>7, <1>8, <1>9, <1>10, <1>11

LEMMA HeaderPieces ==
  ASSUME NEW hdr, HeaderRow(hdr)
  PROVE  /\ Len(hdr.idata) \in Nat /\ IsRow(<<FirstWord(hdr)>>) /\ Len(<<FirstWord(hdr)>>) = 1
         /\ IsRow(IdWords(hdr)) /\ Len(IdWords(hdr)) = IF HasId(hdr) THEN 2 ELSE 0
         /\ HasId(hdr) => /\ IdWords(hdr)[1].hi_isize = Len(hdr.idata) \div LoIsizeCnt
                          /\ IdWords(hdr)[2].id = hdr.id
         /\ IsRow(TypeWords(hdr)) /\ Len(TypeWords(hdr)) = IF hdr.type >= ExtTypeThreshold THEN 1 ELSE 0
         /\ hdr.type >= ExtTypeThreshold => TypeWords(hdr)[1].ex_type = hdr.type
         /\ IsRow(IdataWords(hdr.idata)) /\ Len(IdataWords(hdr.idata)) = Len(hdr.idata)
         /\ \A i \in 1 .. Len(hdr.idata) : IdataWords(hdr.idata)[i].idata = hdr.idata[i]
<1>1. IsRow(<<FirstWord(hdr)>>) /\ Len(<<FirstWord(hdr)>>) = 1
  BY ShortRows
<1>2. /\ IsRow(IdWords(hdr)) /\ Len(IdWords(hdr)) = IF HasId(hdr) THEN 2 ELSE 0
      /\ HasId(hdr) => /\ IdWords(hdr)[1].hi_isize = Len(hdr.idata) \div LoIsizeCnt
                       /\ IdWords(hdr)[2].id = hdr.id
  <2>1. PICK a, b : a = [hi_isize |-> Len(hdr.idata) \div LoIsizeCnt] /\ b = [id |-> hdr.id]
    OBVIOUS
  <2>2. IdWords(hdr) = IF HasId(hdr) THEN <<a, b>> ELSE << >>
    BY <2>1 DEF IdWords
  <2>3. a.hi_isize = Len(hdr.idata) \div LoIsizeCnt /\ b.id = hdr.id
    BY <2>1
  <2>4. IsRow(<<a, b>>) /\ Len(<<a, b>>) = 2 /\ <<a, b>>[1] = a /\ <<a, b>>[2] = b
    BY ShortRows
  <2>5. PICK u : u = IdWords(hdr)
    OBVIOUS
  <2>6. u = IF HasId(hdr) THEN <<a, b>> ELSE << >>
    BY <2>2, <2>5
  <2>7. CASE HasId(hdr)
    BY <2>3, <2>4, <2>5, <2>6, <2>7
  <2>8. CASE ~ HasId(hdr)
    BY <2>5, <2>6, <2>8, ShortRows
  <2> QED
    BY <2>7, <2>8
<1>3. /\ IsRow(TypeWords(hdr)) /\ Len(TypeWords(hdr)) = IF hdr.type >= ExtTypeThreshold THEN 1 ELSE 0
      /\ hdr.type >= ExtTypeThreshold => TypeWords(hdr)[1].ex_type = hdr.type
  <2>1. PICK a : a = [ex_type |-> hdr.type]
    OBVIOUS
  <2>2. TypeWords(hdr) = IF hdr.type >= ExtTypeThreshold THEN <<a>> ELSE << >>
    BY <2>1 DEF TypeWords
  <2>3. a.ex_type = hdr.type
    BY <2>1
  <2>4. IsRow(<<a>>) /\ Len(<<a>>) = 1 /\ <<a>>[1] = a
    BY ShortRows
  <2>5. PICK u : u = TypeWords(hdr)
    OBVIOUS
  <2>6. u = IF hdr.type >= ExtTypeThreshold THEN <<a>> ELSE << >>
    BY <2>2, <2>5
  <2>7. CASE hdr.type >= ExtTypeThreshold
    BY <2>3, <2>4, <2>5, <2>6, <2>7
  <2>8. CASE ~ (hdr.type >= ExtTypeThreshold)
    BY <2>5, <2>6, <2>8, ShortRows
  <2> QED
    BY <2>7, <2>8
<1>4. /\ IsRow(IdataWords(hdr.idata)) /\ Len(IdataWords(hdr.idata)) = Len(hdr.idata)
      /\ \A i \in 1 .. Len(hdr.idata) : IdataWords(hdr.idata)[i].idata = hdr.idata[i]
      /\ Len(hdr.idata) \in Nat
  <2>1. Len(hdr.idata) \in Nat /\ DOMAIN hdr.idata = 1 .. Len(hdr.idata)
    BY RowLen DEF HeaderRow
  <2> DEFINE n == Len(hdr.idata)
             u == IdataWords(hdr.idata)
  <2>2. u = [i \in 1 .. n |-> [idata |-> hdr.idata[i]]]
    BY <2>1 DEF IdataWords
  <2> HIDE DEF u, n
  <2>3. u = [i \in 1 .. n |-> u[i]] /\ \A i \in 1 .. n : u[i].idata = hdr.idata[i]
    BY <2>2
  <2>4. n \in Nat
    BY <2>1 DEF n
  <2>5. Len(u) = n /\ IsRow(u)
    BY <2>3, <2>4, RowFacts
  <2> QED
    BY <2>3, <2>4, <2>5 DEF u, n
<1> QED
  BY <1>1, <1>2, <1>3, <1>4

\* The words of a header are as many as the footprint says.
LEMMA WordsRow ==
  ASSUME NEW hdr, HeaderRow(hdr)
  PROVE  IsRow(Words(hdr)) /\ Len(Words(hdr)) = Footprint(hdr) /\ Len(Words(hdr)) \in Nat \ {0}
<1>1. Words(hdr) = Five(<<FirstWord(hdr)>>, IdWords(hdr), PartsWords(hdr.cparts), TypeWords(hdr),
                        IdataWords(hdr.idata))
  BY DEF Words, Five, IdataWords
<1>2. /\ IsRow(PartsWords(hdr.cparts)) /\ Len(PartsWords(hdr.cparts)) \in Nat
      /\ Len(PartsWords(hdr.cparts)) = PartsFootprint(hdr.cparts)
  BY PartsWordsRow DEF HeaderRow
<1>3. PICK a, b, c, d, e : /\ a = <<FirstWord(hdr)>> /\ b = IdWords(hdr) /\ c = PartsWords(hdr.cparts)
                           /\ d = TypeWords(hdr) /\ e = IdataWords(hdr.idata)
  OBVIOUS
<1>4. /\ IsRow(a) /\ IsRow(b) /\ IsRow(c) /\ IsRow(d) /\ IsRow(e)
      /\ Len(a) = 1 /\ Len(b) = (IF HasId(hdr) THEN 2 ELSE 0) /\ Len(c) = PartsFootprint(hdr.cparts)
      /\ Len(d) = (IF hdr.type >= ExtTypeThreshold THEN 1 ELSE 0) /\ Len(e) = Len(hdr.idata)
      /\ Len(c) \in Nat /\ Len(e) \in Nat
  BY <1>2, <1>3, HeaderPieces
<1>5. PICK all : all = Five(a, b, c, d, e)
  OBVIOUS
<1>6. IsRow(all) /\ Len(all) \in Nat /\ Len(all) = Len(a) + Len(b) + Len(c) + Len(d) + Len(e)
  <2>1. IsRow(a) /\ IsRow(b) /\ IsRow(c) /\ IsRow(d) /\ IsRow(e)
    BY <1>4
  <2>2. /\ IsRow(Five(a, b, c, d, e)) /\ Len(Five(a, b, c, d, e)) \in Nat
        /\ Len(Five(a, b, c, d, e)) = Len(a) + Len(b) + Len(c) + Len(d) + Len(e)
    BY <2>1, FiveRows
  <2> QED
    BY <1>5, <2>2
<1>7. all = Words(hdr)
  BY <1>1, <1>3, <1>5
<1>8. Len(all) = 1 + (IF HasId(hdr) THEN 2 ELSE 0) + PartsFootprint(hdr.cparts)
                 + (IF hdr.type >= ExtTypeThreshold THEN 1 ELSE 0) + Len(hdr.idata)
  BY <1>4, <1>6
<1>9. Len(all) # 0
  BY <1>4, <1>6
<1> QED
  BY <1>6, <1>7, <1>8, <1>9 DEF Footprint

(***************************************************************************)
(* Descriptor::load_header_from: the record of a descriptor, wherever it   *)
(* is, is read as it was written: the id, temporal or not, a type of any   *)
(* width, the internal data and its size of any width, and the parts up to *)
(* the last that is not empty; and what follows is looked for right after  *)
(* as many words as calc_struct_footprint_size counts (descriptor.cpp).    *)
(***************************************************************************)
THEOREM DescriptorIsReadBack ==
  ASSUME NEW hdr, HeaderRow(hdr), NEW stream, IsRow(stream), NEW at \in Nat,
         Holds(stream, at, Words(hdr))
  PROVE  ReadHeader(stream, at) =
           [hdr |-> [id |-> hdr.id, type |-> hdr.type,
                     cparts |-> SubSeq(hdr.cparts, 1, count_incompressible_cparts(hdr.cparts)),
                     idata |-> hdr.idata],
            at |-> at + Footprint(hdr)]
<1> DEFINE cnt == count_incompressible_cparts(hdr.cparts)
           isize == Len(hdr.idata)
           own == cnt > 0
<1>1. Words(hdr) = Five(<<FirstWord(hdr)>>, IdWords(hdr), PartsWords(hdr.cparts), TypeWords(hdr),
                        IdataWords(hdr.idata))
  BY DEF Words, Five, IdataWords
<1>2. PICK a, b, c, d, e : /\ a = <<FirstWord(hdr)>> /\ b = IdWords(hdr) /\ c = PartsWords(hdr.cparts)
                           /\ d = TypeWords(hdr) /\ e = IdataWords(hdr.idata)
  OBVIOUS
<1>3. /\ IsRow(a) /\ IsRow(b) /\ IsRow(c) /\ IsRow(d) /\ IsRow(e)
      /\ Len(a) = 1 /\ Len(b) = (IF HasId(hdr) THEN 2 ELSE 0) /\ Len(c) \in Nat
      /\ Len(d) = (IF hdr.type >= ExtTypeThreshold THEN 1 ELSE 0) /\ Len(e) = isize
      /\ isize \in Nat
  BY <1>2, HeaderPieces, PartsWordsRow DEF HeaderRow
<1>4. PICK at_b, at_c, at_d, at_e \in Nat :
        /\ at_b = at + Len(a) /\ at_c = at_b + Len(b) /\ at_d = at_c + Len(c) /\ at_e = at_d + Len(d)
        /\ at + Len(Five(a, b, c, d, e)) = at_e + Len(e)
        /\ Holds(stream, at, a) /\ Holds(stream, at_b, b) /\ Holds(stream, at_c, c)
        /\ Holds(stream, at_d, d) /\ Holds(stream, at_e, e)
  <2>1. IsRow(a) /\ IsRow(b) /\ IsRow(c) /\ IsRow(d) /\ IsRow(e)
    BY <1>3
  <2>2. Holds(stream, at, Five(a, b, c, d, e))
    BY <1>1, <1>2
  <2> QED
    BY <2>1, <2>2, FiveRowsHeld
<1>5. /\ at_b \in Nat /\ at_c \in Nat /\ at_d \in Nat /\ at_e \in Nat
      /\ at + Len(Words(hdr)) = at_e + isize
      /\ Holds(stream, at, a) /\ Holds(stream, at_b, b) /\ Holds(stream, at_c, c)
      /\ Holds(stream, at_d, d) /\ Holds(stream, at_e, e)
  <2>1. Words(hdr) = Five(a, b, c, d, e)
    BY <1>1, <1>2
  <2> QED
    BY <1>3, <1>4, <2>1
<1> DEFINE past == at + Footprint(hdr)
<1>20. past = at_e + isize
  BY <1>5, WordsRow
<1> HIDE DEF past
<1> DEFINE first == stream[at]
<1>6. /\ first.own_content = own /\ first.lo_isize = isize % LoIsizeCnt
      /\ first.has_id = HasId(hdr)
      /\ first.type = IF hdr.type < ExtTypeThreshold THEN hdr.type ELSE ExtTypeThreshold
  <2>1. first = a[1]
    <3>1. Len(a) \in Nat \ {0} /\ Holds(stream, at, a)
      BY <1>3, <1>5
    <3> QED
      BY <3>1, HoldsFirst
  <2>2. a[1] = FirstWord(hdr)
    BY <1>2, ShortRows
  <2>3. PICK u : u = FirstWord(hdr)
    OBVIOUS
  <2>4. /\ u.own_content = own /\ u.lo_isize = isize % LoIsizeCnt
        /\ u.has_id = HasId(hdr)
        /\ u.type = IF hdr.type < ExtTypeThreshold THEN hdr.type ELSE ExtTypeThreshold
    BY <2>3 DEF FirstWord
  <2> QED
    BY <2>1, <2>2, <2>3, <2>4
<1>7. HasId(hdr) <=> hdr.id # TemporalId \/ isize >= LoIsizeCnt
  BY DEF HasId
<1> HIDE DEF first, own
<1>8. HasId(hdr) => /\ at_b = at + 1 /\ stream[at + 1].hi_isize = isize \div LoIsizeCnt
                    /\ stream[at + 2].id = hdr.id
  <2> SUFFICES ASSUME HasId(hdr)
               PROVE  /\ at_b = at + 1 /\ stream[at + 1].hi_isize = isize \div LoIsizeCnt
                      /\ stream[at + 2].id = hdr.id
    OBVIOUS
  <2>1. at_b = at + 1 /\ Len(b) = 2
    BY <1>3, <1>4
  <2>2. \A i \in 1 .. Len(b) : stream[at_b + i - 1] = b[i]
    BY <1>5 DEF Holds
  <2>3. 1 \in 1 .. Len(b) /\ 2 \in 1 .. Len(b) /\ at_b + 1 - 1 = at + 1 /\ at_b + 2 - 1 = at + 2
    BY <2>1
  <2>4. stream[at + 1] = b[1] /\ stream[at + 2] = b[2]
    BY <2>2, <2>3
  <2>5. b[1].hi_isize = isize \div LoIsizeCnt /\ b[2].id = hdr.id
    BY <1>2, HeaderPieces
  <2> QED
    BY <2>1, <2>4, <2>5
<1>9. at_c = at + (IF HasId(hdr) THEN 3 ELSE 1)
  BY <1>3, <1>4
<1> DEFINE read_isize == first.lo_isize + (IF first.has_id THEN stream[at + 1].hi_isize * LoIsizeCnt ELSE 0)
           read_id == IF first.has_id THEN IdOf(stream[at + 2].id, read_isize) ELSE TemporalId
<1>10. read_isize = isize
  <2>1. (isize % LoIsizeCnt) + ((isize \div LoIsizeCnt) * LoIsizeCnt) = isize
    BY <1>3, LowAndHigh
  <2>2. isize < LoIsizeCnt => isize % LoIsizeCnt = isize
    BY <1>3, LowAndHigh
  <2>3. CASE HasId(hdr)
    BY <1>6, <1>8, <2>1, <2>3
  <2>4. CASE ~ HasId(hdr)
    <3>1. isize < LoIsizeCnt
      BY <1>3, <1>7, <2>4, DescriptorRecordAssumption
    <3>2. first.lo_isize = isize /\ ~ first.has_id
      BY <1>6, <2>2, <2>4, <3>1
    <3> HIDE DEF isize
    <3> QED
      BY <1>3, <3>2
  <2> QED
    BY <2>3, <2>4
<1>11. read_id = hdr.id
  <2>1. CASE HasId(hdr)
    <3>1. read_id = IdOf(hdr.id, isize)
      BY <1>6, <1>8, <1>10, <2>1
    <3>2. ~ (hdr.id = TemporalId /\ isize < LoIsizeCnt)
      BY <1>3, <1>7, <2>1, DescriptorRecordAssumption
    <3> QED
      BY <3>1, <3>2 DEF IdOf
  <2>2. CASE ~ HasId(hdr)
    BY <1>6, <1>7, <2>2
  <2> QED
    BY <2>1, <2>2
<1> DEFINE read_parts == IF first.own_content
                         THEN read_content_parts(stream, at_c + 1, stream[at_c].content_part_cnt + 1)
                         ELSE [cparts |-> << >>, at |-> at_c]
<1>12. read_parts = [cparts |-> SubSeq(hdr.cparts, 1, cnt), at |-> at_d]
  <2>1. PartsRow(hdr.cparts) /\ IsRow(hdr.cparts) /\ Len(hdr.cparts) \in Nat
    BY RowLen DEF HeaderRow, PartsRow
  <2>2. cnt \in 0 .. Len(hdr.cparts) /\ cnt \in Nat
    BY <2>1, CountIs
  <2>5. own <=> cnt # 0
    BY <2>2 DEF own
  <2>3. CASE cnt = 0
    <3>1. c = << >> /\ Len(c) = 0
      BY <1>2, <2>1, <2>3, PartsWordsRow, ShortRows
    <3>2. read_parts = [cparts |-> << >>, at |-> at_c]
      BY <1>6, <2>3, <2>5
    <3>3. SubSeq(hdr.cparts, 1, 0) = << >>
      BY <2>1, RowLen, SubSeqEmpty
    <3>4. at_d = at_c
      BY <1>4, <1>5, <3>1
    <3> HIDE DEF read_parts
    <3> QED
      BY <2>3, <3>2, <3>3, <3>4
  <2>4. CASE cnt # 0
    <3>1. PICK f : /\ Flattens(f, PartsPieces(hdr.cparts, cnt), cnt)
                   /\ IsRow(f[cnt])
                   /\ PartsWords(hdr.cparts) = <<[content_part_cnt |-> cnt - 1]>> \o f[cnt]
      BY <2>1, <2>4, PartsWordsRow
    <3>2. PICK w : w = [content_part_cnt |-> cnt - 1]
      OBVIOUS
    <3>3. c = <<w>> \o f[cnt] /\ IsRow(<<w>>) /\ Len(<<w>>) = 1 /\ <<w>>[1] = w
      BY <1>2, <3>1, <3>2, ShortRows
    <3>4. Holds(stream, at_c, <<w>>) /\ Holds(stream, at_c + 1, f[cnt]) /\ Len(c) = 1 + Len(f[cnt])
      <4>1. PICK g : g = f[cnt]
        OBVIOUS
      <4>2. IsRow(g) /\ c = <<w>> \o g /\ Holds(stream, at_c, <<w>> \o g)
        BY <1>5, <3>1, <3>3, <4>1
      <4>3. PICK u : u = <<w>>
        OBVIOUS
      <4>4. IsRow(u) /\ Len(u) = 1 /\ c = u \o g /\ Holds(stream, at_c, u \o g) /\ at_c \in Nat
        BY <1>5, <3>3, <4>2, <4>3
      <4>5. Holds(stream, at_c, u) /\ Holds(stream, at_c + Len(u), g) /\ Len(u \o g) = Len(u) + Len(g)
        BY <4>2, <4>4, HoldsConcat, ConcatRows
      <4> QED
        BY <4>1, <4>3, <4>4, <4>5
    <3>5. stream[at_c] = w
      BY <1>5, <3>3, <3>4, HoldsFirst
    <3>6. stream[at_c].content_part_cnt + 1 = cnt
      <4>1. stream[at_c].content_part_cnt = cnt - 1
        BY <3>2, <3>5
      <4> HIDE DEF cnt
      <4> QED
        BY <2>2, <4>1
    <3>7. first.own_content
      BY <1>6, <2>4, <2>5
    <3>8. at_c + 1 \in Nat
      BY <1>5
    <3>9. read_content_parts(stream, at_c + 1, cnt) =
            [cparts |-> SubSeq(hdr.cparts, 1, cnt), at |-> at_c + 1 + Len(f[cnt])]
      <4>1. PICK x : x = at_c + 1
        OBVIOUS
      <4>2. x \in Nat /\ Holds(stream, x, f[cnt])
        BY <3>4, <3>8, <4>1
      <4> HIDE DEF cnt
      <4>3. read_content_parts(stream, x, cnt) =
              [cparts |-> SubSeq(hdr.cparts, 1, cnt), at |-> x + Len(f[cnt])]
        BY <2>1, <2>2, <3>1, <4>2, PartsAreReadBack
      <4> QED
        BY <4>1, <4>3
    <3>10. at_c + 1 + Len(f[cnt]) = at_d
      <4>1. Len(f[cnt]) \in Nat
        BY <3>1, RowLen
      <4>2. PICK l \in Nat : l = Len(f[cnt])
        BY <4>1
      <4>3. at_c + 1 + l = at_c + (1 + l)
        BY <1>5
      <4> QED
        BY <1>4, <3>4, <4>2, <4>3
    <3>11. read_parts = read_content_parts(stream, at_c + 1, cnt)
      BY <3>6, <3>7
    <3> HIDE DEF read_parts, cnt
    <3> QED
      BY <3>9, <3>10, <3>11
  <2> QED
    BY <2>3, <2>4
<1> HIDE DEF read_parts
<1>13. hdr.type \in Nat /\ ExtTypeThreshold \in Nat
  BY DescriptorRecordAssumption DEF HeaderRow
<1>14. (first.type = ExtTypeThreshold) <=> hdr.type >= ExtTypeThreshold
  BY <1>6, <1>13
<1> DEFINE read_type == IF first.type = ExtTypeThreshold THEN stream[read_parts.at].ex_type ELSE first.type
           at_idata == read_parts.at + (IF first.type = ExtTypeThreshold THEN 1 ELSE 0)
<1>15. read_parts.at = at_d /\ read_parts.cparts = SubSeq(hdr.cparts, 1, cnt)
  BY <1>12
<1>16. read_type = hdr.type
  <2>1. CASE hdr.type >= ExtTypeThreshold
    <3>1. Len(d) = 1 /\ d[1].ex_type = hdr.type
      BY <1>2, <1>3, <2>1, HeaderPieces
    <3>2. stream[at_d] = d[1]
      <4>1. at_d \in Nat /\ Holds(stream, at_d, d) /\ Len(d) \in Nat \ {0}
        BY <1>5, <3>1
      <4> QED
        BY <4>1, HoldsFirst
    <3> QED
      BY <1>14, <1>15, <2>1, <3>1, <3>2
  <2>2. CASE ~ (hdr.type >= ExtTypeThreshold)
    BY <1>6, <1>13, <1>14, <2>2
  <2> QED
    BY <2>1, <2>2
<1>17. at_idata = at_e
  BY <1>3, <1>4, <1>5, <1>14, <1>15
<1>18. [i \in 1 .. isize |-> stream[at_idata + i - 1].idata] = hdr.idata
  <2>1. IsRow(hdr.idata)
    BY DEF HeaderRow
  <2>2. hdr.idata = [i \in 1 .. isize |-> hdr.idata[i]]
    BY <2>1, RowLen
  <2>3. ASSUME NEW i \in 1 .. isize PROVE stream[at_idata + i - 1].idata = hdr.idata[i]
    <3>1. e[i].idata = hdr.idata[i]
      BY <1>2, HeaderPieces
    <3> HIDE DEF isize
    <3>2. stream[at_e + i - 1] = e[i]
      BY <1>3, <1>5 DEF Holds
    <3> HIDE DEF at_idata
    <3> QED
      BY <1>17, <3>1, <3>2
  <2> HIDE DEF at_idata, isize
  <2> QED
    BY <2>2, <2>3
<1>19. ReadHeader(stream, at) =
         [hdr |-> [id |-> read_id, type |-> read_type, cparts |-> read_parts.cparts,
                   idata |-> [i \in 1 .. read_isize |-> stream[at_idata + i - 1].idata]],
          at |-> at_idata + read_isize]
  BY <1>6, <1>9 DEF ReadHeader, first, read_parts
<1> HIDE DEF read_id, read_type, at_idata, read_isize, isize, cnt
<1> QED
  BY <1>10, <1>11, <1>15, <1>16, <1>17, <1>18, <1>19, <1>20 DEF cnt, past

-----------------------------------------------------------------------------
(* The space of a part, and the segment that has it *)

LEMMA BlkSzFacts == BlkSz \in Nat \ {0} /\ BlkSz = Unit * SubblkCntPerBlk
<1>1. Unit \in Nat \ {0} /\ SubblkCntPerBlk \in Nat \ {0}
  BY DescriptorContentAssumption, ExtentAssumption
<1>2. PICK u, c \in Nat \ {0} : u = Unit /\ c = SubblkCntPerBlk
  BY <1>1
<1>3. c * u \in Nat \ {0} /\ c * u = u * c
  OBVIOUS
<1> QED
  BY <1>2, <1>3 DEF BlkSz

\* What the allocator gives is what was asked for, or up to the next multiple
\* of the size of a subblock; and asked for that, it would give the same.
LEMMA AllocSzFacts ==
  ASSUME NEW n \in Nat
  PROVE  /\ AllocSz(n) \in Nat /\ n <= AllocSz(n) /\ AllocSz(n) < n + Unit
         /\ AllocSz(AllocSz(n)) = AllocSz(n)
         /\ n = 0 => AllocSz(n) = 0
<1>1. Unit \in Nat \ {0} /\ MaxInline \in Nat
  BY DescriptorContentAssumption
<1>0. n % Unit \in 0 .. Unit - 1 /\ n \div Unit \in Nat /\ n = Unit * (n \div Unit) + (n % Unit)
  BY <1>1, DivMod
<1>2. PICK u, m, q, r \in Nat : /\ u = Unit /\ m = MaxInline /\ q = n \div Unit /\ r = n % Unit
                               /\ u # 0 /\ r < u /\ n = u * q + r
  <2>1. PICK q, r : q = n \div Unit /\ r = n % Unit
    OBVIOUS
  <2>2. PICK u, m : u = Unit /\ m = MaxInline
    OBVIOUS
  <2>3. u \in Nat /\ m \in Nat /\ q \in Nat /\ r \in Nat /\ u # 0 /\ r < u /\ n = u * q + r
    BY <1>0, <1>1, <2>1, <2>2
  <2> QED
    BY <2>1, <2>2, <2>3
<1>3. CASE r <= m
  <2>1. AllocSz(n) = n
    BY <1>2, <1>3 DEF AllocSz
  <2> QED
    BY <1>1, <2>1
<1>4. CASE ~ (r <= m)
  <2>1. AllocSz(n) = n + u - r
    BY <1>2, <1>4 DEF AllocSz
  <2>2. PICK s \in Nat : s = u * q
    BY <1>2
  <2>3. n + u - r = s + u
    BY <1>2, <2>2
  <2>4. s + u = u * (q + 1) + 0
    BY <1>2, <2>2
  <2>5. (s + u) % Unit = 0
    <3>1. u \in Nat \ {0} /\ q + 1 \in Nat /\ 0 \in 0 .. u - 1
      BY <1>2
    <3>2. (u * (q + 1) + 0) % u = 0
      BY <3>1, DivModUnique
    <3> QED
      BY <1>2, <2>4, <3>2
  <2>6. AllocSz(s + u) = s + u
    BY <1>1, <2>5 DEF AllocSz
  <2>7. r # 0 /\ n = s + r
    BY <1>2, <1>4, <2>2
  <2> QED
    BY <1>2, <2>1, <2>2, <2>3, <2>6, <2>7
<1> QED
  BY <1>2, <1>3, <1>4

LEMMA TimesAssociative == \A a, b, c \in Nat : (a * b) * c = a * (b * c)
OBVIOUS

\* A space in blocks, subblocks and inline bytes.
LEMMA SpaceParts ==
  ASSUME NEW s \in Nat
  PROVE  \E blks, subblks, rest \in Nat :
           /\ blks = s \div BlkSz /\ subblks = (s % BlkSz) \div Unit /\ rest = InlineSz(s)
           /\ subblks < SubblkCntPerBlk /\ rest < Unit
           /\ s = blks * BlkSz + subblks * Unit + rest
<1>1. Unit \in Nat \ {0} /\ SubblkCntPerBlk \in Nat \ {0} /\ BlkSz \in Nat \ {0}
      /\ BlkSz = Unit * SubblkCntPerBlk
  BY DescriptorContentAssumption, ExtentAssumption, BlkSzFacts
<1>2. PICK b, r \in Nat : b = s \div BlkSz /\ r = s % BlkSz /\ r < BlkSz /\ s = BlkSz * b + r
  BY <1>1, DivMod
<1>3. PICK c, i \in Nat : c = r \div Unit /\ i = r % Unit /\ i < Unit /\ r = Unit * c + i
  <2>1. r % Unit \in 0 .. Unit - 1 /\ r \div Unit \in Nat /\ r = Unit * (r \div Unit) + (r % Unit)
    BY <1>1, DivMod
  <2>2. PICK c, i : c = r \div Unit /\ i = r % Unit
    OBVIOUS
  <2>3. c \in Nat /\ i \in Nat /\ i < Unit /\ r = Unit * c + i
    BY <1>1, <2>1, <2>2
  <2> QED
    BY <2>2, <2>3
<1>4. PICK u, k \in Nat : u = Unit /\ k = SubblkCntPerBlk /\ u # 0 /\ BlkSz = u * k
  BY <1>1
<1>5. s = u * (k * b + c) + i
  <2>1. (u * k) * b = u * (k * b)
    BY ONLY u \in Nat, k \in Nat, b \in Nat, TimesAssociative
  <2>2. u * (k * b + c) = u * (k * b) + u * c
    BY <1>2, <1>3, <1>4
  <2> QED
    BY <1>2, <1>3, <1>4, <2>1, <2>2
<1>6. s % Unit = i
  <2>1. k * b + c \in Nat /\ i \in 0 .. u - 1
    BY <1>2, <1>3, <1>4
  <2> QED
    BY <1>1, <1>4, <1>5, <2>1, DivModUnique
<1>7. c < k
  <2> SUFFICES ASSUME k <= c PROVE FALSE
    BY <1>3, <1>4
  <2>1. PICK j \in Nat : c = k + j
    <3>1. c - k \in Nat /\ c = k + (c - k)
      BY <1>3, <1>4
    <3> QED
      BY <3>1
  <2>2. u * c = u * k + u * j
    BY <1>4, <2>1
  <2>3. u * k \in Nat /\ u * j \in Nat
    BY <1>4, <2>1
  <2> QED
    BY <1>2, <1>3, <1>4, <2>2, <2>3
<1>8. s = b * BlkSz + c * Unit + i
  <2>1. BlkSz * b = b * BlkSz /\ Unit * c = c * Unit
    BY <1>1, <1>2, <1>3
  <2> QED
    BY <1>1, <1>2, <1>3, <2>1
<1>9. i = InlineSz(s)
  BY <1>6 DEF InlineSz
<1>10. b = s \div BlkSz /\ c = (s % BlkSz) \div Unit /\ c < SubblkCntPerBlk /\ i < Unit
  BY <1>2, <1>3, <1>4, <1>7
<1> QED
  BY ONLY <1>8, <1>9, <1>10, b \in Nat, c \in Nat, i \in Nat

\* The bytes that an extent has.
BytesIn(e) == IF e.is_suballoc THEN SubblkCnt(e) * Unit ELSE e.blk_cnt * BlkSz

BytesInAll(exts) ==
  IF Len(exts) = 0 THEN 0
  ELSE IF Len(exts) = 1 THEN 0 + BytesIn(exts[1])
  ELSE (0 + BytesIn(exts[1])) + BytesIn(exts[2])

LEMMA SpaceOfIs ==
  ASSUME NEW segm, Len(segm.exts) \in 0 .. 2
  PROVE  SpaceOf(segm) = BytesInAll(segm.exts) + Len(segm.raw)
<1> DEFINE exts == segm.exts
           n == Len(exts)
           c == [k \in 1 .. n |-> BytesIn(exts[k])]
           w == [k \in 0 .. n |-> IF k = 0 THEN 0 ELSE IF k = 1 THEN 0 + c[1] ELSE (0 + c[1]) + c[2]]
           h == CHOOSE h : h = [k \in 0 .. n |-> IF k = 0 THEN 0 ELSE h[k - 1] + BytesIn(exts[k])]
<1>1. n \in Nat /\ n <= 2 /\ n \in {0, 1, 2}
  <2>1. n \in 0 .. 2
    OBVIOUS
  <2> HIDE DEF n
  <2> QED
    BY <2>1
<1>2. w[0] = 0
  <2>1. 0 \in 0 .. n
    BY <1>1
  <2> QED
    BY <2>1
<1>3. ASSUME NEW k \in 1 .. n PROVE w[k] = w[k - 1] + c[k]
  <2>0. n \in Nat /\ n <= 2
    BY <1>1
  <2> HIDE DEF n
  <2>1. k \in 0 .. n /\ k - 1 \in 0 .. n /\ (k = 1 \/ k = 2)
    BY <2>0
  <2> HIDE DEF c
  <2>2. CASE k = 1
    <3>1. w[1] = 0 + c[1] /\ w[1 - 1] = 0 /\ 1 - 1 = 0
      BY <2>1, <2>2
    <3> QED
      BY <3>1, <2>2
  <2>3. CASE k = 2
    <3>1. w[2] = (0 + c[1]) + c[2] /\ w[2 - 1] = 0 + c[1] /\ 2 - 1 = 1
      BY <2>1, <2>3
    <3> QED
      BY <3>1, <2>3
  <2> QED
    BY <2>1, <2>2, <2>3
<1>4. w[n] = BytesInAll(exts)
  <2>1. n \in 0 .. n
    BY <1>1
  <2>2. n > 0 => c[1] = BytesIn(exts[1])
    BY <1>1
  <2>3. n = 2 => c[2] = BytesIn(exts[2])
    BY <1>1
  <2> HIDE DEF c
  <2>4. w[n] = IF n = 0 THEN 0 ELSE IF n = 1 THEN 0 + c[1] ELSE (0 + c[1]) + c[2]
    BY <2>1
  <2> HIDE DEF w
  <2> QED
    BY <1>1, <2>2, <2>3, <2>4 DEF BytesInAll
<1>5. TotalOf(n, c, n) = h[n]
  <2>1. ASSUME NEW k \in 0 .. n, k # 0 PROVE c[k] = BytesIn(exts[k])
    <3>1. k \in 1 .. n
      BY <1>1, <2>1
    <3> QED
      BY <3>1
  <2>2. \A u : [k \in 0 .. n |-> IF k = 0 THEN 0 ELSE u[k - 1] + c[k]] =
               [k \in 0 .. n |-> IF k = 0 THEN 0 ELSE u[k - 1] + BytesIn(exts[k])]
    <3> HIDE DEF c, n
    <3> QED
      BY <2>1
  <2> HIDE DEF c, n, exts
  <2> QED
    BY <2>2 DEF TotalOf, IsTotal
<1>6. SpaceOf(segm) = h[n] + Len(segm.raw)
  BY DEF SpaceOf, BytesIn
<1> HIDE DEF c, w, h, n
<1>7. n \in 0 .. n
  BY <1>1
<1>8. TotalOf(n, c, n) = w[n]
  <2>1. n \in Nat
    BY <1>1
  <2>2. TotalSteps(w, n, c)
    BY <1>2, <1>3 DEF TotalSteps
  <2> QED
    BY <1>7, <2>1, <2>2, TotalFound
<1> QED
  BY <1>4, <1>5, <1>6, <1>8 DEF n, exts

LEMMA TwoRows == \A a, b : <<a>> \o <<b>> = <<a, b>>
<1> SUFFICES ASSUME NEW a, NEW b PROVE <<a>> \o <<b>> = <<a, b>>
  OBVIOUS
<1>1. PICK s, t, u : s = <<a>> /\ t = <<b>> /\ u = <<a, b>>
  OBVIOUS
<1>2. /\ IsRow(s) /\ IsRow(t) /\ IsRow(u)
      /\ Len(s) = 1 /\ Len(t) = 1 /\ Len(u) = 2
      /\ s[1] = a /\ t[1] = b /\ u[1] = a /\ u[2] = b
  BY <1>1, ShortRows
<1>3. IsRow(s) /\ IsRow(t)
  BY <1>2
<1>4. PICK v : v = s \o t
  OBVIOUS
<1>5. /\ IsRow(v) /\ Len(v) = Len(s) + Len(t)
      /\ \A i \in 1 .. Len(s) + Len(t) : v[i] = IF i <= Len(s) THEN s[i] ELSE t[i - Len(s)]
  BY <1>3, <1>4, ConcatRows
<1>6. Len(v) = 2 /\ v[1] = a /\ v[2] = b
  BY <1>2, <1>5
<1>7. \A i \in 1 .. Len(v) : v[i] = u[i]
  BY <1>2, <1>6
<1>8. IsRow(u) /\ Len(v) = Len(u)
  BY <1>2, <1>6
<1>9. v = u
  BY <1>5, <1>7, <1>8, RowsAreEqual
<1> QED
  BY <1>1, <1>4, <1>9

\* The extents of a space: blocks, then subblocks of another block.
LEMMA ExtentsOfSpace ==
  ASSUME NEW p \in Nat, NEW s \in Nat, NEW raw, IsRow(raw), Len(raw) = InlineSz(s)
  PROVE  /\ SegmentRow([exts |-> ExtentsOf(p, s), raw |-> raw])
         /\ SpaceOf([exts |-> ExtentsOf(p, s), raw |-> raw]) = s
<1>1. PICK b, c, i \in Nat : /\ b = s \div BlkSz /\ c = (s % BlkSz) \div Unit /\ i = InlineSz(s)
                            /\ c < SubblkCntPerBlk /\ i < Unit
                            /\ s = b * BlkSz + c * Unit + i
  BY SpaceParts
<1>2. PICK nr \in Nat : nr = p * (MaxCsize + 1)
  <2>1. MaxCsize \in Nat
    BY DescriptorContentAssumption
  <2> QED
    BY <2>1
<1>3. PICK k \in Nat : k = SubblkCntPerBlk
  BY ExtentAssumption
<1> DEFINE full == FullExtent(nr, b)
           sub == SubExtent(nr + b, k - c .. k - 1)
           exts == ExtentsOf(p, s)
           segm == [exts |-> exts, raw |-> raw]
<1>4. full \in AnyExtents /\ sub \in AnyExtents
  <2>1. k - c .. k - 1 \in Bitmaps
    BY <1>1, <1>3 DEF Bitmaps, Subblks
  <2>2. nr + b \in Nat
    BY <1>1, <1>2
  <2> QED
    BY <2>1, <2>2 DEF AnyExtents, FullExtent, SubExtent
<1>5. ClearOf(NoExtent, full) /\ ClearOf(NoExtent, sub) /\ ClearOf(full, sub)
  BY DEF ClearOf, NoExtent, FullExtent, SubExtent, BlkSpan
<1>6. BytesIn(full) = b * BlkSz
  BY DEF BytesIn, FullExtent
<1>7. BytesIn(sub) = c * Unit
  <2>1. Cardinality(k - c .. k - 1) = c
    <3>1. k - c \in Int /\ k - 1 \in Int
      OBVIOUS
    <3>2. Cardinality(k - c .. k - 1) = IF k - c > k - 1 THEN 0 ELSE (k - 1) - (k - c) + 1
      BY <3>1, FS_Interval
    <3> QED
      BY <3>2
  <2>2. SubblkCnt(sub) = c
    BY <2>1 DEF SubblkCnt, SubExtent
  <2> QED
    BY <2>2 DEF BytesIn, SubExtent
<1>8. exts = (IF b = 0 THEN << >> ELSE <<full>>) \o (IF c = 0 THEN << >> ELSE <<sub>>)
  BY <1>1, <1>2, <1>3 DEF ExtentsOf
<1>9. PICK x, y \in Nat : x = b * BlkSz /\ y = c * Unit /\ (b = 0 => x = 0) /\ (c = 0 => y = 0)
  <2>1. BlkSz \in Nat /\ Unit \in Nat
    BY BlkSzFacts, DescriptorContentAssumption
  <2>2. b * BlkSz \in Nat /\ c * Unit \in Nat
    BY <2>1
  <2> QED
    BY <2>1, <2>2
<1>10. s = x + y + Len(raw) /\ Len(raw) \in Nat
  BY <1>1, <1>9
<1> HIDE DEF full, sub
<1>11. IsRow(exts) /\ Len(exts) \in 0 .. 2 /\ BytesInAll(exts) = x + y
       /\ \A j \in 1 .. Len(exts) : exts[j] \in AnyExtents /\ ClearOf(PrevOf(exts, j), exts[j])
  <2>1. CASE b = 0 /\ c = 0
    <3>1. exts = << >>
      BY <1>8, <2>1
    <3> QED
      BY <1>9, <2>1, <3>1, ShortRows DEF BytesInAll
  <2>2. CASE b # 0 /\ c = 0
    <3>1. exts = <<full>>
      BY <1>8, <2>2
    <3>2. PrevOf(exts, 1) = NoExtent
      BY DEF PrevOf
    <3> HIDE DEF exts
    <3>3. IsRow(exts) /\ Len(exts) = 1 /\ exts[1] = full
      BY <3>1, ShortRows
    <3>4. BytesInAll(exts) = 0 + BytesIn(full)
      BY <3>3 DEF BytesInAll
    <3> QED
      BY <1>4, <1>5, <1>6, <1>9, <2>2, <3>2, <3>3, <3>4
  <2>3. CASE b = 0 /\ c # 0
    <3>1. exts = <<sub>>
      BY <1>8, <2>3
    <3>2. PrevOf(exts, 1) = NoExtent
      BY DEF PrevOf
    <3> HIDE DEF exts
    <3>3. IsRow(exts) /\ Len(exts) = 1 /\ exts[1] = sub
      BY <3>1, ShortRows
    <3>4. BytesInAll(exts) = 0 + BytesIn(sub)
      BY <3>3 DEF BytesInAll
    <3> QED
      BY <1>4, <1>5, <1>7, <1>9, <2>3, <3>2, <3>3, <3>4
  <2>4. CASE b # 0 /\ c # 0
    <3>1. exts = <<full, sub>>
      <4>1. exts = <<full>> \o <<sub>>
        BY <1>8, <2>4
      <4> QED
        BY <4>1, TwoRows
    <3> HIDE DEF exts
    <3>2. IsRow(exts) /\ Len(exts) = 2 /\ exts[1] = full /\ exts[2] = sub
      BY <3>1, ShortRows
    <3>3. PrevOf(exts, 1) = NoExtent /\ PrevOf(exts, 2) = full
      BY <3>2 DEF PrevOf
    <3>4. BytesInAll(exts) = (0 + BytesIn(full)) + BytesIn(sub)
      BY <3>2 DEF BytesInAll
    <3> QED
      BY <1>4, <1>5, <1>6, <1>7, <1>9, <2>4, <3>2, <3>3, <3>4
  <2> QED
    BY <2>1, <2>2, <2>3, <2>4
<1>12. SegmentRow(segm)
  <2> HIDE DEF exts
  <2> QED
    BY <1>11 DEF SegmentRow
<1>13. SpaceOf(segm) = s
  <2>1. Len(segm.exts) \in 0 .. 2
    BY <1>11
  <2>2. SpaceOf(segm) = BytesInAll(segm.exts) + Len(segm.raw)
    BY <2>1, SpaceOfIs
  <2> HIDE DEF exts
  <2> QED
    BY <1>10, <1>11, <2>2
<1> QED
  BY <1>12, <1>13

-----------------------------------------------------------------------------
(* Copies by chunks *)

\* n bytes of src, from a place, are put in dst at another.
Pasted(dst, src, from, to, n) ==
  [i \in DOMAIN dst |-> IF i \in to + 1 .. to + n THEN src[(i - to) + from] ELSE dst[i]]

Cur(at, min, end) == [at |-> at, min |-> min, end |-> end]
IOOf(bytes, rd, wr) == [bytes |-> bytes, rd |-> rd, wr |-> wr]

\* The chunks that were copied after k of them, in bytes.
Done(sz, k) == Least(k * ChunkSz, sz)

LEMMA ChunksAdd ==
  ASSUME NEW sz \in Nat
  PROVE  /\ ChunkCnt(sz) \in Nat
         /\ Done(sz, 0) = 0 /\ Done(sz, ChunkCnt(sz)) = sz
         /\ \A k \in 1 .. ChunkCnt(sz) :
              /\ Done(sz, k - 1) \in Nat /\ ChunkOf(sz, k) \in Nat
              /\ Done(sz, k) = Done(sz, k - 1) + ChunkOf(sz, k)
              /\ Done(sz, k - 1) + ChunkOf(sz, k) <= sz
<1>1. PICK c \in Nat \ {0} : c = ChunkSz
  BY IOAssumption
<1>2. PICK a \in Nat : a = sz + c - 1 /\ a + 1 = sz + c
  <2>1. sz + c - 1 \in Nat /\ (sz + c - 1) + 1 = sz + c
    OBVIOUS
  <2> QED
    BY <2>1
<1>3. a % c \in 0 .. c - 1 /\ a \div c \in Nat /\ a = c * (a \div c) + (a % c)
  BY DivMod
<1>4. PICK q, r : q = a \div c /\ r = a % c
  OBVIOUS
<1>5. q \in Nat /\ r \in Nat /\ r < c /\ a = c * q + r
  BY <1>3, <1>4
<1>6. ChunkCnt(sz) = q
  BY <1>1, <1>2, <1>4 DEF ChunkCnt
<1>7. Done(sz, 0) = 0
  BY <1>1 DEF Done, Least
<1>8. Done(sz, q) = sz
  <2>1. PICK x \in Nat : x = q * c /\ x = c * q
    BY <1>5
  <2>2. ~ (x < sz)
    BY <1>2, <1>5, <2>1
  <2> QED
    BY <1>1, <2>1, <2>2 DEF Done, Least
<1>9. ASSUME NEW k \in 1 .. q
      PROVE  /\ Done(sz, k - 1) \in Nat /\ ChunkOf(sz, k) \in Nat
             /\ Done(sz, k) = Done(sz, k - 1) + ChunkOf(sz, k)
             /\ Done(sz, k - 1) + ChunkOf(sz, k) <= sz
  <2>1. PICK j \in Nat : j = k - 1
    BY <1>5
  <2>2. PICK i \in Nat : q = k + i
    <3>1. q - k \in Nat /\ q = k + (q - k)
      BY <1>5
    <3> QED
      BY <3>1
  <2>3. PICK x, y, z \in Nat : x = j * c /\ y = k * c /\ z = i * c
    <3>1. j * c \in Nat /\ k * c \in Nat /\ i * c \in Nat
      BY <2>1, <2>2
    <3> QED
      BY <3>1
  <2>4. y = x + c
    BY <2>1, <2>3
  <2>5. c * q = y + z
    BY <2>2, <2>3
  <2>6. x < sz
    BY <1>2, <1>5, <2>4, <2>5
  <2>7. Done(sz, k - 1) = x
    BY <1>1, <2>1, <2>3, <2>6 DEF Done, Least
  <2>8. Done(sz, k) = IF y < sz THEN y ELSE sz
    BY <1>1, <2>3 DEF Done, Least
  <2>9. ChunkOf(sz, k) = IF c < sz - x THEN c ELSE sz - x
    BY <1>1, <2>1, <2>3 DEF ChunkOf, Least
  <2> QED
    BY <2>4, <2>6, <2>7, <2>8, <2>9
<1> QED
  BY <1>5, <1>6, <1>7, <1>8, <1>9

LEMMA SubRow ==
  ASSUME NEW s, IsRow(s), NEW a \in Nat, NEW n \in Nat, a + n <= Len(s)
  PROVE  /\ IsRow(SubSeq(s, a + 1, a + n)) /\ Len(SubSeq(s, a + 1, a + n)) = n
         /\ \A i \in 1 .. n : SubSeq(s, a + 1, a + n)[i] = s[a + i]
<1>1. Len(s) \in Nat /\ DOMAIN s = 1 .. Len(s) /\ s \in Seq({s[i] : i \in 1 .. Len(s)})
  BY RowLen
<1>2. PICK S : s \in Seq(S)
  BY <1>1
<1>3. a + 1 \in 1 .. Len(s) + 1 /\ a + n \in (a + 1) - 1 .. Len(s)
  BY <1>1
<1>4. PICK x, y : x = a + 1 /\ y = a + n
  OBVIOUS
<1>5. x \in 1 .. Len(s) + 1 /\ y \in x - 1 .. Len(s)
  BY <1>3, <1>4
<1>6. /\ SubSeq(s, x, y) \in Seq(S)
      /\ Len(SubSeq(s, x, y)) = y - x + 1
      /\ \A i \in 1 .. y - x + 1 : SubSeq(s, x, y)[i] = s[x + i - 1]
  BY <1>2, <1>5, SubSeqProperties
<1>7. y - x + 1 = n
  BY <1>4
<1>8. IsRow(SubSeq(s, x, y))
  BY <1>6, SeqIsRow
<1>9. \A i \in 1 .. n : x + i - 1 = a + i
  BY <1>4
<1> QED
  BY <1>4, <1>6, <1>7, <1>8, <1>9

\* What one chunk does, as it is read whole before it is written.
LEMMA ChunkIsPasted ==
  ASSUME NEW S, NEW D, IsRow(S), NEW f \in Nat, NEW t \in Nat, NEW n \in Nat, f + n <= Len(S)
  PROVE  Patched(D, t, SubSeq(S, f + 1, f + n)) = Pasted(D, S, f, t, n)
<1>1. PICK data : data = SubSeq(S, f + 1, f + n)
  OBVIOUS
<1>2. Len(data) = n /\ \A i \in 1 .. n : data[i] = S[f + i]
  BY <1>1, SubRow
<1>3. ASSUME NEW i \in t + 1 .. t + n PROVE data[i - t] = S[(i - t) + f]
  <2>1. i - t \in 1 .. n /\ f + (i - t) = (i - t) + f
    OBVIOUS
  <2> QED
    BY <1>2, <2>1
<1> QED
  BY <1>1, <1>2, <1>3 DEF Patched, Pasted

LEMMA PastedRow ==
  ASSUME NEW D, IsRow(D), NEW S, NEW f, NEW t, NEW n
  PROVE  IsRow(Pasted(D, S, f, t, n)) /\ Len(Pasted(D, S, f, t, n)) = Len(D)
<1>1. Len(D) \in Nat /\ DOMAIN D = 1 .. Len(D)
  BY RowLen
<1>2. PICK P : P = Pasted(D, S, f, t, n)
  OBVIOUS
<1>3. P = [i \in 1 .. Len(D) |-> P[i]]
  BY <1>1, <1>2 DEF Pasted
<1> QED
  BY <1>1, <1>2, <1>3, RowFacts

LEMMA PastedOutside ==
  ASSUME NEW D, IsRow(D), NEW S, NEW f \in Nat, NEW t \in Nat, NEW n \in Nat,
         NEW i \in 1 .. Len(D), i \notin t + 1 .. t + n
  PROVE  Pasted(D, S, f, t, n)[i] = D[i]
<1>1. i \in DOMAIN D
  BY RowLen
<1> QED
  BY <1>1 DEF Pasted

\* n bytes from a place are the same.
Agree(P, S, f, n) == \A j \in f + 1 .. f + n : P[j] = S[j]

LEMMA PastedSame ==
  ASSUME NEW D, IsRow(D), NEW P, NEW S, NEW f \in Nat, NEW t \in Nat, NEW n \in Nat,
         Agree(P, S, f, n)
  PROVE  Pasted(D, P, f, t, n) = Pasted(D, S, f, t, n)
<1>1. ASSUME NEW i \in t + 1 .. t + n PROVE P[(i - t) + f] = S[(i - t) + f]
  <2>1. (i - t) + f \in f + 1 .. f + n
    OBVIOUS
  <2> QED
    BY <2>1 DEF Agree
<1> QED
  BY <1>1 DEF Pasted

\* The n bytes that follow m others, from f and to t, are from a and to b.
Follow(f, t, m, n, a, b) ==
  f \in Nat /\ t \in Nat /\ m \in Nat /\ n \in Nat /\ a = f + m /\ b = t + m

LEMMA PastedMore ==
  ASSUME NEW D, IsRow(D), NEW S, NEW f, NEW t, NEW m, NEW n, NEW a, NEW b, Follow(f, t, m, n, a, b)
  PROVE  Pasted(Pasted(D, S, f, t, m), S, a, b, n) = Pasted(D, S, f, t, m + n)
<1>1. Len(D) \in Nat /\ DOMAIN D = 1 .. Len(D)
  BY RowLen
<1>2. PICK P : P = Pasted(D, S, f, t, m)
  OBVIOUS
<1>3. DOMAIN P = 1 .. Len(D)
  BY <1>1, <1>2 DEF Pasted
<1>4. f \in Nat /\ t \in Nat /\ m \in Nat /\ n \in Nat /\ a = f + m /\ b = t + m
  BY DEF Follow
<1>5. PICK c : c = m + n
  OBVIOUS
<1>6. ASSUME NEW i \in 1 .. Len(D)
      PROVE  (IF i \in b + 1 .. b + n THEN S[(i - b) + a] ELSE P[i])
             = IF i \in t + 1 .. t + c THEN S[(i - t) + f] ELSE D[i]
  <2>1. P[i] = IF i \in t + 1 .. t + m THEN S[(i - t) + f] ELSE D[i]
    BY <1>1, <1>2 DEF Pasted
  <2>2. (i - b) + a = (i - t) + f
    BY <1>1, <1>4
  <2> QED
    BY <1>1, <1>4, <1>5, <2>1, <2>2
<1>7. Pasted(P, S, a, b, n) = Pasted(D, S, f, t, c)
  BY <1>1, <1>3, <1>6 DEF Pasted
<1> QED
  BY <1>2, <1>5, <1>7

\* m bytes, and then the n that are before them.
LEMMA PastedBefore ==
  ASSUME NEW D, IsRow(D), NEW S, NEW f \in Nat, NEW t \in Nat, NEW m \in Nat, NEW n \in Nat
  PROVE  Pasted(Pasted(D, S, f + n, t + n, m), S, f, t, n) = Pasted(D, S, f, t, m + n)
<1>1. Len(D) \in Nat /\ DOMAIN D = 1 .. Len(D)
  BY RowLen
<1>2. PICK a, b, c : a = f + n /\ b = t + n /\ c = m + n
  OBVIOUS
<1>3. PICK P : P = Pasted(D, S, a, b, m)
  OBVIOUS
<1>4. DOMAIN P = 1 .. Len(D)
  BY <1>1, <1>3 DEF Pasted
<1>5. ASSUME NEW i \in 1 .. Len(D)
      PROVE  (IF i \in t + 1 .. t + n THEN S[(i - t) + f] ELSE P[i])
             = IF i \in t + 1 .. t + c THEN S[(i - t) + f] ELSE D[i]
  <2>1. P[i] = IF i \in b + 1 .. b + m THEN S[(i - b) + a] ELSE D[i]
    BY <1>1, <1>3 DEF Pasted
  <2>2. (i - b) + a = (i - t) + f
    BY <1>2
  <2>3. CASE i \in t + 1 .. t + n
    <3>1. i \in t + 1 .. t + c
      BY <1>2, <2>3
    <3> QED
      BY <2>3, <3>1
  <2>4. CASE ~ (i \in t + 1 .. t + n)
    <3>1. i \in b + 1 .. b + m <=> i \in t + 1 .. t + c
      BY <1>2, <2>4
    <3> QED
      BY <2>1, <2>2, <2>4, <3>1
  <2> QED
    BY <2>3, <2>4
<1>6. Pasted(P, S, f, t, n) = Pasted(D, S, f, t, c)
  BY <1>1, <1>4, <1>5 DEF Pasted
<1> QED
  BY <1>2, <1>3, <1>6

LEMMA PastedNothing ==
  ASSUME NEW D, IsRow(D), NEW S, NEW f \in Nat, NEW t \in Nat
  PROVE  Pasted(D, S, f, t, 0) = D
<1>1. Len(D) \in Nat /\ DOMAIN D = 1 .. Len(D) /\ D = [i \in 1 .. Len(D) |-> D[i]]
  BY RowLen
<1>2. \A i \in 1 .. Len(D) : i \notin t + 1 .. t + 0
  OBVIOUS
<1>3. Pasted(D, S, f, t, 0) = [i \in 1 .. Len(D) |-> D[i]]
  BY <1>1, <1>2 DEF Pasted
<1> QED
  BY <1>1, <1>3

-----------------------------------------------------------------------------
(* Cursors that have room *)

LEMMA ChunkCopied ==
  ASSUME NEW B, IsRow(B), NEW f \in Nat, NEW t \in Nat, NEW n \in Nat, f + n <= Len(B),
         NEW m1, NEW e1, NEW m2, NEW e2
  PROVE  CopyChunk(IOOf(B, Cur(f, m1, e1), Cur(t, m2, e2)), n)
           = IOOf(Pasted(B, B, f, t, n), Cur(f + n, m1, e1), Cur(t + n, m2, e2))
<1> DEFINE io == IOOf(B, Cur(f, m1, e1), Cur(t, m2, e2))
<1>1. PICK data : data = SubSeq(B, f + 1, f + n)
  OBVIOUS
<1>2. Len(data) = n /\ Patched(B, t, data) = Pasted(B, B, f, t, n)
  BY <1>1, SubRow, ChunkIsPasted
<1>3. io.bytes = B /\ io.rd.at = f /\ io.wr.at = t
  BY DEF IOOf, Cur
<1>4. BytesRead(io, n) = data
  BY <1>1, <1>3 DEF BytesRead
<1>5. AfterRead(io, n) = IOOf(B, Cur(f + n, m1, e1), Cur(t, m2, e2))
  BY DEF AfterRead, IOOf, Cur
<1>6. PICK P : P = Patched(B, t, data)
  OBVIOUS
<1>7. AfterWrite(IOOf(B, Cur(f + n, m1, e1), Cur(t, m2, e2)), data)
        = IOOf(P, Cur(f + n, m1, e1), Cur(t + n, m2, e2))
  <2>1. PICK rd : rd = Cur(f + n, m1, e1)
    OBVIOUS
  <2>2. PICK was : was = IOOf(B, rd, Cur(t, m2, e2))
    OBVIOUS
  <2>3. was.bytes = B /\ was.wr.at = t
    BY <2>2 DEF IOOf, Cur
  <2>4. AfterWrite(was, data) = [[was EXCEPT !.bytes = P] EXCEPT !.wr.at = @ + Len(data)]
    BY <1>6, <2>3 DEF AfterWrite
  <2>5. [was EXCEPT !.bytes = P] = IOOf(P, rd, Cur(t, m2, e2))
    BY <2>2 DEF IOOf
  <2>6. [IOOf(P, rd, Cur(t, m2, e2)) EXCEPT !.wr.at = @ + Len(data)] = IOOf(P, rd, Cur(t + n, m2, e2))
    BY <1>2 DEF IOOf, Cur
  <2> QED
    BY <2>1, <2>2, <2>4, <2>5, <2>6
<1>8. CopyChunk(io, n) = IOOf(P, Cur(f + n, m1, e1), Cur(t + n, m2, e2))
  <2> HIDE DEF io
  <2> QED
    BY <1>4, <1>5, <1>7 DEF CopyChunk
<1> QED
  BY <1>2, <1>6, <1>8

LEMMA BothForward ==
  ASSUME NEW B, NEW f \in Nat, NEW t \in Nat, NEW n \in Nat,
         NEW m1, NEW e1 \in U32, NEW m2, NEW e2 \in U32, f + n <= e1, t + n <= e2
  PROVE  SeekBoth(IOOf(B, Cur(f, m1, e1), Cur(t, m2, e2)), n, "fwd")
           = IOOf(B, Cur(f + n, m1, e1), Cur(t + n, m2, e2))
<1>0. U32Cnt \in Nat
  BY IOAssumption
<1>1. ASSUME NEW at \in Nat, NEW min, NEW end \in U32, at + n <= end, NEW sz
      PROVE  Seek(sz, Cur(at, min, end), n, "fwd") = Cur(at + n, min, end)
  <2>1. PlusU32(at, n) = at + n
    BY <1>0, <1>1 DEF PlusU32, U32
  <2>2. SeekFwd(Cur(at, min, end), n) = at + n
    BY <1>0, <1>1, <2>1 DEF SeekFwd, Cur, U32
  <2>3. calc_seek(sz, Cur(at, min, end), n, "fwd") = at + n
    BY <2>2 DEF calc_seek
  <2> QED
    BY <2>3 DEF Seek, Cur
<1>2. PICK a, b : a = f + n /\ b = t + n
  OBVIOUS
<1>3. /\ Seek(Len(B), Cur(f, m1, e1), n, "fwd") = Cur(a, m1, e1)
      /\ Seek(Len(B), Cur(t, m2, e2), n, "fwd") = Cur(b, m2, e2)
  BY <1>1, <1>2
<1>4. SeekRd(IOOf(B, Cur(f, m1, e1), Cur(t, m2, e2)), n, "fwd") = IOOf(B, Cur(a, m1, e1), Cur(t, m2, e2))
  BY <1>3 DEF SeekRd, IOOf
<1>5. SeekWr(IOOf(B, Cur(a, m1, e1), Cur(t, m2, e2)), n, "fwd") = IOOf(B, Cur(a, m1, e1), Cur(b, m2, e2))
  BY <1>3 DEF SeekWr, IOOf
<1> QED
  BY <1>2, <1>4, <1>5 DEF SeekBoth

LEMMA BothBackward ==
  ASSUME NEW B, NEW f \in Nat, NEW t \in Nat, NEW n \in Nat,
         NEW m1 \in Nat, NEW e1, NEW m2 \in Nat, NEW e2, m1 + n <= f, m2 + n <= t
  PROVE  SeekBoth(IOOf(B, Cur(f, m1, e1), Cur(t, m2, e2)), n, "bwd")
           = IOOf(B, Cur(f - n, m1, e1), Cur(t - n, m2, e2))
<1>1. ASSUME NEW at \in Nat, NEW min \in Nat, NEW end, min + n <= at, NEW sz
      PROVE  Seek(sz, Cur(at, min, end), n, "bwd") = Cur(at - n, min, end)
  <2>1. SeekBwd(Cur(at, min, end), n) = at - n
    BY <1>1 DEF SeekBwd, Cur
  <2>2. calc_seek(sz, Cur(at, min, end), n, "bwd") = at - n
    BY <2>1 DEF calc_seek
  <2> QED
    BY <2>2 DEF Seek, Cur
<1>2. PICK a, b : a = f - n /\ b = t - n
  OBVIOUS
<1>3. /\ Seek(Len(B), Cur(f, m1, e1), n, "bwd") = Cur(a, m1, e1)
      /\ Seek(Len(B), Cur(t, m2, e2), n, "bwd") = Cur(b, m2, e2)
  BY <1>1, <1>2
<1>4. SeekRd(IOOf(B, Cur(f, m1, e1), Cur(t, m2, e2)), n, "bwd") = IOOf(B, Cur(a, m1, e1), Cur(t, m2, e2))
  BY <1>3 DEF SeekRd, IOOf
<1>5. SeekWr(IOOf(B, Cur(a, m1, e1), Cur(t, m2, e2)), n, "bwd") = IOOf(B, Cur(a, m1, e1), Cur(b, m2, e2))
  BY <1>3 DEF SeekWr, IOOf
<1> QED
  BY <1>2, <1>4, <1>5 DEF SeekBoth

-----------------------------------------------------------------------------
(* The loops of the copies: what any steps like theirs tell *)

\* copy_into_self_from_start.
FromStart(g, n, io, sz) ==
  g = [k \in 0 .. n |-> IF k = 0 THEN io ELSE CopyChunk(g[k - 1], ChunkOf(sz, k))]

FromStartSteps(w, n, io, sz) ==
  w[0] = io /\ \A k \in 1 .. n : w[k] = CopyChunk(w[k - 1], ChunkOf(sz, k))

LEMMA LoopFromStart ==
  ASSUME NEW n \in Nat, NEW io, NEW sz, NEW w, FromStartSteps(w, n, io, sz)
  PROVE  (CHOOSE g : FromStart(g, n, io, sz))[n] = w[n]
<1>0. w[0] = io /\ \A k \in 1 .. n : w[k] = CopyChunk(w[k - 1], ChunkOf(sz, k))
  BY DEF FromStartSteps
<1> DEFINE u == [k \in 0 .. n |-> w[k]]
<1>1. FromStart(u, n, io, sz)
  <2>1. \A k \in 0 .. n : u[k] = w[k]
    OBVIOUS
  <2>2. ASSUME NEW k \in 0 .. n
        PROVE  w[k] = IF k = 0 THEN io ELSE CopyChunk(u[k - 1], ChunkOf(sz, k))
    <3>1. k # 0 => k \in 1 .. n /\ k - 1 \in 0 .. n
      OBVIOUS
    <3> HIDE DEF u
    <3> QED
      BY <1>0, <2>1, <3>1
  <2> QED
    BY <2>2 DEF FromStart
<1> DEFINE g == CHOOSE g : FromStart(g, n, io, sz)
<1>2. FromStart(g, n, io, sz)
  <2> HIDE DEF u
  <2> QED
    BY <1>1
<1> HIDE DEF g, u
<1>3. g[0] = w[0]
  <2>1. 0 \in 0 .. n
    OBVIOUS
  <2> QED
    BY <1>0, <1>2, <2>1 DEF FromStart
<1>4. ASSUME NEW k \in 1 .. n, g[k - 1] = w[k - 1] PROVE g[k] = w[k]
  <2>1. k \in 0 .. n /\ k # 0
    OBVIOUS
  <2>2. g[k] = CopyChunk(g[k - 1], ChunkOf(sz, k))
    BY <1>0, <1>2, <2>1 DEF FromStart
  <2> QED
    BY <1>0, <1>4, <2>2
<1>5. g[n] = w[n]
  <2>1. Alike(g, w, n)
    BY <1>3, <1>4 DEF Alike
  <2> QED
    BY <2>1, SameSteps
<1> QED
  BY <1>5 DEF g

ChunkBefore(was, n) == SeekBoth(CopyChunk(SeekBoth(was, n, "bwd"), n), n, "bwd")

\* copy_into_self_from_end.
FromEnd(g, n, io, sz) ==
  g = [k \in 0 .. n |-> IF k = 0 THEN io ELSE ChunkBefore(g[k - 1], ChunkOf(sz, k))]

FromEndSteps(w, n, io, sz) ==
  w[0] = io /\ \A k \in 1 .. n : w[k] = ChunkBefore(w[k - 1], ChunkOf(sz, k))

LEMMA LoopFromEnd ==
  ASSUME NEW n \in Nat, NEW io, NEW sz, NEW w, FromEndSteps(w, n, io, sz)
  PROVE  (CHOOSE g : FromEnd(g, n, io, sz))[n] = w[n]
<1>0. w[0] = io /\ \A k \in 1 .. n : w[k] = ChunkBefore(w[k - 1], ChunkOf(sz, k))
  BY DEF FromEndSteps
<1> DEFINE u == [k \in 0 .. n |-> w[k]]
<1>1. FromEnd(u, n, io, sz)
  <2>1. \A k \in 0 .. n : u[k] = w[k]
    OBVIOUS
  <2>2. ASSUME NEW k \in 0 .. n
        PROVE  w[k] = IF k = 0 THEN io ELSE ChunkBefore(u[k - 1], ChunkOf(sz, k))
    <3>1. k # 0 => k \in 1 .. n /\ k - 1 \in 0 .. n
      OBVIOUS
    <3> HIDE DEF u
    <3> QED
      BY <1>0, <2>1, <3>1
  <2> QED
    BY <2>2 DEF FromEnd
<1> DEFINE g == CHOOSE g : FromEnd(g, n, io, sz)
<1>2. FromEnd(g, n, io, sz)
  <2> HIDE DEF u
  <2> QED
    BY <1>1
<1> HIDE DEF g, u
<1>3. g[0] = w[0]
  <2>1. 0 \in 0 .. n
    OBVIOUS
  <2> QED
    BY <1>0, <1>2, <2>1 DEF FromEnd
<1>4. ASSUME NEW k \in 1 .. n, g[k - 1] = w[k - 1] PROVE g[k] = w[k]
  <2>1. k \in 0 .. n /\ k # 0
    OBVIOUS
  <2>2. g[k] = ChunkBefore(g[k - 1], ChunkOf(sz, k))
    BY <1>0, <1>2, <2>1 DEF FromEnd
  <2> QED
    BY <1>0, <1>4, <2>2
<1>5. g[n] = w[n]
  <2>1. Alike(g, w, n)
    BY <1>3, <1>4 DEF Alike
  <2> QED
    BY <2>1, SameSteps
<1> QED
  BY <1>5 DEF g

ChunkInto(was, n) ==
  [src |-> AfterRead(was.src, n), dst |-> AfterWrite(was.dst, BytesRead(was.src, n))]

\* copy_into.
Into(g, n, src, dst, sz) ==
  g = [k \in 0 .. n |-> IF k = 0 THEN [src |-> src, dst |-> dst] ELSE ChunkInto(g[k - 1], ChunkOf(sz, k))]

IntoSteps(w, n, src, dst, sz) ==
  w[0] = [src |-> src, dst |-> dst] /\ \A k \in 1 .. n : w[k] = ChunkInto(w[k - 1], ChunkOf(sz, k))

LEMMA LoopInto ==
  ASSUME NEW n \in Nat, NEW src, NEW dst, NEW sz, NEW w, IntoSteps(w, n, src, dst, sz)
  PROVE  (CHOOSE g : Into(g, n, src, dst, sz))[n] = w[n]
<1>0. w[0] = [src |-> src, dst |-> dst] /\ \A k \in 1 .. n : w[k] = ChunkInto(w[k - 1], ChunkOf(sz, k))
  BY DEF IntoSteps
<1> DEFINE u == [k \in 0 .. n |-> w[k]]
<1>1. Into(u, n, src, dst, sz)
  <2>1. \A k \in 0 .. n : u[k] = w[k]
    OBVIOUS
  <2>2. ASSUME NEW k \in 0 .. n
        PROVE  w[k] = IF k = 0 THEN [src |-> src, dst |-> dst] ELSE ChunkInto(u[k - 1], ChunkOf(sz, k))
    <3>1. k # 0 => k \in 1 .. n /\ k - 1 \in 0 .. n
      OBVIOUS
    <3> HIDE DEF u
    <3> QED
      BY <1>0, <2>1, <3>1
  <2> QED
    BY <2>2 DEF Into
<1> DEFINE g == CHOOSE g : Into(g, n, src, dst, sz)
<1>2. Into(g, n, src, dst, sz)
  <2> HIDE DEF u
  <2> QED
    BY <1>1
<1> HIDE DEF g, u
<1>3. g[0] = w[0]
  <2>1. 0 \in 0 .. n
    OBVIOUS
  <2> QED
    BY <1>0, <1>2, <2>1 DEF Into
<1>4. ASSUME NEW k \in 1 .. n, g[k - 1] = w[k - 1] PROVE g[k] = w[k]
  <2>1. k \in 0 .. n /\ k # 0
    OBVIOUS
  <2>2. g[k] = ChunkInto(g[k - 1], ChunkOf(sz, k))
    BY <1>0, <1>2, <2>1 DEF Into
  <2> QED
    BY <1>0, <1>4, <2>2
<1>5. g[n] = w[n]
  <2>1. Alike(g, w, n)
    BY <1>3, <1>4 DEF Alike
  <2> QED
    BY <2>1, SameSteps
<1> QED
  BY <1>5 DEF g

(***************************************************************************)
(* A copy from the start to bytes before, or not in common.                *)
(***************************************************************************)
LEMMA CopyFromStart ==
  ASSUME NEW B, IsRow(B), NEW f \in Nat, NEW t \in Nat, NEW sz \in Nat,
         f + sz <= Len(B), t + sz <= Len(B), t <= f \/ f + sz <= t,
         NEW m1, NEW e1, NEW m2, NEW e2
  PROVE  copy_into_self_from_start(IOOf(B, Cur(f, m1, e1), Cur(t, m2, e2)), sz)
           = IOOf(Pasted(B, B, f, t, sz), Cur(f + sz, m1, e1), Cur(t + sz, m2, e2))
<1> DEFINE n == ChunkCnt(sz)
           State(m) == IOOf(Pasted(B, B, f, t, m), Cur(f + m, m1, e1), Cur(t + m, m2, e2))
           w == [k \in 0 .. n |-> State(Done(sz, k))]
           io == IOOf(B, Cur(f, m1, e1), Cur(t, m2, e2))
<1>1. Len(B) \in Nat
  BY RowLen
<1>2. /\ n \in Nat /\ Done(sz, 0) = 0 /\ Done(sz, n) = sz
      /\ \A k \in 1 .. n : /\ Done(sz, k - 1) \in Nat /\ ChunkOf(sz, k) \in Nat
                           /\ Done(sz, k) = Done(sz, k - 1) + ChunkOf(sz, k)
                           /\ Done(sz, k - 1) + ChunkOf(sz, k) <= sz
  BY ChunksAdd
<1> HIDE DEF n
<1>3. w[0] = io
  <2>1. 0 \in 0 .. n
    BY <1>2
  <2>2. w[0] = State(0)
    BY <1>2, <2>1
  <2>3. Pasted(B, B, f, t, 0) = B
    BY PastedNothing
  <2> QED
    BY <2>2, <2>3
<1>4. ASSUME NEW m \in Nat, NEW d \in Nat, m + d <= sz
      PROVE  CopyChunk(State(m), d) = State(m + d)
  <2>1. PICK P : P = Pasted(B, B, f, t, m)
    OBVIOUS
  <2>2. IsRow(P) /\ Len(P) = Len(B)
    BY <2>1, PastedRow
  <2>3. PICK a, b : a = f + m /\ b = t + m
    OBVIOUS
  <2>4. a \in Nat /\ b \in Nat /\ a + d <= Len(P)
    BY <1>1, <1>4, <2>2, <2>3
  <2>5. CopyChunk(IOOf(P, Cur(a, m1, e1), Cur(b, m2, e2)), d)
          = IOOf(Pasted(P, P, a, b, d), Cur(a + d, m1, e1), Cur(b + d, m2, e2))
    BY <2>2, <2>4, ChunkCopied
  <2>6. ASSUME NEW j \in a + 1 .. a + d PROVE P[j] = B[j]
    <3>1. j \in 1 .. Len(B) /\ j \notin t + 1 .. t + m
      BY <1>1, <1>4, <2>3
    <3> QED
      BY <2>1, <3>1, PastedOutside
  <2>7. Pasted(P, P, a, b, d) = Pasted(P, B, a, b, d)
    <3>1. Agree(P, B, a, d)
      BY <2>6 DEF Agree
    <3> QED
      BY <2>2, <2>4, <3>1, PastedSame
  <2>8. Pasted(Pasted(B, B, f, t, m), B, a, b, d) = Pasted(B, B, f, t, m + d)
    <3>1. Follow(f, t, m, d, a, b)
      BY <2>3 DEF Follow
    <3> QED
      BY <3>1, PastedMore
  <2>9. a + d = f + (m + d) /\ b + d = t + (m + d)
    BY <2>3
  <2> QED
    BY <2>1, <2>3, <2>5, <2>7, <2>8, <2>9
<1> HIDE DEF State
<1>5. ASSUME NEW k \in 1 .. n PROVE w[k] = CopyChunk(w[k - 1], ChunkOf(sz, k))
  <2>1. k \in 0 .. n /\ k - 1 \in 0 .. n
    BY <1>2
  <2>2. w[k] = State(Done(sz, k)) /\ w[k - 1] = State(Done(sz, k - 1))
    BY <2>1
  <2>3. PICK m, d : m = Done(sz, k - 1) /\ d = ChunkOf(sz, k)
    OBVIOUS
  <2>4. m \in Nat /\ d \in Nat /\ m + d <= sz /\ Done(sz, k) = m + d
    BY <1>2, <2>3
  <2>5. CopyChunk(State(m), d) = State(m + d)
    BY <1>4, <2>4
  <2> HIDE DEF w
  <2> QED
    BY <2>2, <2>3, <2>4, <2>5
<1>6. w[n] = State(sz)
  <2>1. n \in 0 .. n
    BY <1>2
  <2> QED
    BY <1>2, <2>1
<1> HIDE DEF w, io
<1>7. (CHOOSE g : FromStart(g, n, io, sz))[n] = w[n]
  <2>1. FromStartSteps(w, n, io, sz)
    BY <1>3, <1>5 DEF FromStartSteps
  <2> QED
    BY <1>2, <2>1, LoopFromStart
<1>8. copy_into_self_from_start(io, sz) = (CHOOSE g : FromStart(g, n, io, sz))[n]
  BY DEF copy_into_self_from_start, FromStart, n
<1> QED
  BY <1>6, <1>7, <1>8 DEF io, State

(***************************************************************************)
(* A copy from the end, to bytes after.                                    *)
(***************************************************************************)
LEMMA CopyFromEnd ==
  ASSUME NEW B, IsRow(B), NEW f \in Nat, NEW t \in Nat, NEW sz \in Nat, f < t,
         NEW m1 \in Nat, NEW e1 \in U32, NEW m2 \in Nat, NEW e2 \in U32,
         m1 <= f, f + sz <= e1, m2 <= t, t + sz <= e2, e1 <= Len(B), e2 <= Len(B)
  PROVE  copy_into_self_from_end(IOOf(B, Cur(f, m1, e1), Cur(t, m2, e2)), sz)
           = IOOf(Pasted(B, B, f, t, sz), Cur(f + sz, m1, e1), Cur(t + sz, m2, e2))
<1> DEFINE n == ChunkCnt(sz)
           At(a, b, m) == IOOf(Pasted(B, B, a, b, m), Cur(a, m1, e1), Cur(b, m2, e2))
           State(m) == At(f + (sz - m), t + (sz - m), m)
           w == [k \in 0 .. n |-> State(Done(sz, k))]
           io == IOOf(B, Cur(f, m1, e1), Cur(t, m2, e2))
           start == SeekBoth(io, sz, "fwd")
<1>1. Len(B) \in Nat /\ e1 \in Nat /\ e2 \in Nat
  BY RowLen DEF U32
<1>2. /\ n \in Nat /\ Done(sz, 0) = 0 /\ Done(sz, n) = sz
      /\ \A k \in 1 .. n : /\ Done(sz, k - 1) \in Nat /\ ChunkOf(sz, k) \in Nat
                           /\ Done(sz, k) = Done(sz, k - 1) + ChunkOf(sz, k)
                           /\ Done(sz, k - 1) + ChunkOf(sz, k) <= sz
  BY ChunksAdd
<1> HIDE DEF n
<1>3. w[0] = start
  <2>1. 0 \in 0 .. n
    BY <1>2
  <2>2. w[0] = State(0)
    BY <1>2, <2>1
  <2>3. f + (sz - 0) = f + sz /\ t + (sz - 0) = t + sz
    OBVIOUS
  <2>4. Pasted(B, B, f + sz, t + sz, 0) = B
    BY PastedNothing
  <2>5. start = IOOf(B, Cur(f + sz, m1, e1), Cur(t + sz, m2, e2))
    BY ONLY f \in Nat, t \in Nat, sz \in Nat, e1 \in U32, e2 \in U32, f + sz <= e1, t + sz <= e2,
            BothForward
  <2>6. State(0) = IOOf(Pasted(B, B, f + sz, t + sz, 0), Cur(f + sz, m1, e1), Cur(t + sz, m2, e2))
    BY <2>3
  <2> QED
    BY <2>2, <2>4, <2>5, <2>6
<1>4. ASSUME NEW m \in Nat, NEW d \in Nat, m + d <= sz
      PROVE  ChunkBefore(State(m), d) = State(m + d)
  <2>1. PICK a, b, x, y \in Nat : /\ a = f + (sz - (m + d)) /\ b = t + (sz - (m + d))
                                 /\ x = a + d /\ y = b + d /\ x = f + (sz - m) /\ y = t + (sz - m)
                                 /\ f <= a /\ t <= b /\ a < b /\ x <= e1
    <3>1. PICK r \in Nat : sz = m + d + r
      <4>1. sz - (m + d) \in Nat /\ sz = m + d + (sz - (m + d))
        BY <1>4
      <4> QED
        BY <4>1
    <3>2. PICK a, b, x, y : a = f + r /\ b = t + r /\ x = a + d /\ y = b + d
      OBVIOUS
    <3>3. /\ a \in Nat /\ b \in Nat /\ x \in Nat /\ y \in Nat
          /\ sz - (m + d) = r /\ sz - m = r + d
          /\ x = f + (r + d) /\ y = t + (r + d) /\ x <= e1
      BY <1>1, <3>1, <3>2
    <3> QED
      BY <3>2, <3>3
  <2>2. PICK P : P = Pasted(B, B, x, y, m)
    OBVIOUS
  <2>3. IsRow(P) /\ Len(P) = Len(B)
    BY <2>2, PastedRow
  <2>4. SeekBoth(State(m), d, "bwd") = IOOf(P, Cur(a, m1, e1), Cur(b, m2, e2))
    <3>1. State(m) = IOOf(P, Cur(x, m1, e1), Cur(y, m2, e2))
      BY <2>1, <2>2
    <3>2. x - d = a /\ y - d = b /\ m1 + d <= x /\ m2 + d <= y
      BY <2>1
    <3> HIDE DEF State
    <3>3. SeekBoth(IOOf(P, Cur(x, m1, e1), Cur(y, m2, e2)), d, "bwd")
            = IOOf(P, Cur(x - d, m1, e1), Cur(y - d, m2, e2))
      BY <2>1, <3>2, BothBackward
    <3> QED
      BY <3>1, <3>2, <3>3
  <2>5. CopyChunk(IOOf(P, Cur(a, m1, e1), Cur(b, m2, e2)), d)
          = IOOf(Pasted(P, P, a, b, d), Cur(a + d, m1, e1), Cur(b + d, m2, e2))
    <3>1. a + d <= Len(P)
      BY <1>1, <2>1, <2>3
    <3> QED
      BY <2>3, <3>1, ChunkCopied
  <2>6. Pasted(P, P, a, b, d) = Pasted(P, B, a, b, d)
    <3>1. ASSUME NEW j \in a + 1 .. a + d PROVE P[j] = B[j]
      <4>1. j \in 1 .. Len(B) /\ j \notin y + 1 .. y + m
        BY <1>1, <2>1
      <4> QED
        BY <2>1, <2>2, <4>1, PastedOutside
    <3>2. Agree(P, B, a, d)
      BY <3>1 DEF Agree
    <3> QED
      BY <2>3, <3>2, PastedSame
  <2>7. Pasted(P, B, a, b, d) = Pasted(B, B, a, b, m + d)
    <3>1. Pasted(Pasted(B, B, a + d, b + d, m), B, a, b, d) = Pasted(B, B, a, b, m + d)
      BY PastedBefore
    <3> QED
      BY <2>1, <2>2, <3>1
  <2>8. PICK Q : Q = Pasted(B, B, a, b, m + d)
    OBVIOUS
  <2>9. SeekBoth(IOOf(Q, Cur(x, m1, e1), Cur(y, m2, e2)), d, "bwd")
          = IOOf(Q, Cur(a, m1, e1), Cur(b, m2, e2))
    <3>1. x - d = a /\ y - d = b /\ m1 + d <= x /\ m2 + d <= y
      BY <2>1
    <3>2. SeekBoth(IOOf(Q, Cur(x, m1, e1), Cur(y, m2, e2)), d, "bwd")
            = IOOf(Q, Cur(x - d, m1, e1), Cur(y - d, m2, e2))
      BY <3>1, BothBackward
    <3> QED
      BY <3>1, <3>2
  <2>10. ChunkBefore(State(m), d) = IOOf(Q, Cur(a, m1, e1), Cur(b, m2, e2))
    <3> HIDE DEF State
    <3> QED
      BY <2>1, <2>4, <2>5, <2>6, <2>7, <2>8, <2>9 DEF ChunkBefore
  <2>11. State(m + d) = IOOf(Q, Cur(a, m1, e1), Cur(b, m2, e2))
    BY <2>1, <2>8
  <2> QED
    BY <2>10, <2>11
<1>5. SeekBoth(State(sz), sz, "fwd")
        = IOOf(Pasted(B, B, f, t, sz), Cur(f + sz, m1, e1), Cur(t + sz, m2, e2))
  <2>1. f + (sz - sz) = f /\ t + (sz - sz) = t
    OBVIOUS
  <2>2. PICK P : P = Pasted(B, B, f, t, sz)
    OBVIOUS
  <2>3. State(sz) = IOOf(P, Cur(f, m1, e1), Cur(t, m2, e2))
    BY <2>1, <2>2
  <2> HIDE DEF State
  <2> QED
    BY <2>2, <2>3, BothForward
<1> HIDE DEF State, start
<1>6. ASSUME NEW k \in 1 .. n PROVE w[k] = ChunkBefore(w[k - 1], ChunkOf(sz, k))
  <2>1. k \in 0 .. n /\ k - 1 \in 0 .. n
    BY <1>2
  <2>2. w[k] = State(Done(sz, k)) /\ w[k - 1] = State(Done(sz, k - 1))
    BY <2>1
  <2>3. PICK m, d : m = Done(sz, k - 1) /\ d = ChunkOf(sz, k)
    OBVIOUS
  <2>4. m \in Nat /\ d \in Nat /\ m + d <= sz /\ Done(sz, k) = m + d
    BY <1>2, <2>3
  <2>5. ChunkBefore(State(m), d) = State(m + d)
    BY <1>4, <2>4
  <2> HIDE DEF w
  <2> QED
    BY <2>2, <2>3, <2>4, <2>5
<1>7. w[n] = State(sz)
  <2>1. n \in 0 .. n
    BY <1>2
  <2> QED
    BY <1>2, <2>1
<1> HIDE DEF w, io
<1>8. (CHOOSE g : FromEnd(g, n, start, sz))[n] = w[n]
  <2>1. FromEndSteps(w, n, start, sz)
    BY <1>3, <1>6 DEF FromEndSteps
  <2> QED
    BY <1>2, <2>1, LoopFromEnd
<1>9. copy_into_self_from_end(io, sz) = SeekBoth((CHOOSE g : FromEnd(g, n, start, sz))[n], sz, "fwd")
  BY DEF copy_into_self_from_end, FromEnd, ChunkBefore, n, start
<1> QED
  BY <1>5, <1>7, <1>8, <1>9 DEF io

\* The io has its cursors in their limits, and these in its bytes.
IsIO(io) ==
  /\ io = IOOf(io.bytes, io.rd, io.wr)
  /\ IsRow(io.bytes)
  /\ io.rd \in Cursors(Len(io.bytes)) /\ io.wr \in Cursors(Len(io.bytes))

\* The io once sz bytes were read, and others were written.
Moved(io, bytes, sz) ==
  IOOf(bytes, Cur(io.rd.at + sz, io.rd.min, io.rd.end), Cur(io.wr.at + sz, io.wr.min, io.wr.end))

(***************************************************************************)
(* copy_into_self, be the bytes that it writes before those it reads, or   *)
(* after, or be some of them the same, and be the chunks of any size, does *)
(* what it would do if it read all of them first; and the cursors are left *)
(* after them (iobase.cpp).                                                *)
(***************************************************************************)
THEOREM CopyIsMove ==
  ASSUME NEW io, IsIO(io), NEW sz \in Nat, CanRead(io, sz), CanWrite(io, sz)
  PROVE  copy_into_self(io, sz)
           = Moved(io, Pasted(io.bytes, io.bytes, io.rd.at, io.wr.at, sz), sz)
<1>1. PICK B, f, m1, e1, t, m2, e2 :
        /\ B = io.bytes
        /\ f = io.rd.at /\ m1 = io.rd.min /\ e1 = io.rd.end
        /\ t = io.wr.at /\ m2 = io.wr.min /\ e2 = io.wr.end
  OBVIOUS
<1>2. IsRow(B) /\ Len(B) \in Nat
  BY <1>1, RowLen DEF IsIO
<1>3. U32Cnt \in Nat
  BY IOAssumption
<1>4. /\ io.rd \in Cursors(Len(B)) /\ io.wr \in Cursors(Len(B))
      /\ io = IOOf(B, io.rd, io.wr)
  BY <1>1 DEF IsIO
<1>5. /\ f \in Nat /\ t \in Nat /\ m1 \in Nat /\ m2 \in Nat /\ e1 \in U32 /\ e2 \in U32
      /\ e1 \in Nat /\ e2 \in Nat
      /\ m1 <= f /\ m2 <= t /\ f <= e1 /\ t <= e2 /\ e1 <= Len(B) /\ e2 <= Len(B)
      /\ io.rd = Cur(f, m1, e1) /\ io.wr = Cur(t, m2, e2)
  BY <1>1, <1>3, <1>4 DEF Cursors, Cur, U32
<1>6. f + sz <= e1 /\ t + sz <= e2
  BY <1>1, <1>5 DEF CanRead, CanWrite, Remain
<1>7. io = IOOf(B, Cur(f, m1, e1), Cur(t, m2, e2))
  BY <1>4, <1>5
<1>8. Moved(io, Pasted(B, B, f, t, sz), sz)
        = IOOf(Pasted(B, B, f, t, sz), Cur(f + sz, m1, e1), Cur(t + sz, m2, e2))
  BY <1>1 DEF Moved
<1>9. CASE f = t
  <2>1. copy_into_self(io, sz) = SeekBoth(io, sz, "fwd")
    BY <1>1, <1>9 DEF copy_into_self
  <2>2. SeekBoth(IOOf(B, Cur(f, m1, e1), Cur(t, m2, e2)), sz, "fwd")
          = IOOf(B, Cur(f + sz, m1, e1), Cur(t + sz, m2, e2))
    BY <1>5, <1>6, BothForward
  <2>3. Pasted(B, B, f, t, sz) = B
    <3>1. DOMAIN B = 1 .. Len(B) /\ B = [i \in 1 .. Len(B) |-> B[i]]
      BY <1>2, RowLen
    <3>2. \A i \in 1 .. Len(B) : (i - t) + f = i
      BY <1>5, <1>9
    <3>3. Pasted(B, B, f, t, sz) = [i \in 1 .. Len(B) |-> B[i]]
      BY <3>1, <3>2 DEF Pasted
    <3> QED
      BY <3>1, <3>3
  <2> QED
    BY <1>1, <1>7, <1>8, <2>1, <2>2, <2>3
<1>10. CASE f # t /\ MustCopyFromEnd(io, sz)
  <2>1. copy_into_self(io, sz) = copy_into_self_from_end(io, sz)
    BY <1>1, <1>10 DEF copy_into_self
  <2>2. f < t
    BY <1>1, <1>10 DEF MustCopyFromEnd
  <2>3. copy_into_self_from_end(IOOf(B, Cur(f, m1, e1), Cur(t, m2, e2)), sz)
          = IOOf(Pasted(B, B, f, t, sz), Cur(f + sz, m1, e1), Cur(t + sz, m2, e2))
    BY ONLY <1>2, <1>5, <1>6, <2>2, sz \in Nat, CopyFromEnd
  <2> QED
    BY <1>1, <1>7, <1>8, <2>1, <2>3
<1>11. CASE f # t /\ ~ MustCopyFromEnd(io, sz)
  <2>1. copy_into_self(io, sz) = copy_into_self_from_start(io, sz)
    BY <1>1, <1>11 DEF copy_into_self
  <2>2. t <= f \/ f + sz <= t
    BY <1>1, <1>5, <1>11 DEF MustCopyFromEnd
  <2>3. f + sz <= Len(B) /\ t + sz <= Len(B)
    BY <1>2, <1>5, <1>6
  <2>4. copy_into_self_from_start(IOOf(B, Cur(f, m1, e1), Cur(t, m2, e2)), sz)
          = IOOf(Pasted(B, B, f, t, sz), Cur(f + sz, m1, e1), Cur(t + sz, m2, e2))
    BY <1>2, <1>5, <2>2, <2>3, CopyFromStart
  <2> QED
    BY <1>1, <1>7, <1>8, <2>1, <2>4
<1> QED
  BY <1>9, <1>10, <1>11

(***************************************************************************)
(* copy_into, to another io: the same bytes, whatever the size of a chunk. *)
(***************************************************************************)
THEOREM CopyIntoIsMove ==
  ASSUME NEW src, IsIO(src), NEW dst, IsIO(dst), NEW sz \in Nat, CanRead(src, sz), CanWrite(dst, sz)
  PROVE  copy_into(src, dst, sz)
           = [src |-> AfterRead(src, sz),
              dst |-> [bytes |-> Pasted(dst.bytes, src.bytes, src.rd.at, dst.wr.at, sz),
                       rd |-> dst.rd, wr |-> [dst.wr EXCEPT !.at = @ + sz]]]
<1>1. PICK S, f, m1, e1, w1, D, r2, t, m2, e2 :
        /\ S = src.bytes /\ w1 = src.wr
        /\ f = src.rd.at /\ m1 = src.rd.min /\ e1 = src.rd.end
        /\ D = dst.bytes /\ r2 = dst.rd
        /\ t = dst.wr.at /\ m2 = dst.wr.min /\ e2 = dst.wr.end
  OBVIOUS
<1>2. IsRow(S) /\ Len(S) \in Nat /\ IsRow(D) /\ Len(D) \in Nat
  BY <1>1, RowLen DEF IsIO
<1>3. U32Cnt \in Nat
  BY IOAssumption
<1>4. /\ src.rd \in Cursors(Len(S)) /\ src = IOOf(S, src.rd, w1)
      /\ dst.wr \in Cursors(Len(D)) /\ dst = IOOf(D, r2, dst.wr)
  BY <1>1 DEF IsIO
<1>5. /\ f \in Nat /\ t \in Nat /\ e1 \in Nat /\ e1 <= Len(S)
      /\ src.rd = Cur(f, m1, e1) /\ dst.wr = Cur(t, m2, e2)
  BY <1>1, <1>2, <1>3, <1>4 DEF Cursors, Cur, U32
<1>6. f + sz <= Len(S)
  BY <1>1, <1>2, <1>5 DEF CanRead, Remain
<1> DEFINE n == ChunkCnt(sz)
           State(m) == [src |-> IOOf(S, Cur(f + m, m1, e1), w1),
                        dst |-> IOOf(Pasted(D, S, f, t, m), r2, Cur(t + m, m2, e2))]
           w == [k \in 0 .. n |-> State(Done(sz, k))]
<1>7. /\ n \in Nat /\ Done(sz, 0) = 0 /\ Done(sz, n) = sz
      /\ \A k \in 1 .. n : /\ Done(sz, k - 1) \in Nat /\ ChunkOf(sz, k) \in Nat
                           /\ Done(sz, k) = Done(sz, k - 1) + ChunkOf(sz, k)
                           /\ Done(sz, k - 1) + ChunkOf(sz, k) <= sz
  BY ChunksAdd
<1> HIDE DEF n
<1>8. w[0] = [src |-> src, dst |-> dst]
  <2>1. 0 \in 0 .. n
    BY <1>7
  <2>2. w[0] = State(0)
    BY <1>7, <2>1
  <2>3. Pasted(D, S, f, t, 0) = D
    BY <1>2, <1>5, PastedNothing
  <2>4. f + 0 = f /\ t + 0 = t
    BY <1>5
  <2>5. State(0) = [src |-> IOOf(S, Cur(f, m1, e1), w1), dst |-> IOOf(D, r2, Cur(t, m2, e2))]
    BY <2>3, <2>4
  <2> HIDE DEF w, State
  <2> QED
    BY <1>4, <1>5, <2>2, <2>5
<1>9. ASSUME NEW m \in Nat, NEW d \in Nat, m + d <= sz
      PROVE  ChunkInto(State(m), d) = State(m + d)
  <2>1. PICK P : P = Pasted(D, S, f, t, m)
    OBVIOUS
  <2>2. IsRow(P) /\ Len(P) = Len(D)
    BY <1>2, <2>1, PastedRow
  <2>3. PICK a, b : a = f + m /\ b = t + m
    OBVIOUS
  <2>4. a \in Nat /\ b \in Nat /\ a + d <= Len(S)
    BY <1>2, <1>5, <1>6, <1>9, <2>3
  <2>5. PICK data : data = SubSeq(S, a + 1, a + d)
    OBVIOUS
  <2>6. Len(data) = d /\ Patched(P, b, data) = Pasted(P, S, a, b, d)
    BY <1>2, <2>4, <2>5, SubRow, ChunkIsPasted
  <2>7. Pasted(P, S, a, b, d) = Pasted(D, S, f, t, m + d)
    <3>1. Pasted(Pasted(D, S, f, t, m), S, f + m, t + m, d) = Pasted(D, S, f, t, m + d)
      <4>1. Follow(f, t, m, d, a, b)
        BY <1>5, <2>3 DEF Follow
      <4>2. Pasted(Pasted(D, S, f, t, m), S, a, b, d) = Pasted(D, S, f, t, m + d)
        BY <1>2, <4>1, PastedMore
      <4> QED
        BY <2>3, <4>2
    <3> QED
      BY <2>1, <2>3, <3>1
  <2>8. PICK from, to : from = IOOf(S, Cur(a, m1, e1), w1) /\ to = IOOf(P, r2, Cur(b, m2, e2))
    OBVIOUS
  <2>9. State(m) = [src |-> from, dst |-> to]
    BY <2>1, <2>3, <2>8
  <2>10. BytesRead(from, d) = data
    BY <2>5, <2>8 DEF BytesRead, IOOf, Cur
  <2>11. AfterRead(from, d) = IOOf(S, Cur(a + d, m1, e1), w1)
    BY <2>8 DEF AfterRead, IOOf, Cur
  <2>12. PICK Q : Q = Patched(P, b, data)
    OBVIOUS
  <2>13. AfterWrite(to, data) = IOOf(Q, r2, Cur(b + d, m2, e2))
    <3>1. to.bytes = P /\ to.wr.at = b
      BY <2>8 DEF IOOf, Cur
    <3>2. AfterWrite(to, data) = [[to EXCEPT !.bytes = Q] EXCEPT !.wr.at = @ + Len(data)]
      BY <2>12, <3>1 DEF AfterWrite
    <3>3. [to EXCEPT !.bytes = Q] = IOOf(Q, r2, Cur(b, m2, e2))
      BY <2>8 DEF IOOf
    <3>4. [IOOf(Q, r2, Cur(b, m2, e2)) EXCEPT !.wr.at = @ + Len(data)] = IOOf(Q, r2, Cur(b + d, m2, e2))
      BY <2>6 DEF IOOf, Cur
    <3> QED
      BY <3>2, <3>3, <3>4
  <2>14. ChunkInto([src |-> from, dst |-> to], d)
           = [src |-> IOOf(S, Cur(a + d, m1, e1), w1), dst |-> IOOf(Q, r2, Cur(b + d, m2, e2))]
    BY <2>10, <2>11, <2>13 DEF ChunkInto
  <2>15. a + d = f + (m + d) /\ b + d = t + (m + d)
    BY <1>5, <2>3
  <2>16. State(m + d) = [src |-> IOOf(S, Cur(a + d, m1, e1), w1), dst |-> IOOf(Q, r2, Cur(b + d, m2, e2))]
    BY <2>6, <2>7, <2>12, <2>15
  <2> HIDE DEF State
  <2> QED
    BY <2>9, <2>14, <2>16
<1> HIDE DEF State
<1>10. ASSUME NEW k \in 1 .. n PROVE w[k] = ChunkInto(w[k - 1], ChunkOf(sz, k))
  <2>1. k \in 0 .. n /\ k - 1 \in 0 .. n
    BY <1>7
  <2>2. w[k] = State(Done(sz, k)) /\ w[k - 1] = State(Done(sz, k - 1))
    BY <2>1
  <2>3. PICK m, d : m = Done(sz, k - 1) /\ d = ChunkOf(sz, k)
    OBVIOUS
  <2>4. m \in Nat /\ d \in Nat /\ m + d <= sz /\ Done(sz, k) = m + d
    BY <1>7, <2>3
  <2>5. ChunkInto(State(m), d) = State(m + d)
    BY <1>9, <2>4
  <2> HIDE DEF w
  <2> QED
    BY <2>2, <2>3, <2>4, <2>5
<1>11. w[n] = State(sz)
  <2>1. n \in 0 .. n
    BY <1>7
  <2> QED
    BY <1>7, <2>1
<1> HIDE DEF w
<1>12. (CHOOSE g : Into(g, n, src, dst, sz))[n] = w[n]
  <2>1. IntoSteps(w, n, src, dst, sz)
    BY <1>8, <1>10 DEF IntoSteps
  <2> QED
    BY <1>7, <2>1, LoopInto
<1>13. copy_into(src, dst, sz) = (CHOOSE g : Into(g, n, src, dst, sz))[n]
  BY DEF copy_into, Into, ChunkInto, n
<1>14. AfterRead(src, sz) = IOOf(S, Cur(f + sz, m1, e1), w1)
  <2>1. src = IOOf(S, Cur(f, m1, e1), w1)
    BY <1>4, <1>5
  <2> QED
    BY <2>1 DEF AfterRead, IOOf, Cur
<1>15. [dst.wr EXCEPT !.at = @ + sz] = Cur(t + sz, m2, e2)
  BY <1>5 DEF Cur
<1> QED
  BY <1>1, <1>11, <1>12, <1>13, <1>14, <1>15 DEF State, IOOf

-----------------------------------------------------------------------------
(* A part, and what is stored of it *)

MkPart(csize, future_csize, space, bytes) ==
  [csize |-> csize, future_csize |-> future_csize, space |-> space, bytes |-> bytes]

PartTypes(part) ==
  /\ part = MkPart(part.csize, part.future_csize, part.space, part.bytes)
  /\ part.csize \in Nat /\ part.future_csize \in Nat /\ part.space \in Nat
  /\ part.future_csize <= part.csize /\ part.csize <= MaxCsize
  /\ IsRow(part.bytes) /\ Len(part.bytes) = part.space

\* A part whose last resize did not throw: its space is for its size.
PartIsWhole(part) ==
  PartTypes(part) /\ part.space = AllocSz(part.csize) /\ (part.csize = 0 => part = NoPart)

LEMMA NoPartIsWhole == PartIsWhole(NoPart) /\ NoPart.csize = 0 /\ NoPart.future_csize = 0
<1>1. NoPart = MkPart(0, 0, 0, << >>)
  BY DEF NoPart, MkPart
<1>2. IsRow(<< >>) /\ Len(<< >>) = 0
  BY ShortRows
<1>3. AllocSz(0) = 0
  BY AllocSzFacts
<1>4. MaxCsize \in Nat
  BY DescriptorContentAssumption
<1>5. PICK part : part = NoPart
  OBVIOUS
<1>6. part.csize = 0 /\ part.future_csize = 0 /\ part.space = 0 /\ part.bytes = << >>
  BY <1>1, <1>5 DEF MkPart
<1>7. part = MkPart(part.csize, part.future_csize, part.space, part.bytes)
  BY <1>1, <1>5, <1>6
<1> QED
  BY <1>2, <1>3, <1>4, <1>5, <1>6, <1>7 DEF PartIsWhole, PartTypes

\* A row is its first bytes and then the others.
LEMMA SplitRow ==
  ASSUME NEW s, IsRow(s), NEW a \in Nat, NEW n \in Nat, Len(s) = a + n
  PROVE  s = SubSeq(s, 1, a) \o SubSeq(s, a + 1, a + n)
<1>1. PICK x, y : x = SubSeq(s, 0 + 1, 0 + a) /\ y = SubSeq(s, a + 1, a + n)
  OBVIOUS
<1>2. x = SubSeq(s, 1, a)
  BY <1>1
<1>3. IsRow(x) /\ Len(x) = a /\ \A i \in 1 .. a : x[i] = s[0 + i]
  <2>1. 0 \in Nat /\ 0 + a <= Len(s)
    OBVIOUS
  <2> QED
    BY <1>1, <2>1, SubRow
<1>4. IsRow(y) /\ Len(y) = n /\ \A i \in 1 .. n : y[i] = s[a + i]
  <2>1. a + n <= Len(s)
    OBVIOUS
  <2> QED
    BY <1>1, <2>1, SubRow
<1>5. PICK z : z = x \o y
  OBVIOUS
<1>6. /\ IsRow(z) /\ Len(z) = Len(x) + Len(y)
      /\ \A i \in 1 .. Len(x) + Len(y) : z[i] = IF i <= Len(x) THEN x[i] ELSE y[i - Len(x)]
  BY <1>3, <1>4, <1>5, ConcatRows
<1>7. Len(z) = Len(s)
  BY <1>3, <1>4, <1>6
<1>8. ASSUME NEW i \in 1 .. Len(z) PROVE z[i] = s[i]
  <2>1. CASE i <= a
    <3>1. i \in 1 .. a /\ 0 + i = i
      BY <1>7, <2>1
    <3> QED
      BY <1>3, <1>4, <1>6, <2>1, <3>1
  <2>2. CASE ~ (i <= a)
    <3>1. i - a \in 1 .. n /\ a + (i - a) = i
      BY <1>7, <2>2
    <3> QED
      BY <1>3, <1>4, <1>6, <2>2, <3>1
  <2> QED
    BY <1>7, <2>1, <2>2
<1>9. z = s
  BY <1>6, <1>7, <1>8, RowsAreEqual
<1> QED
  BY <1>1, <1>2, <1>5, <1>9

LEMMA SegmOfPart ==
  ASSUME NEW p \in Nat, NEW part, PartTypes(part)
  PROVE  /\ SegmentRow(SegmOf(p, part)) /\ SpaceOf(SegmOf(p, part)) = part.space
         /\ InlineSz(part.space) \in Nat /\ InlineSz(part.space) <= part.space
         /\ part.bytes = SubSeq(part.bytes, 1, part.space - InlineSz(part.space)) \o SegmOf(p, part).raw
<1>1. PICK s, b : s = part.space /\ b = part.bytes
  OBVIOUS
<1>2. s \in Nat /\ IsRow(b) /\ Len(b) = s
  BY <1>1 DEF PartTypes
<1>3. PICK r : r = InlineSz(s)
  OBVIOUS
<1>4. r \in Nat /\ r <= s
  <2>1. \E blks, subblks, rest \in Nat :
          /\ blks = s \div BlkSz /\ subblks = (s % BlkSz) \div Unit /\ rest = InlineSz(s)
          /\ subblks < SubblkCntPerBlk /\ rest < Unit
          /\ s = blks * BlkSz + subblks * Unit + rest
    BY <1>2, SpaceParts
  <2>2. PICK blks, subblks, rest \in Nat :
          rest = InlineSz(s) /\ s = blks * BlkSz + subblks * Unit + rest
    BY <2>1
  <2>3. PICK u, v \in Nat : u = blks * BlkSz /\ v = subblks * Unit
    <3>1. BlkSz \in Nat /\ Unit \in Nat
      BY BlkSzFacts, DescriptorContentAssumption
    <3> QED
      BY <3>1
  <2> QED
    BY <1>3, <2>2, <2>3
<1>5. PICK a \in Nat : a = s - r /\ s = a + r
  <2>1. s - r \in Nat /\ s = (s - r) + r
    BY <1>2, <1>4
  <2> QED
    BY <2>1
<1>6. PICK raw : raw = SubSeq(b, a + 1, a + r)
  OBVIOUS
<1>7. IsRow(raw) /\ Len(raw) = r
  <2>1. IsRow(b) /\ r \in Nat /\ a + r <= Len(b)
    BY <1>2, <1>4, <1>5
  <2> QED
    BY <1>6, <2>1, SubRow
<1>8. SegmOf(p, part) = [exts |-> ExtentsOf(p, s), raw |-> raw]
  BY <1>1, <1>3, <1>5, <1>6 DEF SegmOf
<1>9. /\ SegmentRow([exts |-> ExtentsOf(p, s), raw |-> raw])
      /\ SpaceOf([exts |-> ExtentsOf(p, s), raw |-> raw]) = s
  BY <1>2, <1>3, <1>7, ExtentsOfSpace
<1>10. b = SubSeq(b, 1, a) \o raw
  BY <1>2, <1>4, <1>5, <1>6, SplitRow
<1>11. SegmOf(p, part).raw = raw
  BY <1>8
<1> QED
  BY <1>1, <1>3, <1>4, <1>5, <1>8, <1>9, <1>10, <1>11

\* What is loaded of a part that was stored, and whose bytes did not change
\* since, for who knows of `present` bytes of it.
LEMMA PartIsLoaded ==
  ASSUME NEW p \in Nat, NEW part, PartTypes(part), NEW present
  PROVE  LoadedPart([csize |-> part.csize, segm |-> SegmOf(p, part)], present, part.bytes)
           = MkPart(part.csize, part.csize - present, part.space, part.bytes)
<1>1. PICK segm : segm = SegmOf(p, part)
  OBVIOUS
<1>2. /\ SpaceOf(segm) = part.space
      /\ part.bytes = SubSeq(part.bytes, 1, part.space - InlineSz(part.space)) \o segm.raw
  BY <1>1, SegmOfPart
<1>3. PICK stored : stored = [csize |-> part.csize, segm |-> segm]
  OBVIOUS
<1>4. stored.csize = part.csize /\ stored.segm = segm
  BY <1>3
<1>5. LoadedPart(stored, present, part.bytes)
        = MkPart(part.csize, part.csize - present, part.space, part.bytes)
  BY <1>2, <1>4 DEF LoadedPart, MkPart
<1> QED
  BY <1>1, <1>3, <1>5

-----------------------------------------------------------------------------
(* A descriptor, and its header *)

Naturals(s) == IsRow(s) /\ \A i \in 1 .. Len(s) : s[i] \in Nat

IdataOf(d) == d.fields \o d.future_idata

DescriptorIsTyped(d) ==
  /\ d = [version |-> d.version, id |-> d.id, type |-> d.type, fields |-> d.fields,
          future_idata |-> d.future_idata, cparts |-> d.cparts]
  /\ d.version \in Versions /\ d.id \in Nat /\ d.type \in Nat
  /\ Naturals(d.fields) /\ Len(d.fields) = FieldCnt(d.version)
  /\ Naturals(d.future_idata)
  /\ IsRow(d.cparts) /\ Len(d.cparts) \in {1, 2}
  /\ \A p \in 1 .. Len(d.cparts) : PartTypes(d.cparts[p])

StoredParts(cparts) ==
  [p \in DOMAIN cparts |-> [csize |-> cparts[p].csize, segm |-> SegmOf(p, cparts[p])]]

LEMMA HeaderIsRow ==
  ASSUME NEW d, DescriptorIsTyped(d)
  PROVE  /\ HeaderRow(HeaderOf(d))
         /\ HeaderOf(d) = [id |-> d.id, type |-> d.type, cparts |-> StoredParts(d.cparts),
                           idata |-> IdataOf(d)]
         /\ IsRow(StoredParts(d.cparts)) /\ Len(StoredParts(d.cparts)) = Len(d.cparts)
         /\ \A p \in 1 .. Len(d.cparts) :
              StoredParts(d.cparts)[p] = [csize |-> d.cparts[p].csize, segm |-> SegmOf(p, d.cparts[p])]
<1>1. HeaderOf(d) = [id |-> d.id, type |-> d.type, cparts |-> StoredParts(d.cparts),
                     idata |-> IdataOf(d)]
  BY DEF HeaderOf, StoredParts, IdataOf
<1>2. PICK c, n, i, hdr : c = d.cparts /\ n = Len(c) /\ i = IdataOf(d) /\ hdr = HeaderOf(d)
  OBVIOUS
<1>3. /\ d.id \in Nat /\ d.type \in Nat /\ IsRow(d.fields) /\ IsRow(d.future_idata)
      /\ IsRow(c) /\ n \in Nat /\ \A p \in 1 .. n : PartTypes(c[p])
  BY <1>2 DEF DescriptorIsTyped, Naturals
<1>4. IsRow(i)
  BY <1>2, <1>3, ConcatRows DEF IdataOf
<1>5. DOMAIN c = 1 .. n
  BY <1>2, <1>3, RowLen
<1>6. PICK stored : stored = StoredParts(c)
  OBVIOUS
<1>7. stored = [p \in 1 .. n |-> [csize |-> c[p].csize, segm |-> SegmOf(p, c[p])]]
  BY <1>5, <1>6 DEF StoredParts
<1>8. \A p \in 1 .. n : stored[p] = [csize |-> c[p].csize, segm |-> SegmOf(p, c[p])]
  BY <1>7
<1>9. stored = [p \in 1 .. n |-> stored[p]]
  BY <1>7
<1>10. IsRow(stored) /\ Len(stored) = n
  BY <1>3, <1>9, RowFacts
<1>11. ASSUME NEW p \in 1 .. n PROVE PartRow(stored[p])
  <2>1. PICK part, segm : part = c[p] /\ segm = SegmOf(p, part)
    OBVIOUS
  <2>2. PartTypes(part) /\ p \in Nat
    BY <1>3, <2>1
  <2>3. SegmentRow(segm)
    BY <2>1, <2>2, SegmOfPart
  <2>4. part.csize \in Nat
    BY <2>2 DEF PartTypes
  <2>5. stored[p] = [csize |-> part.csize, segm |-> segm]
    BY <1>8, <2>1
  <2>6. PICK q : q = stored[p]
    OBVIOUS
  <2>7. q.csize = part.csize /\ q.segm = segm
    BY <2>5, <2>6
  <2>8. PartRow(q)
    BY <2>3, <2>4, <2>5, <2>6, <2>7 DEF PartRow
  <2> QED
    BY <2>6, <2>8
<1>12. PartsRow(stored)
  BY <1>10, <1>11 DEF PartsRow
<1>13. hdr.id = d.id /\ hdr.type = d.type /\ hdr.cparts = stored /\ hdr.idata = i
  BY <1>1, <1>2, <1>6
<1>14. HeaderRow(hdr)
  BY <1>1, <1>2, <1>3, <1>4, <1>6, <1>12, <1>13 DEF HeaderRow
<1> QED
  BY <1>1, <1>2, <1>6, <1>8, <1>10, <1>14

-----------------------------------------------------------------------------
(* Descriptor::resize_content_part *)

\* An io over some bytes, with a cursor to read and another to write, and no limits.
Open(b, from, to) == IOOf(b, Cur(from, 0, Len(b)), Cur(to, 0, Len(b)))

LEMMA OpenIsIO ==
  ASSUME NEW b, IsRow(b), Len(b) \in U32, NEW from \in 0 .. Len(b), NEW to \in 0 .. Len(b)
  PROVE  /\ IsIO(Open(b, from, to))
         /\ Open(b, from, to).bytes = b
         /\ Open(b, from, to).rd = Cur(from, 0, Len(b)) /\ Open(b, from, to).wr = Cur(to, 0, Len(b))
         /\ \A sz \in Nat : from + sz <= Len(b) => CanRead(Open(b, from, to), sz)
         /\ \A sz \in Nat : to + sz <= Len(b) => CanWrite(Open(b, from, to), sz)
<1>1. PICK n \in Nat : n = Len(b)
  BY RowLen
<1>2. U32Cnt \in Nat \ {0} /\ n < U32Cnt
  BY <1>1, IOAssumption DEF U32
<1>3. PICK rd, wr : rd = Cur(from, 0, n) /\ wr = Cur(to, 0, n)
  OBVIOUS
<1>4. rd \in Cursors(n) /\ wr \in Cursors(n)
  BY <1>1, <1>2, <1>3 DEF Cursors, Cur, U32
<1>5. PICK io : io = IOOf(b, rd, wr)
  OBVIOUS
<1>6. io.bytes = b /\ io.rd = rd /\ io.wr = wr
  BY <1>5 DEF IOOf
<1>7. IsIO(io)
  BY <1>1, <1>4, <1>5, <1>6 DEF IsIO
<1>8. Remain(io.rd) = n - from /\ Remain(io.wr) = n - to
  BY <1>3, <1>6 DEF Remain, Cur
<1>9. \A sz \in Nat : from + sz <= n => CanRead(io, sz)
  BY <1>1, <1>8 DEF CanRead
<1>10. \A sz \in Nat : to + sz <= n => CanWrite(io, sz)
  BY <1>1, <1>8 DEF CanWrite
<1>11. io = Open(b, from, to)
  BY <1>1, <1>3, <1>5 DEF Open
<1> QED
  BY <1>1, <1>3, <1>6, <1>7, <1>9, <1>10, <1>11

LEMMA NewIOIsOpen == \A b : NewIO(b) = Open(b, 0, 0)
BY DEF NewIO, Open, IOOf, Cur, NewCursor

LEMMA OpenSeeks ==
  ASSUME NEW b, IsRow(b), NEW from, NEW to, NEW n \in Nat, n <= Len(b)
  PROVE  /\ SeekRd(Open(b, from, to), n, "end") = Open(b, Len(b) - n, to)
         /\ SeekWr(Open(b, from, to), n, "end") = Open(b, from, Len(b) - n)
         /\ SeekRd(Open(b, from, to), n, "beg") = Open(b, n, to)
<1>1. PICK L \in Nat : L = Len(b)
  BY RowLen
<1>2. ASSUME NEW at
      PROVE  /\ Seek(L, Cur(at, 0, L), n, "end") = Cur(L - n, 0, L)
             /\ Seek(L, Cur(at, 0, L), n, "beg") = Cur(n, 0, L)
  <2>1. SeekEnd(L, Cur(at, 0, L), n) = L - n
    BY <1>1 DEF SeekEnd, Cur
  <2>2. SeekBeg(Cur(at, 0, L), n) = n
    BY <1>1 DEF SeekBeg, Cur
  <2>3. calc_seek(L, Cur(at, 0, L), n, "end") = L - n /\ calc_seek(L, Cur(at, 0, L), n, "beg") = n
    BY <2>1, <2>2 DEF calc_seek
  <2> QED
    BY <2>3 DEF Seek, Cur
<1>3. PICK e : e = L - n
  OBVIOUS
<1>4. PICK io : io = IOOf(b, Cur(from, 0, L), Cur(to, 0, L))
  OBVIOUS
<1>5. Len(io.bytes) = L /\ io.rd = Cur(from, 0, L) /\ io.wr = Cur(to, 0, L)
  BY <1>1, <1>4 DEF IOOf
<1>6. /\ Seek(L, io.rd, n, "end") = Cur(e, 0, L)
      /\ Seek(L, io.wr, n, "end") = Cur(e, 0, L)
      /\ Seek(L, io.rd, n, "beg") = Cur(n, 0, L)
  BY <1>2, <1>3, <1>5
<1>7. SeekRd(io, n, "end") = IOOf(b, Cur(e, 0, L), Cur(to, 0, L))
  BY <1>4, <1>5, <1>6 DEF SeekRd, IOOf
<1>8. SeekWr(io, n, "end") = IOOf(b, Cur(from, 0, L), Cur(e, 0, L))
  BY <1>4, <1>5, <1>6 DEF SeekWr, IOOf
<1>9. SeekRd(io, n, "beg") = IOOf(b, Cur(n, 0, L), Cur(to, 0, L))
  BY <1>4, <1>5, <1>6 DEF SeekRd, IOOf
<1> QED
  BY <1>1, <1>3, <1>4, <1>7, <1>8, <1>9 DEF Open

\* A size that a header may have, and what the allocator gives for it, are in 32 bits.
LEMMA SizesFit ==
  ASSUME NEW n \in Nat, n <= MaxCsize
  PROVE  n \in U32 /\ AllocSz(n) \in U32
<1>1. AllocSz(n) \in Nat /\ AllocSz(n) < n + Unit
  BY AllocSzFacts
<1>2. /\ Unit \in Nat /\ MaxCsize \in Nat /\ U32Cnt \in Nat
      /\ MaxCsize + Unit < U32Cnt
  BY DescriptorContentAssumption, IOAssumption
<1> QED
  BY <1>1, <1>2 DEF U32

\* Of the bytes of a part, those that are in n and in its space.
Kept(b, part, n) == \A i \in 1 .. Len(b) : i <= n /\ i <= part.space => b[i] = part.bytes[i]

LEMMA ReallocedPart ==
  ASSUME NEW part, PartIsWhole(part), NEW n \in Nat
  PROVE  \E b : /\ Realloced(part, n) = MkPart(part.csize, part.future_csize, AllocSz(n), b)
                /\ IsRow(b) /\ Len(b) = AllocSz(n)
                /\ Kept(b, part, n)
<1>1. PICK c, f, s, d : c = part.csize /\ f = part.future_csize /\ s = part.space /\ d = part.bytes
  OBVIOUS
<1>2. /\ part = MkPart(c, f, s, d) /\ c \in Nat /\ s \in Nat /\ IsRow(d) /\ Len(d) = s
      /\ s = AllocSz(c)
  BY <1>1 DEF PartIsWhole, PartTypes
<1>3. PICK m \in Nat : m = AllocSz(n)
  BY AllocSzFacts
<1>4. CASE s = n
  <2>1. AllocSz(n) = s
    <3>1. AllocSz(AllocSz(c)) = AllocSz(c)
      BY <1>2, AllocSzFacts
    <3> QED
      BY <1>2, <1>4, <3>1
  <2>2. Realloced(part, n) = part
    BY <1>1, <1>4 DEF Realloced
  <2>3. Kept(d, part, n)
    BY <1>1 DEF Kept
  <2> QED
    BY <1>1, <1>2, <2>1, <2>2, <2>3
<1>5. CASE s # n
  <2>1. PICK b : b = [i \in 1 .. m |-> IF i <= Least(n, s) THEN d[i] ELSE Junk]
    OBVIOUS
  <2>2. Realloced(part, n) = MkPart(c, f, m, b)
    <3>1. Realloced(part, n) =
            [[part EXCEPT !.space = m] EXCEPT
               !.bytes = [i \in 1 .. m |-> IF i <= Least(n, s) THEN d[i] ELSE Junk]]
      BY <1>1, <1>3, <1>5 DEF Realloced
    <3>2. [part EXCEPT !.space = m] = MkPart(c, f, m, d)
      BY <1>2 DEF MkPart
    <3>3. [MkPart(c, f, m, d) EXCEPT !.bytes = b] = MkPart(c, f, m, b)
      BY DEF MkPart
    <3> QED
      BY <2>1, <3>1, <3>2, <3>3
  <2>3. b = [i \in 1 .. m |-> b[i]]
    BY <2>1
  <2>4. IsRow(b) /\ Len(b) = m
    BY <2>3, RowFacts
  <2>5. \A i \in 1 .. m : i <= n /\ i <= s => b[i] = d[i]
    BY <1>2, <2>1 DEF Least
  <2>6. Kept(b, part, n)
    BY <1>1, <2>4, <2>5 DEF Kept
  <2> QED
    BY <1>1, <1>3, <2>2, <2>4, <2>6
<1> QED
  BY <1>4, <1>5

LEMMA ExpandedPart ==
  ASSUME NEW part, PartIsWhole(part), NEW n \in Nat, part.csize < n, n <= MaxCsize
  PROVE  \E b : /\ IsRow(b) /\ Len(b) = AllocSz(n)
                /\ Kept(b, part, n)
                /\ Expanded(part, n) =
                     MkPart(part.csize, part.future_csize, AllocSz(n),
                            Pasted(b, b, part.csize - part.future_csize,
                                   AllocSz(n) - part.future_csize, part.future_csize))
<1>1. PICK c, f \in Nat : c = part.csize /\ f = part.future_csize /\ f <= c
  BY DEF PartIsWhole, PartTypes
<1>2. PICK b : /\ Realloced(part, n) = MkPart(c, f, AllocSz(n), b)
               /\ IsRow(b) /\ Len(b) = AllocSz(n)
               /\ Kept(b, part, n)
  <2>1. PICK b : /\ Realloced(part, n) = MkPart(part.csize, part.future_csize, AllocSz(n), b)
                 /\ IsRow(b) /\ Len(b) = AllocSz(n)
                 /\ Kept(b, part, n)
    BY ReallocedPart
  <2> QED
    BY <1>1, <2>1
<1>3. PICK L, p, q \in Nat : L = AllocSz(n) /\ p = c - f /\ q = L - f /\ c <= L
  <2>1. AllocSz(n) \in Nat /\ n <= AllocSz(n)
    BY AllocSzFacts
  <2> QED
    BY <1>1, <2>1
<1>4. Len(b) \in U32 /\ Len(b) = L
  BY <1>2, <1>3, SizesFit
<1>5. FutureOutIO(MkPart(c, f, AllocSz(n), b)) = Open(b, 0, q)
  <2>1. f <= Len(b)
    BY <1>1, <1>3, <1>4
  <2>2. SeekWr(Open(b, 0, 0), f, "end") = Open(b, 0, Len(b) - f)
    BY <1>2, <2>1, OpenSeeks
  <2> QED
    BY <1>3, <1>4, <2>2, NewIOIsOpen DEF FutureOutIO, MkPart
<1>6. SeekRd(Open(b, 0, q), p, "beg") = Open(b, p, q)
  <2>1. p <= Len(b) /\ p \in Nat
    BY <1>1, <1>3, <1>4
  <2> QED
    BY ONLY <1>2, <2>1, OpenSeeks
<1>7. PICK io : io = Open(b, p, q)
  OBVIOUS
<1>8. IsIO(io) /\ CanRead(io, f) /\ CanWrite(io, f) /\ io.bytes = b /\ io.rd.at = p /\ io.wr.at = q
  <2>3. p + f = c /\ q + f = L /\ p <= L /\ q <= L
    BY ONLY <1>1, <1>3
  <2>4. p \in 0 .. L /\ q \in 0 .. L /\ p + f <= L /\ q + f <= L
    BY ONLY <1>1, <1>3, <2>3
  <2>1. p \in 0 .. Len(b) /\ q \in 0 .. Len(b) /\ p + f <= Len(b) /\ q + f <= Len(b)
    BY ONLY <1>4, <2>4
  <2>2. /\ IsIO(Open(b, p, q))
        /\ Open(b, p, q).bytes = b
        /\ Open(b, p, q).rd = Cur(p, 0, Len(b)) /\ Open(b, p, q).wr = Cur(q, 0, Len(b))
        /\ \A sz \in Nat : p + sz <= Len(b) => CanRead(Open(b, p, q), sz)
        /\ \A sz \in Nat : q + sz <= Len(b) => CanWrite(Open(b, p, q), sz)
    <3>1. p \in 0 .. Len(b)
      BY <2>1
    <3>2. q \in 0 .. Len(b)
      BY <2>1
    <3> QED
      BY ONLY <1>2, <1>4, <3>1, <3>2, OpenIsIO
  <2> QED
    BY <1>7, <2>1, <2>2 DEF Cur
<1>9. copy_into_self(io, f).bytes = Pasted(b, b, p, q, f)
  BY <1>8, CopyIsMove DEF Moved, IOOf
<1>10. PresentSz(part) = p
  BY <1>1, <1>3 DEF PresentSz
<1>11. PICK was : was = MkPart(c, f, L, b)
  OBVIOUS
<1>12. Expanded(part, n) = [was EXCEPT !.bytes = Pasted(b, b, p, q, f)]
  BY <1>1, <1>2, <1>3, <1>5, <1>6, <1>7, <1>9, <1>10, <1>11 DEF Expanded
<1>13. Expanded(part, n) = MkPart(c, f, L, Pasted(b, b, p, q, f))
  BY <1>11, <1>12 DEF MkPart
<1> QED
  BY <1>1, <1>2, <1>3, <1>13

\* In memory or through another segment, the last bytes of the space are put
\* at the end of the new one.
LEMMA ShrunkPart ==
  ASSUME NEW part, PartIsWhole(part), NEW n \in Nat, part.future_csize <= n, n < part.csize
  PROVE  \E b : /\ IsRow(b) /\ Len(b) = AllocSz(n)
                /\ Kept(b, part, n)
                /\ Shrunk(part, n) =
                     MkPart(part.csize, part.future_csize, AllocSz(n),
                            Pasted(b, part.bytes, part.space - part.future_csize,
                                   AllocSz(n) - part.future_csize, part.future_csize))
<1>1. PICK c, f, s \in Nat : /\ c = part.csize /\ f = part.future_csize /\ s = part.space
                            /\ f <= c /\ c <= MaxCsize /\ s = AllocSz(c)
  BY DEF PartIsWhole, PartTypes
<1>2. PICK b : /\ Realloced(part, n) = MkPart(c, f, AllocSz(n), b)
               /\ IsRow(b) /\ Len(b) = AllocSz(n)
               /\ Kept(b, part, n)
  <2>1. PICK b : /\ Realloced(part, n) = MkPart(part.csize, part.future_csize, AllocSz(n), b)
                 /\ IsRow(b) /\ Len(b) = AllocSz(n)
                 /\ Kept(b, part, n)
    BY ReallocedPart
  <2> QED
    BY <1>1, <2>1
<1>3. PICK d : d = part.bytes /\ IsRow(d) /\ Len(d) = s
  BY <1>1 DEF PartIsWhole, PartTypes
<1>4. PICK L, p, q \in Nat : L = AllocSz(n) /\ p = s - f /\ q = L - f /\ f <= L /\ f <= s
  <2>1. AllocSz(n) \in Nat /\ n <= AllocSz(n) /\ c <= AllocSz(c)
    BY <1>1, AllocSzFacts
  <2> QED
    BY <1>1, <2>1
<1>5. Len(b) \in U32 /\ Len(b) = L /\ Len(d) \in U32
  <2>1. n <= MaxCsize
    <3>1. MaxCsize \in Nat
      BY DescriptorContentAssumption
    <3> QED
      BY <1>1, <3>1
  <2> QED
    BY <1>1, <1>2, <1>3, <1>4, <2>1, SizesFit
<1>6. FutureOutIO(MkPart(c, f, AllocSz(n), b)) = Open(b, 0, q)
  <2>1. f <= Len(b)
    BY <1>4, <1>5
  <2>2. SeekWr(Open(b, 0, 0), f, "end") = Open(b, 0, Len(b) - f)
    BY <1>2, <2>1, OpenSeeks
  <2> QED
    BY <1>4, <1>5, <2>2, NewIOIsOpen DEF FutureOutIO, MkPart
<1>7. FutureIO(part) = Open(d, p, 0)
  <2>1. f <= Len(d)
    BY <1>3, <1>4
  <2>2. SeekRd(Open(d, 0, 0), f, "end") = Open(d, Len(d) - f, 0)
    BY <1>3, <2>1, OpenSeeks
  <2> QED
    BY <1>1, <1>3, <1>4, <2>2, NewIOIsOpen DEF FutureIO
<1>8. PICK was, bytes : was = MkPart(c, f, L, b) /\ bytes = Pasted(b, d, p, q, f)
  OBVIOUS
<1>9. CASE part.future_csize < MemCopyThreshold
  <2>1. PICK data : data = SubSeq(d, p + 1, p + f)
    OBVIOUS
  <2>2. BytesRead(FutureIO(part), part.future_csize) = data
    <3>1. PICK io : io = FutureIO(part)
      OBVIOUS
    <3>2. io.bytes = d /\ io.rd.at = p
      BY <1>7, <3>1 DEF Open, IOOf, Cur
    <3>3. BytesRead(io, f) = data
      BY <2>1, <3>2 DEF BytesRead
    <3> QED
      BY <1>1, <3>1, <3>3
  <2>3. Patched(b, q, data) = bytes
    <3>1. p + f <= Len(d)
      BY <1>3, <1>4
    <3> QED
      BY <1>3, <1>8, <2>1, <3>1, ChunkIsPasted
  <2>4. AfterWrite(Open(b, 0, q), data).bytes = bytes
    BY <2>3 DEF AfterWrite, Open, IOOf, Cur
  <2>5. Shrunk(part, n) = [was EXCEPT !.bytes = bytes]
    BY <1>2, <1>4, <1>6, <1>8, <1>9, <2>2, <2>4 DEF Shrunk, ShrunkInMemory
  <2>6. Shrunk(part, n) = MkPart(c, f, L, bytes)
    BY <1>8, <2>5 DEF MkPart
  <2> QED
    BY <1>1, <1>2, <1>3, <1>4, <1>8, <2>6
<1>10. CASE ~ (part.future_csize < MemCopyThreshold)
  <2>1. PICK m \in Nat : m = AllocSz(f) /\ f <= m
    BY AllocSzFacts
  <2>2. PICK j : j = [i \in 1 .. m |-> Junk]
    OBVIOUS
  <2>3. IsRow(j) /\ Len(j) = m
    <3>1. j = [i \in 1 .. m |-> j[i]]
      BY <2>2
    <3> QED
      BY <3>1, RowFacts
  <2>4. Len(j) \in U32
    <3>1. f <= MaxCsize
      <4>1. MaxCsize \in Nat
        BY DescriptorContentAssumption
      <4> QED
        BY <1>1, <4>1
    <3> QED
      BY <2>1, <2>3, <3>1, SizesFit
  <2>5. Allocated(f).bytes = j
    BY <2>1, <2>2 DEF Allocated, NoPart
  <2>6. PICK src, dst : src = Open(d, p, 0) /\ dst = Open(j, 0, 0)
    OBVIOUS
  <2>7. IsIO(src) /\ CanRead(src, f) /\ src.bytes = d /\ src.rd.at = p
    <3>1. p \in 0 .. Len(d) /\ 0 \in 0 .. Len(d) /\ p + f <= Len(d)
      BY <1>3, <1>4
    <3>2. /\ IsIO(Open(d, p, 0))
          /\ Open(d, p, 0).bytes = d
          /\ Open(d, p, 0).rd = Cur(p, 0, Len(d)) /\ Open(d, p, 0).wr = Cur(0, 0, Len(d))
          /\ \A sz \in Nat : p + sz <= Len(d) => CanRead(Open(d, p, 0), sz)
          /\ \A sz \in Nat : 0 + sz <= Len(d) => CanWrite(Open(d, p, 0), sz)
      BY <1>3, <1>5, <3>1, OpenIsIO
    <3> QED
      BY <2>6, <3>1, <3>2 DEF Cur
  <2>8. /\ IsIO(dst) /\ CanWrite(dst, f) /\ dst.bytes = j
        /\ dst.rd = Cur(0, 0, m) /\ dst.wr = Cur(0, 0, m)
    <3>1. 0 \in 0 .. Len(j) /\ 0 + f <= Len(j)
      BY <2>1, <2>3
    <3>2. /\ IsIO(Open(j, 0, 0))
          /\ Open(j, 0, 0).bytes = j
          /\ Open(j, 0, 0).rd = Cur(0, 0, Len(j)) /\ Open(j, 0, 0).wr = Cur(0, 0, Len(j))
          /\ \A sz \in Nat : 0 + sz <= Len(j) => CanRead(Open(j, 0, 0), sz)
          /\ \A sz \in Nat : 0 + sz <= Len(j) => CanWrite(Open(j, 0, 0), sz)
      BY <2>3, <2>4, <3>1, OpenIsIO
    <3> QED
      BY <2>3, <2>6, <3>1, <3>2
  <2>9. PICK k : k = Pasted(j, d, p, 0, f)
    OBVIOUS
  <2>10. IsRow(k) /\ Len(k) = m
    BY <2>3, <2>9, PastedRow
  <2>11. copy_into(src, dst, f).dst = Open(k, 0, f)
    <3>1. copy_into(src, dst, f).dst =
            [bytes |-> Pasted(dst.bytes, src.bytes, src.rd.at, dst.wr.at, f),
             rd |-> dst.rd, wr |-> [dst.wr EXCEPT !.at = @ + f]]
      BY <2>7, <2>8, CopyIntoIsMove
    <3>2. Pasted(dst.bytes, src.bytes, src.rd.at, dst.wr.at, f) = k
      BY <2>7, <2>8, <2>9 DEF Cur
    <3>3. [dst.wr EXCEPT !.at = @ + f] = Cur(f, 0, m)
      BY <2>8 DEF Cur
    <3> QED
      BY <2>8, <2>10, <3>1, <3>2, <3>3 DEF Open, IOOf
  <2>12. SeekRd(Open(k, 0, f), 0, "beg") = Open(k, 0, f)
    <3>1. 0 <= Len(k)
      BY <2>10
    <3> QED
      BY <2>10, <3>1, OpenSeeks
  <2>13. PICK from, to : from = Open(k, 0, f) /\ to = Open(b, 0, q)
    OBVIOUS
  <2>14. IsIO(from) /\ CanRead(from, f) /\ from.bytes = k /\ from.rd.at = 0
    <3>1. 0 \in 0 .. Len(k) /\ f \in 0 .. Len(k) /\ 0 + f <= Len(k) /\ Len(k) \in U32
      BY <2>1, <2>3, <2>4, <2>10
    <3>2. /\ IsIO(Open(k, 0, f))
          /\ Open(k, 0, f).bytes = k
          /\ Open(k, 0, f).rd = Cur(0, 0, Len(k)) /\ Open(k, 0, f).wr = Cur(f, 0, Len(k))
          /\ \A sz \in Nat : 0 + sz <= Len(k) => CanRead(Open(k, 0, f), sz)
          /\ \A sz \in Nat : f + sz <= Len(k) => CanWrite(Open(k, 0, f), sz)
      BY <2>10, <3>1, OpenIsIO
    <3> QED
      BY <2>13, <3>1, <3>2 DEF Cur
  <2>15. IsIO(to) /\ CanWrite(to, f) /\ to.bytes = b /\ to.wr.at = q
    <3>1. 0 \in 0 .. Len(b) /\ q \in 0 .. Len(b) /\ q + f <= Len(b)
      BY <1>4, <1>5
    <3>2. /\ IsIO(Open(b, 0, q))
          /\ Open(b, 0, q).bytes = b
          /\ Open(b, 0, q).rd = Cur(0, 0, Len(b)) /\ Open(b, 0, q).wr = Cur(q, 0, Len(b))
          /\ \A sz \in Nat : 0 + sz <= Len(b) => CanRead(Open(b, 0, q), sz)
          /\ \A sz \in Nat : q + sz <= Len(b) => CanWrite(Open(b, 0, q), sz)
      BY <1>2, <1>5, <3>1, OpenIsIO
    <3> QED
      BY <2>13, <3>1, <3>2 DEF Cur
  <2>16. copy_into(from, to, f).dst.bytes = Pasted(b, k, 0, q, f)
    BY <2>14, <2>15, CopyIntoIsMove
  <2>17. Pasted(b, k, 0, q, f) = bytes
    <3>1. ASSUME NEW i \in 1 .. f PROVE k[i] = d[p + i]
      <4>1. i \in DOMAIN j
        BY <2>1, <2>2
      <4>2. (i - 0) + p = p + i /\ i \in 0 + 1 .. 0 + f
        OBVIOUS
      <4> QED
        BY <2>9, <4>1, <4>2 DEF Pasted
    <3>2. ASSUME NEW i \in q + 1 .. q + f PROVE k[(i - q) + 0] = d[(i - q) + p]
      <4>1. i - q \in 1 .. f /\ (i - q) + 0 = i - q /\ p + (i - q) = (i - q) + p
        OBVIOUS
      <4> QED
        BY <3>1, <4>1
    <3> QED
      BY <1>8, <3>2 DEF Pasted
  <2>18. Shrunk(part, n) = [was EXCEPT !.bytes = bytes]
    <3>1. FutureIO(part) = src /\ NewIO(j) = dst
      BY <1>7, <2>6, NewIOIsOpen
    <3>2. FutureOutIO(was) = to
      BY <1>4, <1>6, <1>8, <2>13
    <3>3. Realloced(part, n) = was
      BY <1>2, <1>4, <1>8
    <3>4. copy_into(FutureIO(part), NewIO(Allocated(f).bytes), f).dst = Open(k, 0, f)
      BY <2>5, <2>11, <3>1
    <3>5. ShrunkInDisk(part, n) =
            [was EXCEPT !.bytes =
               copy_into(SeekRd(Open(k, 0, f), 0, "beg"), FutureOutIO(was), f).dst.bytes]
      BY <1>1, <3>3, <3>4 DEF ShrunkInDisk
    <3>6. copy_into(SeekRd(Open(k, 0, f), 0, "beg"), FutureOutIO(was), f).dst.bytes = bytes
      BY <2>12, <2>13, <2>16, <2>17, <3>2
    <3> QED
      BY <1>10, <3>5, <3>6 DEF Shrunk
  <2>19. Shrunk(part, n) = MkPart(c, f, L, bytes)
    BY <1>8, <2>18 DEF MkPart
  <2> QED
    BY <1>1, <1>2, <1>3, <1>4, <1>8, <2>19
<1> QED
  BY <1>9, <1>10

\* All that does not fill a subblock is inline, so the space is what is asked for.
NoPadding == Unit - 1 <= MaxInline

LEMMA NoPaddingFacts ==
  ASSUME NoPadding, NEW n \in Nat
  PROVE  AllocSz(n) = n
<1>1. Unit \in Nat \ {0} /\ MaxInline \in Nat
  BY DescriptorContentAssumption
<1>2. n % Unit \in 0 .. Unit - 1
  BY <1>1, DivMod
<1>3. n % Unit <= MaxInline
  BY <1>1, <1>2 DEF NoPadding
<1> QED
  BY <1>3 DEF AllocSz

\* What a resize promises of the part r that it gives, for who knows of sz bytes:
\* of its own bytes, those that are still there, and all of the future ones.
KeepsOwn(part, sz, r) ==
  \A i \in 1 .. sz : i <= PresentSz(part) => r.bytes[i] = part.bytes[i]

KeepsFuture(part, sz, r) ==
  \A i \in 1 .. part.future_csize : r.bytes[sz + i] = part.bytes[PresentSz(part) + i]

ResizeIsRight(part, sz, r) ==
  /\ PartIsWhole(r)
  /\ r.csize = sz + part.future_csize /\ r.future_csize = part.future_csize
  /\ KeepsOwn(part, sz, r)
  /\ NoPadding => KeepsFuture(part, sz, r)

\* The future content is in x, from p on, if the space has no padding.
FutureIn(x, p, part) ==
  NoPadding => \A i \in 1 .. part.future_csize : x[p + i] = part.bytes[PresentSz(part) + i]

LEMMA PastedPart ==
  ASSUME NEW part, PartIsWhole(part), NEW sz \in Nat, NEW n \in Nat, n = sz + part.future_csize,
         n <= MaxCsize, n # 0,
         NEW b, IsRow(b), Len(b) = AllocSz(n), Kept(b, part, n), NEW x, NEW p \in Nat,
         FutureIn(x, p, part)
  PROVE  ResizeIsRight(part, sz,
           MkPart(n, part.future_csize, AllocSz(n),
                  Pasted(b, x, p, AllocSz(n) - part.future_csize, part.future_csize)))
<1>1. PICK c, f, s \in Nat : /\ c = part.csize /\ f = part.future_csize /\ s = part.space
                            /\ f <= c /\ c <= MaxCsize /\ s = AllocSz(c) /\ c <= s
  <2>1. /\ part.csize \in Nat /\ part.future_csize \in Nat /\ part.space \in Nat
        /\ part.future_csize <= part.csize /\ part.csize <= MaxCsize
        /\ part.space = AllocSz(part.csize)
    BY DEF PartIsWhole, PartTypes
  <2>2. part.csize <= AllocSz(part.csize)
    BY <2>1, AllocSzFacts
  <2>3. PICK k \in Nat : k = part.csize
    BY <2>1
  <2>4. PICK h \in Nat : h = part.future_csize
    BY <2>1
  <2>5. PICK u \in Nat : u = part.space
    BY <2>1
  <2>6. k = part.csize /\ h = part.future_csize /\ u = part.space /\ h <= k /\ k <= MaxCsize
        /\ u = AllocSz(k) /\ k <= u
    BY <2>1, <2>2, <2>3, <2>4, <2>5
  <2> QED
    BY ONLY <2>6
<1>2. PICK L, q \in Nat : L = AllocSz(n) /\ n <= L /\ q = L - f /\ L = q + f /\ sz <= q
  <2>1. AllocSz(n) \in Nat /\ n <= AllocSz(n)
    BY AllocSzFacts
  <2>2. PICK k \in Nat : k = AllocSz(n) /\ n <= k
    BY <2>1
  <2>3. sz + f <= k
    BY <1>1, <2>2
  <2>4. PICK h \in Nat : h + f = k /\ h = k - f
    BY <1>1, <2>2, <2>3
  <2>5. sz <= h
    BY <1>1, <2>3, <2>4
  <2>6. k = AllocSz(n) /\ n <= k /\ h = k - f /\ k = h + f /\ sz <= h
    BY <2>2, <2>4, <2>5
  <2> QED
    BY ONLY <2>6
<1>3. PICK bytes : bytes = Pasted(b, x, p, q, f)
  OBVIOUS
<1>4. IsRow(bytes) /\ Len(bytes) = L
  BY <1>2, <1>3, PastedRow
<1>5. PICK r : r = MkPart(n, f, L, bytes)
  OBVIOUS
<1>6. r.csize = n /\ r.future_csize = f /\ r.space = L /\ r.bytes = bytes
  BY <1>5 DEF MkPart
<1>7. PartIsWhole(r)
  <2>1. r = MkPart(r.csize, r.future_csize, r.space, r.bytes)
    BY <1>5, <1>6
  <2>2. f <= n
    BY <1>1
  <2> QED
    BY <1>2, <1>4, <1>6, <2>1, <2>2 DEF PartIsWhole, PartTypes
<1>8. PresentSz(part) = c - f
  BY <1>1 DEF PresentSz
<1>9. KeepsOwn(part, sz, r)
  <2> SUFFICES ASSUME NEW i \in 1 .. sz, i <= PresentSz(part) PROVE bytes[i] = part.bytes[i]
    BY <1>6 DEF KeepsOwn
  <2>0. Len(b) = L /\ n = sz + f
    BY <1>1, <1>2
  <2>1. i \in 1 .. Len(b) /\ i \notin q + 1 .. q + f /\ i <= n /\ i <= s
    <3>1. i <= c - f
      BY <1>8
    <3>2. i <= sz /\ i >= 1
      OBVIOUS
    <3>3. i <= L /\ i <= n
      BY ONLY <1>2, <2>0, <3>2, L \in Nat, q \in Nat, sz \in Nat, f \in Nat, n \in Nat, i \in 1 .. sz
    <3>4. i <= s
      BY ONLY <1>1, <3>1, i \in 1 .. sz, sz \in Nat
    <3> QED
      BY <1>2, <2>0, <3>2, <3>3, <3>4
  <2>2. bytes[i] = b[i]
    BY <1>3, <2>1, PastedOutside
  <2>3. b[i] = part.bytes[i]
    BY <1>1, <2>1 DEF Kept
  <2> QED
    BY <2>2, <2>3
<1>10. ASSUME NoPadding PROVE KeepsFuture(part, sz, r)
  <2>1. L = n /\ q = sz
    BY <1>1, <1>2, <1>10, NoPaddingFacts
  <2> SUFFICES ASSUME NEW i \in 1 .. f PROVE bytes[sz + i] = part.bytes[PresentSz(part) + i]
    BY <1>1, <1>6 DEF KeepsFuture
  <2>6. Len(b) = L /\ n = sz + f
    BY <1>1, <1>2
  <2>2. /\ sz + i \in 1 .. Len(b) /\ sz + i \in q + 1 .. q + f
        /\ ((sz + i) - q) + p = p + i
    BY ONLY <2>1, <2>6, i \in 1 .. f, sz \in Nat, p \in Nat, f \in Nat
  <2>3. DOMAIN b = 1 .. Len(b)
    BY RowLen
  <2>4. bytes[sz + i] = x[p + i]
    BY <1>3, <2>2, <2>3 DEF Pasted
  <2>5. x[p + i] = part.bytes[PresentSz(part) + i]
    BY <1>1, <1>10 DEF FutureIn
  <2> QED
    BY <2>4, <2>5
<1>11. ResizeIsRight(part, sz, r)
  BY <1>1, <1>6, <1>7, <1>9, <1>10 DEF ResizeIsRight
<1> QED
  BY <1>1, <1>2, <1>3, <1>5, <1>11

(***************************************************************************)
(* resize_content_part, larger or smaller, in memory or in disk, from no   *)
(* space or to none: the part has the size it was asked for and what is    *)
(* not seen, a space for it, the bytes of the program that are still in    *)
(* it and, if no space is padded, all the bytes that the program does not  *)
(* know of, at the end (descriptor.cpp).                                   *)
(***************************************************************************)
THEOREM ResizeKeepsContent ==
  ASSUME NEW part, PartIsWhole(part), NEW sz \in Nat, does_present_csize_fit(part, sz)
  PROVE  ResizeIsRight(part, sz, resize_content_part(part, sz))
<1>1. PICK c, f, s \in Nat : /\ c = part.csize /\ f = part.future_csize /\ s = part.space
                            /\ f <= c /\ c <= MaxCsize /\ s = AllocSz(c) /\ c <= s
  <2>1. /\ part.csize \in Nat /\ part.future_csize \in Nat /\ part.space \in Nat
        /\ part.future_csize <= part.csize /\ part.csize <= MaxCsize
        /\ part.space = AllocSz(part.csize)
    BY DEF PartIsWhole, PartTypes
  <2>2. part.csize <= AllocSz(part.csize)
    BY <2>1, AllocSzFacts
  <2> QED
    BY <2>1, <2>2
<1>2. PICK n \in Nat : n = sz + f
  OBVIOUS
<1>3. n <= MaxCsize /\ n = sz + part.future_csize /\ CsizeNew(part, sz) = n
  BY <1>1, <1>2 DEF does_present_csize_fit, CsizeNew
<1>4. PresentSz(part) = c - f
  BY <1>1 DEF PresentSz
<1>5. CASE c = 0 /\ sz = 0
  <2>1. resize_content_part(part, sz) = part
    BY <1>1, <1>5 DEF resize_content_part
  <2>2. sz + part.future_csize = part.csize /\ sz = PresentSz(part)
    BY <1>1, <1>4, <1>5
  <2>3. KeepsOwn(part, sz, part) /\ KeepsFuture(part, sz, part)
    BY <2>2 DEF KeepsOwn, KeepsFuture
  <2> QED
    BY <2>1, <2>2, <2>3 DEF ResizeIsRight
<1>6. CASE c = 0 /\ sz # 0
  <2>1. PICK L \in Nat : L = AllocSz(sz)
    BY AllocSzFacts
  <2>2. PICK j : j = [i \in 1 .. L |-> Junk]
    OBVIOUS
  <2>3. IsRow(j) /\ Len(j) = L
    <3>1. j = [i \in 1 .. L |-> j[i]]
      BY <2>2
    <3> QED
      BY <3>1, RowFacts
  <2>4. Allocated(sz) = MkPart(0, 0, L, j)
    <3>1. [NoPart EXCEPT !.space = L] = MkPart(0, 0, L, << >>)
      BY DEF NoPart, MkPart
    <3>2. [MkPart(0, 0, L, << >>) EXCEPT !.bytes = j] = MkPart(0, 0, L, j)
      BY DEF MkPart
    <3>3. Allocated(sz) = [[NoPart EXCEPT !.space = L] EXCEPT !.bytes = j]
      BY <2>1, <2>2 DEF Allocated, NoPart
    <3> QED
      BY <3>1, <3>2, <3>3
  <2>5. PICK r : r = MkPart(sz, 0, L, j)
    OBVIOUS
  <2>6. r.csize = sz /\ r.future_csize = 0 /\ r.space = L /\ r.bytes = j
    BY <2>5 DEF MkPart
  <2>7. resize_content_part(part, sz) = r
    <3>1. resize_content_part(part, sz) = [Allocated(sz) EXCEPT !.csize = sz]
      BY <1>1, <1>6 DEF resize_content_part
    <3> QED
      BY <2>4, <2>5, <3>1 DEF MkPart
  <2>8. f = 0 /\ sz <= MaxCsize
    BY <1>1, <1>2, <1>3, <1>6
  <2>9. PartIsWhole(r)
    <3>1. r = MkPart(r.csize, r.future_csize, r.space, r.bytes)
      BY <2>5, <2>6
    <3> QED
      BY <1>6, <2>1, <2>3, <2>6, <2>8, <3>1 DEF PartIsWhole, PartTypes
  <2>10. KeepsOwn(part, sz, r) /\ KeepsFuture(part, sz, r)
    BY <1>1, <1>4, <1>6, <2>8 DEF KeepsOwn, KeepsFuture
  <2> QED
    BY <1>1, <2>6, <2>7, <2>8, <2>9, <2>10 DEF ResizeIsRight
<1>7. CASE c # 0 /\ n = 0
  <2>1. resize_content_part(part, sz) = NoPart
    BY <1>1, <1>3, <1>7 DEF resize_content_part
  <2>2. sz = 0 /\ f = 0
    BY <1>2, <1>7
  <2>3. PartIsWhole(NoPart) /\ NoPart.csize = 0 /\ NoPart.future_csize = 0
    BY NoPartIsWhole
  <2>4. KeepsOwn(part, sz, NoPart) /\ KeepsFuture(part, sz, NoPart)
    BY <1>1, <2>2 DEF KeepsOwn, KeepsFuture
  <2> QED
    BY <1>1, <2>1, <2>2, <2>3, <2>4 DEF ResizeIsRight
<1>8. CASE c # 0 /\ n # 0 /\ c < n
  <2>1. resize_content_part(part, sz) = [Expanded(part, n) EXCEPT !.csize = n]
    BY <1>1, <1>3, <1>8 DEF resize_content_part
  <2>2. part.csize < n
    BY <1>1, <1>8
  <2>3. PICK b : /\ IsRow(b) /\ Len(b) = AllocSz(n) /\ Kept(b, part, n)
                 /\ Expanded(part, n) =
                      MkPart(part.csize, part.future_csize, AllocSz(n),
                             Pasted(b, b, part.csize - part.future_csize,
                                    AllocSz(n) - part.future_csize, part.future_csize))
    BY <1>3, <2>2, ExpandedPart
  <2>4. PICK p \in Nat : p = c - f
    BY <1>1
  <2>5. PICK bytes : bytes = Pasted(b, b, p, AllocSz(n) - part.future_csize, part.future_csize)
    OBVIOUS
  <2>6. Expanded(part, n) = MkPart(part.csize, part.future_csize, AllocSz(n), bytes)
    BY <1>1, <2>3, <2>4, <2>5
  <2>7. resize_content_part(part, sz) = MkPart(n, part.future_csize, AllocSz(n), bytes)
    BY <2>1, <2>6 DEF MkPart
  <2>8. FutureIn(b, p, part)
    <3> SUFFICES ASSUME NEW i \in 1 .. f PROVE b[p + i] = part.bytes[PresentSz(part) + i]
      BY <1>1 DEF FutureIn
    <3>1. n <= AllocSz(n) /\ AllocSz(n) \in Nat
      BY AllocSzFacts
    <3>10. PICK L \in Nat : L = AllocSz(n) /\ n <= L
      BY <3>1
    <3>11. Len(b) = L /\ part.space = s
      BY <1>1, <2>3, <3>10
    <3>12. p + i <= c /\ p + i >= 1
      BY ONLY <1>1, <2>4, i \in 1 .. f
    <3>2. p + i \in 1 .. Len(b) /\ p + i <= n /\ p + i <= part.space
      BY ONLY <1>1, <1>8, <3>10, <3>11, <3>12, n \in Nat, i \in 1 .. f, p \in Nat
    <3>3. b[p + i] = part.bytes[p + i]
      BY <2>3, <3>2 DEF Kept
    <3> QED
      BY <1>4, <2>4, <3>3
  <2>9. ResizeIsRight(part, sz, MkPart(n, part.future_csize, AllocSz(n), bytes))
    BY <1>3, <1>8, <2>3, <2>5, <2>8, PastedPart
  <2> QED
    BY <2>7, <2>9
<1>9. CASE c # 0 /\ n # 0 /\ n < c
  <2>1. resize_content_part(part, sz) = [Shrunk(part, n) EXCEPT !.csize = n]
    BY <1>1, <1>3, <1>9 DEF resize_content_part
  <2>2. part.future_csize <= n /\ n < part.csize
    BY <1>1, <1>2, <1>9
  <2>3. PICK b : /\ IsRow(b) /\ Len(b) = AllocSz(n) /\ Kept(b, part, n)
                 /\ Shrunk(part, n) =
                      MkPart(part.csize, part.future_csize, AllocSz(n),
                             Pasted(b, part.bytes, part.space - part.future_csize,
                                    AllocSz(n) - part.future_csize, part.future_csize))
    BY <2>2, ShrunkPart
  <2>4. PICK p \in Nat : p = s - f
    BY <1>1
  <2>5. PICK x, bytes : /\ x = part.bytes
                        /\ bytes = Pasted(b, x, p, AllocSz(n) - part.future_csize, part.future_csize)
    OBVIOUS
  <2>6. Shrunk(part, n) = MkPart(part.csize, part.future_csize, AllocSz(n), bytes)
    BY <1>1, <2>3, <2>4, <2>5
  <2>7. resize_content_part(part, sz) = MkPart(n, part.future_csize, AllocSz(n), bytes)
    BY <2>1, <2>6 DEF MkPart
  <2>8. FutureIn(x, p, part)
    <3> SUFFICES ASSUME NoPadding PROVE p = PresentSz(part)
      BY <2>5 DEF FutureIn
    <3>1. AllocSz(c) = c
      BY NoPaddingFacts
    <3> QED
      BY <1>1, <1>4, <2>4, <3>1
  <2>9. ResizeIsRight(part, sz, MkPart(n, part.future_csize, AllocSz(n), bytes))
    BY <1>3, <1>9, <2>3, <2>5, <2>8, PastedPart
  <2> QED
    BY <2>7, <2>9
<1>10. CASE c # 0 /\ n = c
  <2>1. resize_content_part(part, sz) = [part EXCEPT !.csize = n]
    BY <1>1, <1>3, <1>10 DEF resize_content_part
  <2>2. part = MkPart(part.csize, part.future_csize, part.space, part.bytes)
    BY DEF PartIsWhole, PartTypes
  <2>3. resize_content_part(part, sz) = part
    BY <1>1, <1>10, <2>1, <2>2 DEF MkPart
  <2>4. sz + part.future_csize = part.csize /\ sz = PresentSz(part)
    BY <1>1, <1>2, <1>4, <1>10
  <2>5. KeepsOwn(part, sz, part) /\ KeepsFuture(part, sz, part)
    BY <2>4 DEF KeepsOwn, KeepsFuture
  <2> QED
    BY <2>3, <2>4, <2>5 DEF ResizeIsRight
<1> QED
  BY <1>5, <1>6, <1>7, <1>8, <1>9, <1>10

-----------------------------------------------------------------------------
(***************************************************************************)
(* The invariant of a descriptor: the sizes of its parts and of what is    *)
(* not seen of them are those that its internal data says, of any version. *)
(***************************************************************************)

\* The i-th number of the internal data, 0 if it was never given.
Val(idata, i) == IF i <= Len(idata) THEN idata[i] ELSE 0

CsizeFor(idata, p) == IF p = 1 THEN Val(idata, 1) + Val(idata, 2) ELSE Val(idata, 3)
HiddenFor(version, idata, p) == IF version = "old" /\ p = 1 THEN Val(idata, 2) ELSE 0

\* The parts in memory, and in a record.
CpartCnt(version, idata) == IF version = "new" \/ Val(idata, 3) > 0 THEN 2 ELSE 1
StoredCnt(idata) == IF Val(idata, 3) > 0 THEN 2 ELSE IF CsizeFor(idata, 1) > 0 THEN 1 ELSE 0

MkDsc(version, id, type, fields, future_idata, cparts) ==
  [version |-> version, id |-> id, type |-> type, fields |-> fields,
   future_idata |-> future_idata, cparts |-> cparts]

PartIsFor(version, idata, p, part) ==
  part.csize = CsizeFor(idata, p) /\ part.future_csize = HiddenFor(version, idata, p)

DescriptorIsRight(d) ==
  /\ DescriptorIsTyped(d)
  /\ Len(IdataOf(d)) \in {1, 3}
  /\ Len(d.cparts) = CpartCnt(d.version, IdataOf(d))
  /\ \A p \in 1 .. Len(d.cparts) : PartIsFor(d.version, IdataOf(d), p, d.cparts[p])

PartsAreWhole(cparts) == \A p \in 1 .. Len(cparts) : PartIsWhole(cparts[p])

LEMMA Vals ==
  ASSUME NEW f, Naturals(f), NEW g, Naturals(g)
  PROVE  /\ Naturals(f \o g) /\ Len(f \o g) = Len(f) + Len(g)
         /\ \A i \in 1 .. Len(f) : Val(f \o g, i) = f[i]
         /\ \A i \in Nat : i > Len(f) => Val(f \o g, i) = Val(g, i - Len(f))
<1>1. PICK m, n \in Nat : m = Len(f) /\ n = Len(g)
  BY RowLen DEF Naturals
<1>2. IsRow(f) /\ IsRow(g) /\ (\A i \in 1 .. m : f[i] \in Nat) /\ (\A i \in 1 .. n : g[i] \in Nat)
  BY <1>1 DEF Naturals
<1>3. PICK s : s = f \o g
  OBVIOUS
<1>4. /\ IsRow(s) /\ Len(s) = m + n
      /\ \A i \in 1 .. m + n : s[i] = IF i <= m THEN f[i] ELSE g[i - m]
  BY <1>1, <1>2, <1>3, ConcatRows
<1>5. ASSUME NEW i \in 1 .. m + n PROVE s[i] \in Nat
  <2>1. CASE i <= m
    BY <1>2, <1>4, <2>1
  <2>2. CASE ~ (i <= m)
    <3>1. i - m \in 1 .. n
      BY <2>2
    <3> QED
      BY <1>2, <1>4, <2>2, <3>1
  <2> QED
    BY <2>1, <2>2
<1>6. Naturals(s)
  BY <1>4, <1>5 DEF Naturals
<1>7. ASSUME NEW i \in 1 .. m PROVE Val(s, i) = f[i]
  BY <1>4 DEF Val
<1>8. ASSUME NEW i \in Nat, i > m PROVE Val(s, i) = Val(g, i - m)
  <2>1. CASE i <= m + n
    <3>1. i \in 1 .. m + n /\ ~ (i <= m) /\ i - m <= n /\ i <= Len(s)
      BY <1>4, <1>8, <2>1
    <3>2. s[i] = g[i - m]
      BY <1>4, <3>1
    <3> QED
      BY <1>1, <3>1, <3>2 DEF Val
  <2>2. CASE ~ (i <= m + n)
    <3>1. ~ (i <= Len(s)) /\ ~ (i - m <= n)
      BY <1>4, <2>2
    <3> QED
      BY <1>1, <3>1 DEF Val
  <2> QED
    BY <2>1, <2>2
<1> QED
  BY <1>1, <1>3, <1>4, <1>6, <1>7, <1>8

LEMMA ValIsNat ==
  ASSUME NEW s, Naturals(s), NEW i \in Nat \ {0}
  PROVE  Val(s, i) \in Nat
<1>1. Len(s) \in Nat
  BY RowLen DEF Naturals
<1> QED
  BY <1>1 DEF Val, Naturals

\* Another part in the place of the p-th.
SetPart(cparts, p, part) == [q \in DOMAIN cparts |-> IF q = p THEN part ELSE cparts[q]]

LEMMA ReplacedRow ==
  ASSUME NEW cparts, IsRow(cparts), NEW p \in 1 .. Len(cparts), NEW part
  PROVE  /\ IsRow(SetPart(cparts, p, part)) /\ Len(SetPart(cparts, p, part)) = Len(cparts)
         /\ \A q \in 1 .. Len(cparts) :
              SetPart(cparts, p, part)[q] = IF q = p THEN part ELSE cparts[q]
<1>1. PICK n \in Nat : n = Len(cparts) /\ DOMAIN cparts = 1 .. n
  BY RowLen
<1>2. PICK r : r = SetPart(cparts, p, part)
  OBVIOUS
<1>3. r = [q \in 1 .. n |-> IF q = p THEN part ELSE cparts[q]]
  BY <1>1, <1>2 DEF SetPart
<1>4. r = [q \in 1 .. n |-> r[q]]
  BY <1>3
<1>5. IsRow(r) /\ Len(r) = n
  BY <1>4, RowFacts
<1> QED
  BY <1>1, <1>2, <1>3, <1>5

\* A part of the same sizes takes the place of another.
LEMMA PartIsReplaced ==
  ASSUME NEW d, DescriptorIsRight(d), NEW p \in 1 .. Len(d.cparts), NEW part, PartTypes(part),
         part.csize = d.cparts[p].csize, part.future_csize = d.cparts[p].future_csize,
         NEW e, e = MkDsc(d.version, d.id, d.type, d.fields, d.future_idata,
                          SetPart(d.cparts, p, part))
  PROVE  /\ DescriptorIsRight(e)
         /\ PartsAreWhole(d.cparts) /\ PartIsWhole(part) => PartsAreWhole(e.cparts)
<1>1. PICK c, r : c = d.cparts /\ r = SetPart(c, p, part)
  OBVIOUS
<1>2. IsRow(c) /\ p \in 1 .. Len(c)
  BY <1>1 DEF DescriptorIsRight, DescriptorIsTyped
<1>3. /\ IsRow(r) /\ Len(r) = Len(c)
      /\ \A q \in 1 .. Len(c) : r[q] = IF q = p THEN part ELSE c[q]
  BY <1>1, <1>2, ReplacedRow
<1>4. /\ e.version = d.version /\ e.id = d.id /\ e.type = d.type /\ e.fields = d.fields
      /\ e.future_idata = d.future_idata /\ e.cparts = r
  BY <1>1 DEF MkDsc
<1>5. IdataOf(e) = IdataOf(d)
  BY <1>4 DEF IdataOf
<1>6. e = MkDsc(e.version, e.id, e.type, e.fields, e.future_idata, e.cparts)
  BY <1>1, <1>4
<1>7. ASSUME NEW q \in 1 .. Len(r)
      PROVE  PartTypes(r[q]) /\ PartIsFor(e.version, IdataOf(e), q, r[q])
  <2>1. PartTypes(c[q]) /\ PartIsFor(d.version, IdataOf(d), q, c[q])
    BY <1>1, <1>3 DEF DescriptorIsRight, DescriptorIsTyped
  <2>2. CASE q = p
    <3>1. r[q] = part
      BY <1>3, <2>2
    <3>2. PartIsFor(d.version, IdataOf(d), q, part)
      BY <1>1, <2>1, <2>2 DEF PartIsFor
    <3> QED
      BY <1>4, <1>5, <3>1, <3>2
  <2>3. CASE q # p
    <3>1. r[q] = c[q]
      BY <1>3, <2>3
    <3> QED
      BY <1>4, <1>5, <2>1, <3>1
  <2> QED
    BY <2>2, <2>3
<1>8. DescriptorIsTyped(e)
  <2>1. /\ d.version \in Versions /\ d.id \in Nat /\ d.type \in Nat
        /\ Naturals(d.fields) /\ Len(d.fields) = FieldCnt(d.version)
        /\ Naturals(d.future_idata) /\ Len(c) \in {1, 2}
    BY <1>1 DEF DescriptorIsRight, DescriptorIsTyped
  <2> QED
    BY <1>3, <1>4, <1>6, <1>7, <2>1 DEF DescriptorIsTyped, MkDsc
<1>9. DescriptorIsRight(e)
  <2>1. Len(IdataOf(d)) \in {1, 3} /\ Len(c) = CpartCnt(d.version, IdataOf(d))
    BY <1>1 DEF DescriptorIsRight
  <2> QED
    BY <1>3, <1>4, <1>5, <1>7, <1>8, <2>1 DEF DescriptorIsRight
<1>10. ASSUME PartsAreWhole(d.cparts), PartIsWhole(part) PROVE PartsAreWhole(r)
  BY <1>1, <1>3, <1>10 DEF PartsAreWhole
<1> QED
  BY <1>4, <1>9, <1>10

\* What the program knows of a part is what it gave it.
LEMMA UsedIs ==
  ASSUME NEW d, DescriptorIsRight(d), NEW p \in 1 .. Len(d.cparts)
  PROVE  UsedSpace(d.version, d.fields, p, d.cparts[p].csize)
           = d.cparts[p].csize - d.cparts[p].future_csize
<1>1. PICK f, g, i, part : f = d.fields /\ g = d.future_idata /\ i = IdataOf(d) /\ part = d.cparts[p]
  OBVIOUS
<1>2. /\ d.version \in Versions /\ Naturals(f) /\ Naturals(g) /\ Len(f) = FieldCnt(d.version)
      /\ Len(d.cparts) \in {1, 2}
  BY <1>1 DEF DescriptorIsRight, DescriptorIsTyped
<1>3. part.csize = CsizeFor(i, p) /\ part.future_csize = HiddenFor(d.version, i, p)
  BY <1>1 DEF DescriptorIsRight, PartIsFor
<1>4. /\ Naturals(f \o g) /\ Len(f \o g) = Len(f) + Len(g)
      /\ \A k \in 1 .. Len(f) : Val(f \o g, k) = f[k]
  BY <1>2, Vals
<1>5. Naturals(i) /\ \A k \in 1 .. Len(f) : Val(i, k) = f[k]
  BY <1>1, <1>4 DEF IdataOf
<1>6. PICK v1, v2, v3 \in Nat : v1 = Val(i, 1) /\ v2 = Val(i, 2) /\ v3 = Val(i, 3)
  <2>1. Val(i, 1) \in Nat /\ Val(i, 2) \in Nat /\ Val(i, 3) \in Nat
    BY <1>5, ValIsNat
  <2> QED
    BY <2>1
<1>7. p = 1 \/ p = 2
  <2>1. PICK m \in {1, 2} : m = Len(d.cparts)
    BY <1>2
  <2>2. p \in 1 .. m
    BY <2>1
  <2> QED
    BY <2>2
<1>8. CASE d.version = "old"
  <2>1. f[1] = v1
    BY <1>2, <1>5, <1>6, <1>8 DEF FieldCnt
  <2> QED
    BY <1>1, <1>3, <1>6, <1>7, <1>8, <2>1 DEF UsedSpace, CsizeFor, HiddenFor
<1>9. CASE d.version = "new"
  <2>1. Len(f) = 3
    BY <1>2, <1>9 DEF FieldCnt
  <2>2. f[1] = v1 /\ f[2] = v2 /\ f[3] = v3
    BY <1>5, <1>6, <2>1
  <2> QED
    BY <1>1, <1>3, <1>6, <1>7, <1>9, <2>2 DEF UsedSpace, CsizeFor, HiddenFor
<1> QED
  BY <1>2, <1>8, <1>9 DEF Versions

LEMMA NewIsRight ==
  ASSUME NEW v \in Versions, NEW id \in Nat, NEW type \in Nat
  PROVE  /\ DescriptorIsRight(NewDescriptor(v, id, type))
         /\ PartsAreWhole(NewDescriptor(v, id, type).cparts)
<1>1. PICK n \in {1, 3} : n = FieldCnt(v)
  BY DEF FieldCnt
<1>2. PICK m \in {1, 2} : m = DeclCpartCnt(v)
  BY DEF DeclCpartCnt
<1>3. PICK f, c : f = [i \in 1 .. n |-> 0] /\ c = [p \in 1 .. m |-> NoPart]
  OBVIOUS
<1>4. f = [i \in 1 .. n |-> f[i]] /\ c = [p \in 1 .. m |-> c[p]]
  BY <1>3
<1>5. IsRow(f) /\ Len(f) = n /\ IsRow(c) /\ Len(c) = m
  <2>1. n \in Nat /\ m \in Nat
    OBVIOUS
  <2> QED
    BY <1>4, <2>1, RowFacts
<1>6. Naturals(f) /\ Naturals(<< >>) /\ Len(<< >>) = 0
  BY <1>3, <1>5, ShortRows DEF Naturals
<1>7. PICK e, i : e = << >> /\ i = f \o e
  OBVIOUS
<1>8. /\ Naturals(i) /\ Len(i) = n
      /\ \A k \in 1 .. n : Val(i, k) = f[k]
  <2>1. Naturals(e) /\ Len(e) = 0
    BY <1>6, <1>7
  <2>2. /\ Naturals(f \o e) /\ Len(f \o e) = Len(f) + Len(e)
        /\ \A k \in 1 .. Len(f) : Val(f \o e, k) = f[k]
    BY <1>6, <2>1, Vals
  <2> QED
    BY <1>5, <1>7, <2>1, <2>2
<1>9. Len(i) = n
  BY <1>8
<1>10. ASSUME NEW k \in {1, 2, 3} PROVE Val(i, k) = 0
  <2>1. CASE k <= n
    BY <1>3, <1>8, <2>1
  <2>2. CASE ~ (k <= n)
    BY <1>9, <2>2 DEF Val
  <2> QED
    BY <2>1, <2>2
<1>11. PICK d : d = NewDescriptor(v, id, type)
  OBVIOUS
<1>12. d = MkDsc(v, id, type, f, << >>, c)
  BY <1>1, <1>2, <1>3, <1>11 DEF NewDescriptor, MkDsc
<1>13. /\ d.version = v /\ d.id = id /\ d.type = type /\ d.fields = f
       /\ d.future_idata = << >> /\ d.cparts = c
  BY <1>12 DEF MkDsc
<1>14. IdataOf(d) = i
  BY <1>7, <1>13 DEF IdataOf
<1>15. /\ Val(i, 1) = 0 /\ Val(i, 2) = 0 /\ Val(i, 3) = 0
  BY <1>10
<1>16. ASSUME NEW p \in 1 .. m PROVE PartIsWhole(c[p]) /\ PartIsFor(v, i, p, c[p])
  <2>1. c[p] = NoPart
    BY <1>3
  <2>2. CsizeFor(i, p) = 0 /\ HiddenFor(v, i, p) = 0
    BY <1>15 DEF CsizeFor, HiddenFor
  <2>3. PartIsWhole(NoPart) /\ NoPart.csize = 0 /\ NoPart.future_csize = 0
    BY NoPartIsWhole
  <2> QED
    BY <2>1, <2>2, <2>3 DEF PartIsFor
<1>17. m = CpartCnt(v, i)
  BY <1>2, <1>15 DEF CpartCnt, DeclCpartCnt, Versions
<1>18. DescriptorIsTyped(d)
  <2>1. \A p \in 1 .. m : PartTypes(c[p])
    BY <1>16 DEF PartIsWhole
  <2>2. d = MkDsc(d.version, d.id, d.type, d.fields, d.future_idata, d.cparts)
    BY <1>12, <1>13
  <2> QED
    BY <1>1, <1>2, <1>5, <1>6, <1>13, <2>1, <2>2 DEF DescriptorIsTyped, MkDsc
<1>19. DescriptorIsRight(d)
  BY <1>1, <1>5, <1>9, <1>13, <1>14, <1>16, <1>17, <1>18 DEF DescriptorIsRight
<1>20. PartsAreWhole(d.cparts)
  BY <1>5, <1>13, <1>16 DEF PartsAreWhole
<1> QED
  BY <1>11, <1>19, <1>20

\* The fields that a program may have once it gave new sizes to its data of a part.
FieldsFor(d, p, fields) ==
  /\ Naturals(fields) /\ Len(fields) = FieldCnt(d.version)
  /\ d.version = "new" /\ p = 1 => fields[3] = d.fields[3]
  /\ d.version = "new" /\ p = 2 => fields[1] = d.fields[1] /\ fields[2] = d.fields[2]

LEMMA NewFieldsAre ==
  ASSUME DescriptorIsRight(dsc), NEW p \in 1 .. DeclCpartCnt(dsc.version),
         NEW fields \in NewFields(p)
  PROVE  FieldsFor(dsc, p, fields)
<1>1. /\ \A n \in V1Szs : n \in Nat
      /\ \A n \in V2Szs : n \in Nat
      /\ \A n \in V3Szs : n \in Nat
  <2>1. U32 \subseteq Nat
    BY IOAssumption DEF U32
  <2> QED
    BY <2>1, DescriptorContentAssumption
<1>2. /\ dsc.version \in Versions /\ Naturals(dsc.fields) /\ Len(dsc.fields) = FieldCnt(dsc.version)
  BY DEF DescriptorIsRight, DescriptorIsTyped
<1>3. CASE dsc.version = "old"
  <2>1. PICK n \in V1Szs : fields = <<n>>
    BY <1>3 DEF NewFields
  <2>2. IsRow(fields) /\ Len(fields) = 1 /\ fields[1] = n
    BY <2>1, ShortRows
  <2>3. Naturals(fields)
    BY <1>1, <2>2 DEF Naturals
  <2> QED
    BY <1>3, <2>2, <2>3 DEF FieldsFor, FieldCnt
<1>4. CASE dsc.version = "new"
  <2>1. PICK g : g = dsc.fields
    OBVIOUS
  <2>2. g[1] \in Nat /\ g[2] \in Nat /\ g[3] \in Nat
    BY <1>2, <1>4, <2>1 DEF Naturals, FieldCnt
  <2>3. PICK n1, n2, n3 \in Nat :
          /\ fields = <<n1, n2, n3>>
          /\ p = 1 => n3 = g[3]
          /\ p = 2 => n1 = g[1] /\ n2 = g[2]
    <3>1. CASE p = 1
      BY <1>1, <1>4, <2>1, <2>2, <3>1 DEF NewFields
    <3>2. CASE p # 1
      <4>1. p = 2
        BY <1>4, <3>2 DEF DeclCpartCnt
      <4> QED
        BY <1>1, <1>4, <2>1, <2>2, <3>2, <4>1 DEF NewFields
    <3> QED
      BY <3>1, <3>2
  <2>4. fields \in Seq(Nat)
    BY <2>3
  <2>5. Len(fields) = 3 /\ fields[1] = n1 /\ fields[2] = n2 /\ fields[3] = n3
    BY <2>3
  <2>6. Naturals(fields)
    <3>1. IsRow(fields)
      BY <2>4, SeqIsRow
    <3> QED
      BY <2>5, <3>1 DEF Naturals
  <2> QED
    BY <1>4, <2>1, <2>3, <2>5, <2>6 DEF FieldsFor, FieldCnt
<1> QED
  BY <1>2, <1>3, <1>4 DEF Versions

LEMMA ResizeIsRightStep ==
  ASSUME NEW d, DescriptorIsRight(d), PartsAreWhole(d.cparts),
         NEW p \in 1 .. DeclCpartCnt(d.version), NEW fields, FieldsFor(d, p, fields),
         NEW r, ResizeIsRight(d.cparts[p], UsedSpace(d.version, fields, p, 0), r),
         NEW e, e = MkDsc(d.version, d.id, d.type, fields, d.future_idata,
                          SetPart(d.cparts, p, r))
  PROVE  p \in 1 .. Len(d.cparts) /\ DescriptorIsRight(e) /\ PartsAreWhole(e.cparts)
<1>1. PICK v, f, g, i, c : /\ v = d.version /\ f = d.fields /\ g = d.future_idata
                           /\ i = IdataOf(d) /\ c = d.cparts
  OBVIOUS
<1>2. /\ v \in Versions /\ Naturals(f) /\ Naturals(g) /\ Len(f) = FieldCnt(v)
      /\ d.id \in Nat /\ d.type \in Nat /\ IsRow(c)
  BY <1>1 DEF DescriptorIsRight, DescriptorIsTyped
<1>3. Naturals(fields) /\ Len(fields) = FieldCnt(v)
  BY <1>1 DEF FieldsFor
<1>4. PICK n \in {1, 3} : n = FieldCnt(v)
  BY DEF FieldCnt
<1>5. PICK j : j = fields \o g
  OBVIOUS
<1>6. i = f \o g
  BY <1>1 DEF IdataOf
<1>7. /\ Naturals(i) /\ Len(i) = n + Len(g)
      /\ \A k \in 1 .. n : Val(i, k) = f[k]
      /\ \A k \in Nat : k > n => Val(i, k) = Val(g, k - n)
  <2>1. /\ Naturals(f \o g) /\ Len(f \o g) = Len(f) + Len(g)
        /\ \A k \in 1 .. Len(f) : Val(f \o g, k) = f[k]
        /\ \A k \in Nat : k > Len(f) => Val(f \o g, k) = Val(g, k - Len(f))
    BY <1>2, Vals
  <2> QED
    BY <1>2, <1>4, <1>6, <2>1
<1>8. /\ Naturals(j) /\ Len(j) = n + Len(g)
      /\ \A k \in 1 .. n : Val(j, k) = fields[k]
      /\ \A k \in Nat : k > n => Val(j, k) = Val(g, k - n)
  <2>1. /\ Naturals(fields \o g) /\ Len(fields \o g) = Len(fields) + Len(g)
        /\ \A k \in 1 .. Len(fields) : Val(fields \o g, k) = fields[k]
        /\ \A k \in Nat : k > Len(fields) => Val(fields \o g, k) = Val(g, k - Len(fields))
    BY <1>2, <1>3, Vals
  <2> QED
    BY <1>3, <1>4, <1>5, <2>1
<1>9. Len(g) \in Nat /\ Len(i) \in {1, 3} /\ Len(c) = CpartCnt(v, i)
  BY <1>1, <1>2, RowLen DEF DescriptorIsRight, Naturals
<1>10. PICK v1, v2, v3, w1, w2, w3 \in Nat :
         /\ v1 = Val(i, 1) /\ v2 = Val(i, 2) /\ v3 = Val(i, 3)
         /\ w1 = Val(j, 1) /\ w2 = Val(j, 2) /\ w3 = Val(j, 3)
  <2>1. Val(i, 1) \in Nat /\ Val(i, 2) \in Nat /\ Val(i, 3) \in Nat
    BY <1>7, ValIsNat
  <2>2. Val(j, 1) \in Nat /\ Val(j, 2) \in Nat /\ Val(j, 3) \in Nat
    BY <1>8, ValIsNat
  <2> QED
    BY <2>1, <2>2
<1>11. PICK m \in {1, 2} : m = Len(c) /\ m = CpartCnt(v, i)
  BY <1>9 DEF CpartCnt
<1>12. p \in 1 .. m /\ p \in {1, 2} /\ (v = "old" => p = 1)
  BY <1>1, <1>2, <1>11 DEF DeclCpartCnt, CpartCnt, Versions
<1>13. PICK sz, part : sz = UsedSpace(v, fields, p, 0) /\ part = c[p]
  OBVIOUS
<1>14. /\ v = "old" => w2 = v2 /\ w3 = v3 /\ sz = w1
       /\ v = "new" /\ p = 1 => w3 = v3 /\ sz = w1 + w2
       /\ v = "new" /\ p = 2 => w1 = v1 /\ w2 = v2 /\ sz = w3
  <2>1. CASE v = "old"
    <3>1. n = 1
      BY <1>4, <2>1 DEF FieldCnt
    <3>2. v2 = Val(g, 1) /\ v3 = Val(g, 2) /\ w2 = Val(g, 1) /\ w3 = Val(g, 2) /\ w1 = fields[1]
      BY <1>7, <1>8, <1>10, <3>1
    <3> QED
      BY <1>12, <1>13, <2>1, <3>2 DEF UsedSpace
  <2>2. CASE v = "new"
    <3>1. n = 3
      BY <1>4, <2>2 DEF FieldCnt
    <3>2. /\ v1 = f[1] /\ v2 = f[2] /\ v3 = f[3]
          /\ w1 = fields[1] /\ w2 = fields[2] /\ w3 = fields[3]
      BY <1>7, <1>8, <1>10, <3>1
    <3> QED
      BY <1>1, <1>12, <1>13, <2>2, <3>2 DEF UsedSpace, FieldsFor
  <2> QED
    BY <1>2, <2>1, <2>2 DEF Versions
<1>15. part.csize = CsizeFor(i, p) /\ part.future_csize = HiddenFor(v, i, p)
  BY <1>1, <1>11, <1>12, <1>13 DEF DescriptorIsRight, PartIsFor
<1>16. PartIsWhole(r) /\ r.csize = sz + part.future_csize /\ r.future_csize = part.future_csize
  BY <1>1, <1>13 DEF ResizeIsRight
<1>17. PartIsFor(v, j, p, r)
  <2>1. CASE v = "old"
    BY <1>10, <1>12, <1>14, <1>15, <1>16, <2>1 DEF PartIsFor, CsizeFor, HiddenFor
  <2>2. CASE v = "new"
    BY <1>10, <1>12, <1>14, <1>15, <1>16, <2>2 DEF PartIsFor, CsizeFor, HiddenFor
  <2> QED
    BY <1>2, <2>1, <2>2 DEF Versions
<1>18. PICK k : k = SetPart(c, p, r)
  OBVIOUS
<1>19. /\ IsRow(k) /\ Len(k) = m
       /\ \A q \in 1 .. m : k[q] = IF q = p THEN r ELSE c[q]
  <2>1. IsRow(c) /\ p \in 1 .. Len(c)
    BY <1>2, <1>11, <1>12
  <2>2. /\ IsRow(SetPart(c, p, r)) /\ Len(SetPart(c, p, r)) = Len(c)
        /\ \A q \in 1 .. Len(c) : SetPart(c, p, r)[q] = IF q = p THEN r ELSE c[q]
    BY <2>1, ReplacedRow
  <2> QED
    BY <1>11, <1>18, <2>2
<1>20. ASSUME NEW q \in 1 .. m PROVE PartIsWhole(k[q]) /\ PartIsFor(v, j, q, k[q])
  <2>1. CASE q = p
    BY <1>16, <1>17, <1>19, <2>1
  <2>2. CASE q # p
    <3>1. k[q] = c[q]
      BY <1>19, <2>2
    <3>2. PartIsWhole(c[q]) /\ PartIsFor(v, i, q, c[q])
      BY <1>1, <1>11 DEF PartsAreWhole, DescriptorIsRight
    <3>3. q \in {1, 2}
      OBVIOUS
    <3>4. CsizeFor(j, q) = CsizeFor(i, q) /\ HiddenFor(v, j, q) = HiddenFor(v, i, q)
      <4>1. CASE v = "old"
        BY <1>10, <1>12, <1>14, <2>2, <3>3, <4>1 DEF CsizeFor, HiddenFor
      <4>2. CASE v = "new"
        BY <1>10, <1>12, <1>14, <2>2, <3>3, <4>2 DEF CsizeFor, HiddenFor
      <4> QED
        BY <1>2, <4>1, <4>2 DEF Versions
    <3> QED
      BY <3>1, <3>2, <3>4 DEF PartIsFor
  <2> QED
    BY <2>1, <2>2
<1>21. m = CpartCnt(v, j)
  BY <1>10, <1>11, <1>14, <1>2 DEF CpartCnt, Versions
<1>22. /\ e.version = v /\ e.id = d.id /\ e.type = d.type /\ e.fields = fields
       /\ e.future_idata = g /\ e.cparts = k
  BY <1>1, <1>18 DEF MkDsc
<1>23. IdataOf(e) = j
  BY <1>5, <1>22 DEF IdataOf
<1>24. DescriptorIsTyped(e)
  <2>1. \A q \in 1 .. m : PartTypes(k[q])
    BY <1>20 DEF PartIsWhole
  <2>2. e = MkDsc(e.version, e.id, e.type, e.fields, e.future_idata, e.cparts)
    BY <1>1, <1>18, <1>22
  <2> QED
    BY <1>2, <1>3, <1>19, <1>22, <2>1, <2>2 DEF DescriptorIsTyped, MkDsc
<1>25. Len(j) \in {1, 3}
  BY <1>7, <1>8, <1>9
<1>26. DescriptorIsRight(e)
  BY <1>19, <1>20, <1>21, <1>22, <1>23, <1>24, <1>25 DEF DescriptorIsRight
<1>27. PartsAreWhole(e.cparts)
  BY <1>19, <1>20, <1>22 DEF PartsAreWhole
<1> QED
  BY <1>1, <1>11, <1>12, <1>26, <1>27

\* The part r in the place of p is what the steps on a part have.
WithPart(d, p, r) == [d EXCEPT !.cparts[p] = r]
WithPartAndFields(d, p, r, fields) == [d EXCEPT !.cparts[p] = r, !.fields = fields]

LEMMA PartInPlace ==
  ASSUME NEW d, DescriptorIsTyped(d), NEW p \in 1 .. Len(d.cparts), NEW r
  PROVE  /\ WithPart(d, p, r)
              = MkDsc(d.version, d.id, d.type, d.fields, d.future_idata, SetPart(d.cparts, p, r))
         /\ \A fields : WithPartAndFields(d, p, r, fields)
              = MkDsc(d.version, d.id, d.type, fields, d.future_idata, SetPart(d.cparts, p, r))
<1>1. PICK v, id, t, f, g, c : /\ v = d.version /\ id = d.id /\ t = d.type /\ f = d.fields
                               /\ g = d.future_idata /\ c = d.cparts
  OBVIOUS
<1>2. d = MkDsc(v, id, t, f, g, c)
  BY <1>1 DEF DescriptorIsTyped, MkDsc
<1>3. IsRow(c)
  BY <1>1 DEF DescriptorIsTyped
<1>4. PICK n \in Nat : n = Len(c) /\ DOMAIN c = 1 .. n /\ c = [q \in 1 .. n |-> c[q]]
  BY <1>3, RowLen
<1>5. [c EXCEPT ![p] = r] = SetPart(c, p, r)
  BY <1>4 DEF SetPart
<1>6. [d EXCEPT !.cparts = [c EXCEPT ![p] = r]] = MkDsc(v, id, t, f, g, SetPart(c, p, r))
  BY <1>2, <1>5 DEF MkDsc
<1>7. [d EXCEPT !.cparts[p] = r] = [d EXCEPT !.cparts = [c EXCEPT ![p] = r]]
  BY <1>1, <1>2 DEF MkDsc
<1>8. ASSUME NEW fields
      PROVE  [d EXCEPT !.cparts[p] = r, !.fields = fields]
               = MkDsc(v, id, t, fields, g, SetPart(c, p, r))
  <2>1. [MkDsc(v, id, t, f, g, SetPart(c, p, r)) EXCEPT !.fields = fields]
          = MkDsc(v, id, t, fields, g, SetPart(c, p, r))
    BY DEF MkDsc
  <2>2. [d EXCEPT !.cparts[p] = r, !.fields = fields]
          = [[d EXCEPT !.cparts[p] = r] EXCEPT !.fields = fields]
    OBVIOUS
  <2> QED
    BY <1>6, <1>7, <2>1, <2>2
<1>9. ASSUME NEW fields
      PROVE  WithPartAndFields(d, p, r, fields) = MkDsc(v, id, t, fields, g, SetPart(c, p, r))
  BY <1>8 DEF WithPartAndFields
<1>10. WithPart(d, p, r) = MkDsc(v, id, t, f, g, SetPart(c, p, r))
  BY <1>6, <1>7 DEF WithPart
<1> QED
  BY <1>1, <1>9, <1>10

\* Other bytes for a part, as many as it had.
LEMMA BytesChanged ==
  ASSUME NEW part, PartTypes(part), NEW b, IsRow(b), Len(b) = Len(part.bytes)
  PROVE  /\ [part EXCEPT !.bytes = b] = MkPart(part.csize, part.future_csize, part.space, b)
         /\ PartTypes([part EXCEPT !.bytes = b])
         /\ PartIsWhole(part) => PartIsWhole([part EXCEPT !.bytes = b])
<1>1. PICK c, f, s : c = part.csize /\ f = part.future_csize /\ s = part.space
  OBVIOUS
<1>2. part = MkPart(c, f, s, part.bytes)
  BY <1>1 DEF PartTypes
<1>3. PICK r : r = [part EXCEPT !.bytes = b]
  OBVIOUS
<1>4. r = MkPart(c, f, s, b)
  BY <1>2, <1>3 DEF MkPart
<1>5. r.csize = c /\ r.future_csize = f /\ r.space = s /\ r.bytes = b
  BY <1>4 DEF MkPart
<1>6. PartTypes(r)
  BY <1>1, <1>4, <1>5 DEF PartTypes
<1>7. ASSUME PartIsWhole(part) PROVE PartIsWhole(r)
  <2>1. s = AllocSz(c)
    BY <1>1, <1>7 DEF PartIsWhole
  <2>2. ASSUME c = 0 PROVE r = NoPart
    <3>1. part = NoPart
      BY <1>1, <1>7, <2>2 DEF PartIsWhole
    <3>2. part.bytes = << >>
      BY <3>1 DEF NoPart
    <3>3. Len(b) = 0
      BY <3>2, ShortRows
    <3>4. b = << >>
      BY <3>3, RowsAreEqual, ShortRows
    <3>5. r = part
      BY <1>2, <1>4, <3>2, <3>4
    <3> QED
      BY <3>1, <3>5
  <2> QED
    BY <1>5, <1>6, <2>1, <2>2 DEF PartIsWhole
<1> QED
  BY <1>1, <1>3, <1>4, <1>6, <1>7

\* A resize that threw left less bytes, and the sizes as they were.
LEMMA CurtailedPart ==
  ASSUME NEW part, PartTypes(part)
  PROVE  /\ PartTypes(Curtailed(part))
         /\ Curtailed(part).csize = part.csize
         /\ Curtailed(part).future_csize = part.future_csize
<1>1. PICK c, f, s, b : c = part.csize /\ f = part.future_csize /\ s = part.space /\ b = part.bytes
  OBVIOUS
<1>2. /\ part = MkPart(c, f, s, b) /\ c \in Nat /\ f \in Nat /\ s \in Nat /\ f <= c /\ c <= MaxCsize
      /\ IsRow(b) /\ Len(b) = s
  BY <1>1 DEF PartTypes
<1>3. PICK m \in Nat : m = s - (s % BlkSz) /\ m <= s
  <2>1. BlkSz \in Nat \ {0}
    BY BlkSzFacts
  <2>2. /\ s % BlkSz \in 0 .. BlkSz - 1 /\ s \div BlkSz \in Nat
        /\ s = BlkSz * (s \div BlkSz) + (s % BlkSz)
    BY <1>2, <2>1, DivMod
  <2>3. PICK x, y \in Nat : x = BlkSz * (s \div BlkSz) /\ y = s % BlkSz
    BY <2>1, <2>2
  <2> QED
    BY <1>2, <2>2, <2>3
<1>4. PICK a : a = SubSeq(b, 1, m)
  OBVIOUS
<1>5. IsRow(a) /\ Len(a) = m
  <2>1. 0 \in Nat /\ 0 + m <= Len(b)
    BY <1>2, <1>3
  <2>2. IsRow(SubSeq(b, 0 + 1, 0 + m)) /\ Len(SubSeq(b, 0 + 1, 0 + m)) = m
    BY <1>2, <2>1, SubRow
  <2>3. 0 + 1 = 1 /\ 0 + m = m
    OBVIOUS
  <2> QED
    BY <1>4, <2>2, <2>3
<1>6. PICK r : r = Curtailed(part)
  OBVIOUS
<1>7. r = MkPart(c, f, m, a)
  <2>1. [MkPart(c, f, s, b) EXCEPT !.space = m] = MkPart(c, f, m, b)
    BY DEF MkPart
  <2>2. [MkPart(c, f, m, b) EXCEPT !.bytes = a] = MkPart(c, f, m, a)
    BY DEF MkPart
  <2>3. r = [[part EXCEPT !.space = m] EXCEPT !.bytes = a]
    BY <1>1, <1>3, <1>4, <1>6 DEF Curtailed
  <2> QED
    BY <1>2, <2>1, <2>2, <2>3
<1>8. r.csize = c /\ r.future_csize = f /\ r.space = m /\ r.bytes = a
  BY <1>7 DEF MkPart
<1>9. PartTypes(r)
  BY <1>2, <1>5, <1>7, <1>8 DEF PartTypes
<1> QED
  BY <1>1, <1>6, <1>8, <1>9

-----------------------------------------------------------------------------
(* The io that a program has on a part *)

LEMMA SeenSz ==
  ASSUME NEW part, PartIsWhole(part)
  PROVE  /\ PresentSz(part) \in Nat /\ PresentSz(part) <= part.csize
         /\ PresentSz(part) + part.future_csize = part.csize
         /\ part.csize <= Len(part.bytes) /\ Len(part.bytes) \in U32
         /\ Len(part.bytes) \in Nat /\ IsRow(part.bytes)
<1>1. /\ part.csize \in Nat /\ part.future_csize \in Nat /\ part.space \in Nat
      /\ part.future_csize <= part.csize /\ part.csize <= MaxCsize
      /\ part.space = AllocSz(part.csize) /\ IsRow(part.bytes) /\ Len(part.bytes) = part.space
  BY DEF PartIsWhole, PartTypes
<1>2. part.csize <= AllocSz(part.csize)
  BY <1>1, AllocSzFacts
<1>3. AllocSz(part.csize) \in U32
  BY <1>1, SizesFit
<1> QED
  BY <1>1, <1>2, <1>3 DEF PresentSz

LEMMA ContentIO ==
  ASSUME NEW part, PartIsWhole(part)
  PROVE  /\ get_content_part_io(part)
              = IOOf(part.bytes, Cur(0, 0, PresentSz(part)), Cur(0, 0, PresentSz(part)))
         /\ Cur(0, 0, PresentSz(part)) \in Cursors(Len(part.bytes))
<1>1. PICK b, q, L : b = part.bytes /\ q = PresentSz(part) /\ L = Len(b)
  OBVIOUS
<1>2. q \in Nat /\ L \in Nat /\ q <= L /\ L \in U32 /\ IsRow(b)
  <2>1. q \in Nat /\ q <= part.csize /\ part.csize <= L /\ L \in U32 /\ L \in Nat /\ IsRow(b)
    BY <1>1, SeenSz
  <2>2. part.csize \in Nat
    BY DEF PartIsWhole, PartTypes
  <2> QED
    BY <2>1, <2>2
<1>3. Limit(L, Cur(0, 0, L), 0, q) = Cur(0, 0, q)
  <2>1. Least(0, L) = 0
    BY <1>2 DEF Least
  <2>2. q <= L - 0 /\ 0 + q = q /\ ~ (0 < 0) /\ ~ (0 > q)
    BY <1>2
  <2>3. Cur(0, 0, L).at = 0
    BY DEF Cur
  <2> QED
    BY <2>1, <2>2, <2>3 DEF Limit, Cur
<1>4. PICK io : io = IOOf(b, Cur(0, 0, L), Cur(0, 0, L))
  OBVIOUS
<1>5. io.bytes = b /\ io.rd = Cur(0, 0, L) /\ io.wr = Cur(0, 0, L)
  BY <1>4 DEF IOOf
<1>6. NewIO(b) = io
  BY <1>1, <1>4, NewIOIsOpen DEF Open
<1>7. PICK jo : jo = LimitRd(io, 0, q)
  OBVIOUS
<1>8. jo = IOOf(b, Cur(0, 0, q), Cur(0, 0, L))
  BY <1>1, <1>3, <1>4, <1>5, <1>7 DEF LimitRd, IOOf
<1>9. jo.bytes = b /\ jo.wr = Cur(0, 0, L)
  BY <1>8 DEF IOOf
<1>10. LimitWr(jo, 0, q) = IOOf(b, Cur(0, 0, q), Cur(0, 0, q))
  BY <1>1, <1>3, <1>8, <1>9 DEF LimitWr, IOOf
<1>11. get_content_part_io(part) = IOOf(b, Cur(0, 0, q), Cur(0, 0, q))
  BY <1>1, <1>6, <1>7, <1>10 DEF get_content_part_io
<1>12. Cur(0, 0, q) \in Cursors(L)
  BY <1>2, IOAssumption DEF Cursors, Cur, U32
<1> QED
  BY <1>1, <1>11, <1>12

\* A seek leaves the io with the same bytes and limits, and a cursor inside of them.
LEMMA CursorIs ==
  ASSUME NEW L \in U32, NEW c \in Cursors(L), NEW pos \in U32, NEW way \in Ways
  PROVE  \E at \in Nat : /\ Seek(L, c, pos, way) = Cur(at, c.min, c.end)
                         /\ Cur(at, c.min, c.end) \in Cursors(L)
                         /\ c.min <= at /\ at <= c.end
<1>1. PICK d : d = Seek(L, c, pos, way)
  OBVIOUS
<1>2. d \in Cursors(L) /\ d.min = c.min /\ d.end = c.end
  BY <1>1, SeekKeepsLimits
<1>3. d = Cur(d.at, d.min, d.end)
  BY <1>2 DEF Cursors, Cur
<1>4. d.at \in Int /\ d.min \in Int /\ 0 <= d.min /\ d.min <= d.at /\ d.at <= d.end
  BY <1>2, CursorFacts
<1>5. d.at \in Nat
  BY <1>4
<1> QED
  BY <1>1, <1>2, <1>3, <1>4, <1>5

LEMMA WriteIO ==
  ASSUME NEW part, PartIsWhole(part), NEW limit \in Nat, limit <= PresentSz(part),
         NEW pos \in U32, NEW way \in Ways
  PROVE  \E at \in Nat :
           /\ SeekWr(LimitWr(get_content_part_io(part), limit, PresentSz(part) - limit), pos, way)
                = IOOf(part.bytes, Cur(0, 0, PresentSz(part)), Cur(at, limit, PresentSz(part)))
           /\ limit <= at /\ at <= PresentSz(part)
<1>1. PICK b, q, L : b = part.bytes /\ q = PresentSz(part) /\ L = Len(b)
  OBVIOUS
<1>2. q \in Nat /\ L \in Nat /\ q <= L /\ L \in U32 /\ IsRow(b)
  <2>1. q \in Nat /\ q <= part.csize /\ part.csize <= L /\ L \in U32 /\ L \in Nat /\ IsRow(b)
    BY <1>1, SeenSz
  <2>2. part.csize \in Nat
    BY DEF PartIsWhole, PartTypes
  <2> QED
    BY <2>1, <2>2
<1>3. Limit(L, Cur(0, 0, q), limit, q - limit) = Cur(limit, limit, q)
  <2>1. Least(limit, L) = limit
    BY <1>1, <1>2 DEF Least
  <2>2. q - limit <= L - limit /\ limit + (q - limit) = q
    BY <1>1, <1>2
  <2>3. Cur(0, 0, q).at = 0
    BY DEF Cur
  <2>4. (IF 0 < limit THEN limit ELSE IF 0 > q THEN q ELSE 0) = limit
    BY <1>1, <1>2
  <2> QED
    BY <2>1, <2>2, <2>3, <2>4 DEF Limit, Cur
<1>4. PICK c, d : c = Cur(0, 0, q) /\ d = Cur(limit, limit, q)
  OBVIOUS
<1>5. d \in Cursors(L) /\ d.min = limit /\ d.end = q
  BY <1>1, <1>2, <1>4, IOAssumption DEF Cursors, Cur, U32
<1>6. PICK io : io = get_content_part_io(part)
  OBVIOUS
<1>7. io = IOOf(b, c, c)
  BY <1>1, <1>4, <1>6, ContentIO
<1>8. io.bytes = b /\ io.wr = c
  BY <1>7 DEF IOOf
<1>9. PICK jo : jo = LimitWr(io, limit, q - limit)
  OBVIOUS
<1>10. jo = IOOf(b, c, d)
  BY <1>1, <1>3, <1>4, <1>7, <1>8, <1>9 DEF LimitWr, IOOf
<1>11. jo.bytes = b /\ jo.wr = d
  BY <1>10 DEF IOOf
<1>12. PICK at \in Nat : /\ Seek(L, d, pos, way) = Cur(at, limit, q)
                         /\ limit <= at /\ at <= q
  BY <1>2, <1>5, CursorIs
<1>13. SeekWr(jo, pos, way) = IOOf(b, c, Cur(at, limit, q))
  BY <1>1, <1>10, <1>11, <1>12 DEF SeekWr, IOOf
<1> QED
  BY <1>1, <1>4, <1>6, <1>9, <1>12, <1>13

LEMMA CopyIO ==
  ASSUME NEW part, PartIsWhole(part), NEW from \in U32, NEW to \in U32
  PROVE  \E rd, wr \in Nat :
           /\ SeekWr(SeekRd(get_content_part_io(part), from, "beg"), to, "beg")
                = IOOf(part.bytes, Cur(rd, 0, PresentSz(part)), Cur(wr, 0, PresentSz(part)))
           /\ rd <= PresentSz(part) /\ wr <= PresentSz(part)
           /\ Cur(rd, 0, PresentSz(part)) \in Cursors(Len(part.bytes))
           /\ Cur(wr, 0, PresentSz(part)) \in Cursors(Len(part.bytes))
<1>1. PICK b, q, L : b = part.bytes /\ q = PresentSz(part) /\ L = Len(b)
  OBVIOUS
<1>2. L \in U32 /\ "beg" \in Ways
  BY <1>1, SeenSz DEF Ways
<1>3. PICK c : c = Cur(0, 0, q)
  OBVIOUS
<1>4. c \in Cursors(L)
  BY <1>1, <1>3, ContentIO
<1>5. c.min = 0 /\ c.end = q
  BY <1>3 DEF Cur
<1>6. PICK rd \in Nat : Seek(L, c, from, "beg") = Cur(rd, 0, q) /\ Cur(rd, 0, q) \in Cursors(L) /\ rd <= q
  BY <1>2, <1>4, <1>5, CursorIs
<1>7. PICK wr \in Nat : Seek(L, c, to, "beg") = Cur(wr, 0, q) /\ Cur(wr, 0, q) \in Cursors(L) /\ wr <= q
  BY <1>2, <1>4, <1>5, CursorIs
<1>8. PICK io : io = get_content_part_io(part)
  OBVIOUS
<1>9. io = IOOf(b, c, c)
  BY <1>1, <1>3, <1>8, ContentIO
<1>10. io.bytes = b /\ io.rd = c
  BY <1>9 DEF IOOf
<1>11. PICK jo : jo = SeekRd(io, from, "beg")
  OBVIOUS
<1>12. jo = IOOf(b, Cur(rd, 0, q), c)
  BY <1>1, <1>6, <1>9, <1>10, <1>11 DEF SeekRd, IOOf
<1>13. jo.bytes = b /\ jo.wr = c
  BY <1>12 DEF IOOf
<1>14. SeekWr(jo, to, "beg") = IOOf(b, Cur(rd, 0, q), Cur(wr, 0, q))
  BY <1>1, <1>7, <1>12, <1>13 DEF SeekWr, IOOf
<1> QED
  BY <1>1, <1>6, <1>7, <1>8, <1>11, <1>14

\* What a version writes on some bytes.
Stamped(version, b, at, sz) ==
  [i \in DOMAIN b |-> IF i \in at + 1 .. at + sz THEN Stamp(version, i) ELSE b[i]]

WrittenIO(part, limit, pos, way) ==
  SeekWr(LimitWr(get_content_part_io(part), limit, PresentSz(part) - limit), pos, way)

CopiedIO(part, from, to) == SeekWr(SeekRd(get_content_part_io(part), from, "beg"), to, "beg")

Data(version, io, sz) == [i \in 1 .. sz |-> Stamp(version, io.wr.at + i)]

LEMMA WrittenPart ==
  ASSUME NEW part, PartIsWhole(part), NEW limit \in Nat, limit <= PresentSz(part),
         NEW pos \in U32, NEW way \in Ways, NEW sz \in Nat, NEW version,
         NEW io, io = WrittenIO(part, limit, pos, way), CanWrite(io, sz)
  PROVE  \E at \in Nat :
           /\ at + sz <= PresentSz(part)
           /\ AfterWrite(io, Data(version, io, sz)).bytes = Stamped(version, part.bytes, at, sz)
           /\ IsRow(Stamped(version, part.bytes, at, sz))
           /\ Len(Stamped(version, part.bytes, at, sz)) = Len(part.bytes)
<1>1. PICK b, q : b = part.bytes /\ q = PresentSz(part)
  OBVIOUS
<1>2. q \in Nat /\ IsRow(b) /\ Len(b) \in Nat
  BY <1>1, SeenSz
<1>3. PICK at \in Nat : io = IOOf(b, Cur(0, 0, q), Cur(at, limit, q)) /\ at <= q
  BY <1>1, WriteIO DEF WrittenIO
<1>4. io.bytes = b /\ io.wr = Cur(at, limit, q)
  BY <1>3 DEF IOOf
<1>5. io.wr.at = at /\ Remain(io.wr) = q - at
  BY <1>4 DEF Cur, Remain
<1>6. at + sz <= q
  BY <1>2, <1>3, <1>5 DEF CanWrite
<1>7. PICK data : data = Data(version, io, sz)
  OBVIOUS
<1>8. data = [i \in 1 .. sz |-> Stamp(version, at + i)]
  BY <1>5, <1>7 DEF Data
<1>9. Len(data) = sz
  <2>1. data = [i \in 1 .. sz |-> data[i]]
    BY <1>8
  <2> QED
    BY <2>1, RowFacts
<1>10. PICK s : s = Stamped(version, b, at, sz)
  OBVIOUS
<1>11. DOMAIN b = 1 .. Len(b)
  BY <1>2, RowLen
<1>12. Patched(b, at, data) = s
  <2>1. ASSUME NEW i \in at + 1 .. at + sz PROVE data[i - at] = Stamp(version, i)
    <3>1. i - at \in 1 .. sz /\ at + (i - at) = i
      OBVIOUS
    <3> QED
      BY <1>8, <3>1
  <2> QED
    BY <1>9, <1>10, <2>1 DEF Patched, Stamped
<1>13. AfterWrite(io, data).bytes = s
  BY <1>3, <1>4, <1>5, <1>12 DEF AfterWrite, IOOf
<1>14. s = [i \in 1 .. Len(b) |-> s[i]]
  BY <1>10, <1>11 DEF Stamped
<1>15. IsRow(s) /\ Len(s) = Len(b)
  BY <1>2, <1>14, RowFacts
<1> QED
  BY <1>1, <1>6, <1>7, <1>10, <1>13, <1>15

LEMMA CopiedPart ==
  ASSUME NEW part, PartIsWhole(part), NEW from \in U32, NEW to \in U32, NEW sz \in Nat,
         NEW io, io = CopiedIO(part, from, to), CanRead(io, sz), CanWrite(io, sz)
  PROVE  \E rd, wr \in Nat :
           /\ rd + sz <= PresentSz(part) /\ wr + sz <= PresentSz(part)
           /\ copy_into_self(io, sz).bytes = Pasted(part.bytes, part.bytes, rd, wr, sz)
           /\ IsRow(Pasted(part.bytes, part.bytes, rd, wr, sz))
           /\ Len(Pasted(part.bytes, part.bytes, rd, wr, sz)) = Len(part.bytes)
<1>1. PICK b, q : b = part.bytes /\ q = PresentSz(part)
  OBVIOUS
<1>2. q \in Nat /\ IsRow(b) /\ Len(b) \in Nat
  BY <1>1, SeenSz
<1>3. PICK rd, wr \in Nat :
        /\ io = IOOf(b, Cur(rd, 0, q), Cur(wr, 0, q)) /\ rd <= q /\ wr <= q
        /\ Cur(rd, 0, q) \in Cursors(Len(b)) /\ Cur(wr, 0, q) \in Cursors(Len(b))
  BY <1>1, CopyIO DEF CopiedIO
<1>4. io.bytes = b /\ io.rd = Cur(rd, 0, q) /\ io.wr = Cur(wr, 0, q)
  BY <1>3 DEF IOOf
<1>5. io.rd.at = rd /\ io.wr.at = wr /\ Remain(io.rd) = q - rd /\ Remain(io.wr) = q - wr
  BY <1>4 DEF Cur, Remain
<1>6. rd + sz <= q /\ wr + sz <= q
  BY <1>2, <1>3, <1>5 DEF CanRead, CanWrite
<1>7. IsIO(io)
  BY <1>2, <1>3, <1>4 DEF IsIO
<1>8. copy_into_self(io, sz) = Moved(io, Pasted(io.bytes, io.bytes, io.rd.at, io.wr.at, sz), sz)
  BY <1>7, CopyIsMove
<1>9. copy_into_self(io, sz).bytes = Pasted(b, b, rd, wr, sz)
  BY <1>4, <1>5, <1>8 DEF Moved, IOOf
<1>10. IsRow(Pasted(b, b, rd, wr, sz)) /\ Len(Pasted(b, b, rd, wr, sz)) = Len(b)
  BY <1>2, PastedRow
<1> QED
  BY <1>1, <1>6, <1>9, <1>10

-----------------------------------------------------------------------------
(* The invariant *)

StoredPart(p, part) == [csize |-> part.csize, segm |-> SegmOf(p, part)]

HeaderIsRight(hdr) ==
  /\ hdr.id \in Nat /\ hdr.type \in Nat
  /\ Naturals(hdr.idata) /\ Len(hdr.idata) \in {1, 3}
  /\ IsRow(hdr.cparts) /\ Len(hdr.cparts) = StoredCnt(hdr.idata)
  /\ \A p \in 1 .. Len(hdr.cparts) :
       /\ hdr.cparts[p].csize = CsizeFor(hdr.idata, p)
       /\ hdr.cparts[p].csize <= SpaceOf(hdr.cparts[p].segm)

\* The parts of a header are those of a descriptor, but for the empty ones at the end.
HeaderIsOf(hdr, d) ==
  /\ \A p \in 1 .. Len(hdr.cparts) :
       p \in 1 .. Len(d.cparts) /\ hdr.cparts[p] = StoredPart(p, d.cparts[p])
  /\ \A p \in 1 .. Len(d.cparts) : p > Len(hdr.cparts) => d.cparts[p].csize = 0

Stored == ReadHeader(words, 1).hdr

RecordIsRight == HeaderIsRight(Stored) /\ (status = "open" => HeaderIsOf(Stored, dsc))

ContentInvariant ==
  /\ status \in {"open", "broken"}
  /\ DescriptorIsRight(dsc)
  /\ status = "open" => PartsAreWhole(dsc.cparts)
  /\ words # << >> => RecordIsRight

\* After any step on a part: the record is no more.
Changed(e) == dsc' = e /\ words' = << >> /\ UNCHANGED status

LEMMA ChangedIsRight ==
  ASSUME status = "open", NEW e, DescriptorIsRight(e), PartsAreWhole(e.cparts), Changed(e)
  PROVE  ContentInvariant'
BY DEF Changed, ContentInvariant

LEMMA InitIsRight ==
  ASSUME Init
  PROVE  ContentInvariant
<1>1. PICK v \in Versions, k \in Kinds : dsc = NewDescriptor(v, k[1], k[2])
  BY DEF Init, NewDescriptors
<1>2. k[1] \in Nat /\ k[2] \in Nat
  BY DescriptorContentAssumption
<1>3. DescriptorIsRight(dsc) /\ PartsAreWhole(dsc.cparts)
  BY <1>1, <1>2, NewIsRight
<1> QED
  BY <1>3 DEF Init, ContentInvariant

LEMMA PartsAreThere ==
  ASSUME ContentInvariant, NEW p \in 1 .. DeclCpartCnt(dsc.version)
  PROVE  /\ p \in 1 .. Len(dsc.cparts) /\ PartTypes(dsc.cparts[p])
         /\ status = "open" => PartIsWhole(dsc.cparts[p])
<1>1. DescriptorIsRight(dsc) /\ (status = "open" => PartsAreWhole(dsc.cparts))
  BY DEF ContentInvariant
<1>2. PICK m \in {1, 2} : m = Len(dsc.cparts) /\ m = CpartCnt(dsc.version, IdataOf(dsc))
  BY <1>1 DEF DescriptorIsRight, CpartCnt
<1>3. p \in 1 .. m
  <2>1. dsc.version \in Versions
    BY <1>1 DEF DescriptorIsRight, DescriptorIsTyped
  <2> QED
    BY <1>2, <2>1 DEF DeclCpartCnt, CpartCnt, Versions
<1>4. PartTypes(dsc.cparts[p])
  BY <1>1, <1>2, <1>3 DEF DescriptorIsRight, DescriptorIsTyped
<1> QED
  BY <1>1, <1>2, <1>3, <1>4 DEF PartsAreWhole

LEMMA ResizeStep ==
  ASSUME ContentInvariant, NEW p \in 1 .. DeclCpartCnt(dsc.version),
         NEW fields \in NewFields(p), Resize(p, fields)
  PROVE  /\ ContentInvariant'
         /\ \E r : /\ ResizeIsRight(dsc.cparts[p], UsedSpace(dsc.version, fields, p, 0), r)
                   /\ UsedSpace(dsc.version, fields, p, 0) \in Nat
                   /\ dsc'.cparts = SetPart(dsc.cparts, p, r)
<1>1. DescriptorIsRight(dsc) /\ PartsAreWhole(dsc.cparts) /\ status = "open"
  BY DEF Resize, ContentInvariant
<1>2. p \in 1 .. Len(dsc.cparts) /\ PartIsWhole(dsc.cparts[p])
  BY <1>1, PartsAreThere
<1>3. FieldsFor(dsc, p, fields)
  BY <1>1, NewFieldsAre
<1>4. PICK sz : sz = UsedSpace(dsc.version, fields, p, 0)
  OBVIOUS
<1>5. sz \in Nat
  <2>1. Naturals(fields) /\ Len(fields) = FieldCnt(dsc.version) /\ dsc.version \in Versions
    BY <1>1, <1>3 DEF FieldsFor, DescriptorIsRight, DescriptorIsTyped
  <2>2. CASE dsc.version = "old"
    <3>1. p = 1 /\ fields[1] \in Nat
      BY <2>1, <2>2 DEF Naturals, FieldCnt, DeclCpartCnt
    <3> QED
      BY <1>4, <2>2, <3>1 DEF UsedSpace
  <2>3. CASE dsc.version = "new"
    <3>1. fields[1] \in Nat /\ fields[2] \in Nat /\ fields[3] \in Nat
      BY <2>1, <2>3 DEF Naturals, FieldCnt
    <3> QED
      BY <1>4, <2>3, <3>1 DEF UsedSpace
  <2> QED
    BY <2>1, <2>2, <2>3 DEF Versions
<1>6. PICK part, r : part = dsc.cparts[p] /\ r = resize_content_part(part, sz)
  OBVIOUS
<1>7. does_present_csize_fit(part, sz)
  BY <1>4, <1>6 DEF Resize
<1>8. ResizeIsRight(part, sz, r)
  <2>1. PartIsWhole(part)
    BY <1>2, <1>6
  <2> QED
    BY <1>5, <1>6, <1>7, <2>1, ResizeKeepsContent
<1>9. PICK e : e = MkDsc(dsc.version, dsc.id, dsc.type, fields, dsc.future_idata,
                         SetPart(dsc.cparts, p, r))
  OBVIOUS
<1>10. ResizeIsRight(dsc.cparts[p], UsedSpace(dsc.version, fields, p, 0), r)
  BY <1>4, <1>6, <1>8
<1>11. DescriptorIsRight(e) /\ PartsAreWhole(e.cparts)
  BY <1>1, <1>3, <1>9, <1>10, ResizeIsRightStep
<1>12. Changed(e)
  <2>1. dsc' = [dsc EXCEPT !.cparts[p] = resize_content_part(@, sz), !.fields = fields]
        /\ words' = << >> /\ UNCHANGED status
    BY <1>4 DEF Resize
  <2>4. DescriptorIsTyped(dsc)
    BY <1>1 DEF DescriptorIsRight
  <2>5. WithPartAndFields(dsc, p, r, fields) = e
    BY <1>2, <1>9, <2>4, PartInPlace
  <2>2. [dsc EXCEPT !.cparts[p] = r, !.fields = fields] = e
    BY <2>5 DEF WithPartAndFields
  <2>3. dsc' = [dsc EXCEPT !.cparts[p] = r, !.fields = fields]
    BY <1>6, <2>1
  <2> QED
    BY <2>1, <2>2, <2>3 DEF Changed
<1>13. ContentInvariant'
  BY <1>1, <1>11, <1>12, ChangedIsRight
<1>14. dsc'.cparts = SetPart(dsc.cparts, p, r)
  BY <1>9, <1>12 DEF Changed, MkDsc
<1> QED
  BY <1>4, <1>5, <1>10, <1>13, <1>14

LEMMA ResizeThrowsStep ==
  ASSUME ContentInvariant, NEW p \in 1 .. DeclCpartCnt(dsc.version), NEW fields,
         ResizeThrows(p, fields)
  PROVE  ContentInvariant'
<1>1. DescriptorIsRight(dsc) /\ DescriptorIsTyped(dsc)
  BY DEF ContentInvariant, DescriptorIsRight
<1>2. p \in 1 .. Len(dsc.cparts) /\ PartTypes(dsc.cparts[p])
  BY PartsAreThere
<1>3. PICK part, r : part = dsc.cparts[p] /\ r = Curtailed(part)
  OBVIOUS
<1>4. PartTypes(r) /\ r.csize = dsc.cparts[p].csize /\ r.future_csize = dsc.cparts[p].future_csize
  BY <1>2, <1>3, CurtailedPart
<1>5. PICK e : e = MkDsc(dsc.version, dsc.id, dsc.type, dsc.fields, dsc.future_idata,
                         SetPart(dsc.cparts, p, r))
  OBVIOUS
<1>6. DescriptorIsRight(e)
  BY <1>1, <1>2, <1>4, <1>5, PartIsReplaced
<1>7. dsc' = e /\ words' = << >> /\ status' = "broken"
  <2>1. dsc' = [dsc EXCEPT !.cparts[p] = Curtailed(@)] /\ words' = << >> /\ status' = "broken"
    BY DEF ResizeThrows
  <2>4. WithPart(dsc, p, r) = e
    BY <1>1, <1>2, <1>5, PartInPlace
  <2>2. [dsc EXCEPT !.cparts[p] = r] = e
    BY <2>4 DEF WithPart
  <2>3. dsc' = [dsc EXCEPT !.cparts[p] = r]
    BY <1>3, <2>1
  <2> QED
    BY <2>1, <2>2, <2>3
<1> QED
  BY <1>6, <1>7 DEF ContentInvariant

\* Other bytes in a part, as many as it had.
LEMMA BytesStep ==
  ASSUME ContentInvariant, status = "open", NEW p \in 1 .. DeclCpartCnt(dsc.version),
         NEW b, IsRow(b), Len(b) = Len(dsc.cparts[p].bytes),
         dsc' = [dsc EXCEPT !.cparts[p].bytes = b], words' = << >>, UNCHANGED status
  PROVE  /\ ContentInvariant'
         /\ dsc'.cparts = SetPart(dsc.cparts, p, [dsc.cparts[p] EXCEPT !.bytes = b])
<1>1. DescriptorIsRight(dsc) /\ DescriptorIsTyped(dsc) /\ PartsAreWhole(dsc.cparts)
  BY DEF ContentInvariant, DescriptorIsRight
<1>2. p \in 1 .. Len(dsc.cparts) /\ PartTypes(dsc.cparts[p]) /\ PartIsWhole(dsc.cparts[p])
  BY PartsAreThere
<1>3. PICK part, r : part = dsc.cparts[p] /\ r = [part EXCEPT !.bytes = b]
  OBVIOUS
<1>4. /\ r = MkPart(part.csize, part.future_csize, part.space, b)
      /\ PartTypes(r) /\ PartIsWhole(r)
  BY <1>2, <1>3, BytesChanged
<1>5. r.csize = dsc.cparts[p].csize /\ r.future_csize = dsc.cparts[p].future_csize
  BY <1>3, <1>4 DEF MkPart
<1>6. PICK e : e = MkDsc(dsc.version, dsc.id, dsc.type, dsc.fields, dsc.future_idata,
                         SetPart(dsc.cparts, p, r))
  OBVIOUS
<1>7. DescriptorIsRight(e) /\ PartsAreWhole(e.cparts)
  BY <1>1, <1>2, <1>4, <1>5, <1>6, PartIsReplaced
<1>8. Changed(e)
  <2>3. WithPart(dsc, p, r) = e
    BY <1>1, <1>2, <1>6, PartInPlace
  <2>1. [dsc EXCEPT !.cparts[p] = r] = e
    BY <2>3 DEF WithPart
  <2>2. [dsc EXCEPT !.cparts[p].bytes = b] = [dsc EXCEPT !.cparts[p] = r]
    BY <1>3
  <2> QED
    BY <2>1, <2>2 DEF Changed
<1>9. ContentInvariant'
  BY <1>7, <1>8, ChangedIsRight
<1> QED
  BY <1>3, <1>6, <1>8, <1>9 DEF Changed, MkDsc

LEMMA WriteStep ==
  ASSUME ContentInvariant, NEW p \in 1 .. DeclCpartCnt(dsc.version),
         NEW limit \in 0 .. 1, NEW pos \in SeekPos, NEW way \in Ways, NEW sz \in WriteSzs,
         Write(p, limit, pos, way, sz)
  PROVE  /\ ContentInvariant'
         /\ \E at \in Nat :
              /\ at + sz <= PresentSz(dsc.cparts[p]) /\ sz \in Nat
              /\ dsc'.cparts = SetPart(dsc.cparts, p,
                   [dsc.cparts[p] EXCEPT !.bytes = Stamped(dsc.version, dsc.cparts[p].bytes, at, sz)])
<1>1. status = "open" /\ limit <= PresentSz(dsc.cparts[p])
  BY DEF Write
<1>2. PICK part, io : part = dsc.cparts[p] /\ io = WrittenIO(part, limit, pos, way)
  OBVIOUS
<1>3. PartIsWhole(part)
  BY <1>1, <1>2, PartsAreThere
<1>4. limit \in Nat /\ pos \in U32 /\ sz \in Nat
  BY DescriptorContentAssumption
<1>5. CanWrite(io, sz)
  BY <1>2 DEF Write, WrittenIO
<1>6. PICK at \in Nat :
        /\ at + sz <= PresentSz(part)
        /\ AfterWrite(io, Data(dsc.version, io, sz)).bytes = Stamped(dsc.version, part.bytes, at, sz)
        /\ IsRow(Stamped(dsc.version, part.bytes, at, sz))
        /\ Len(Stamped(dsc.version, part.bytes, at, sz)) = Len(part.bytes)
  <2>1. limit <= PresentSz(part) /\ limit \in Nat
    BY <1>1, <1>2, <1>4
  <2>2. io = WrittenIO(part, limit, pos, way)
    BY <1>2
  <2>3. PartIsWhole(part) /\ pos \in U32 /\ way \in Ways /\ sz \in Nat
    BY <1>3, <1>4
  <2> QED
    BY ONLY <1>5, <2>1, <2>2, <2>3, WrittenPart
<1>7. PICK b : b = Stamped(dsc.version, part.bytes, at, sz)
  OBVIOUS
<1>8. dsc' = [dsc EXCEPT !.cparts[p].bytes = b] /\ words' = << >> /\ UNCHANGED status
  <2>1. dsc' = [dsc EXCEPT !.cparts[p].bytes = AfterWrite(io, Data(dsc.version, io, sz)).bytes]
        /\ words' = << >> /\ UNCHANGED status
    BY <1>2 DEF Write, WrittenIO, Data
  <2> QED
    BY <1>6, <1>7, <2>1
<1>9. IsRow(b) /\ Len(b) = Len(dsc.cparts[p].bytes)
  BY <1>2, <1>6, <1>7
<1>10. /\ ContentInvariant'
       /\ dsc'.cparts = SetPart(dsc.cparts, p, [dsc.cparts[p] EXCEPT !.bytes = b])
  BY <1>1, <1>8, <1>9, BytesStep
<1> QED
  BY <1>2, <1>4, <1>6, <1>7, <1>10

LEMMA CopyStep ==
  ASSUME ContentInvariant, NEW p \in 1 .. DeclCpartCnt(dsc.version), NEW c \in Copies,
         Copy(p, c[1], c[2], c[3])
  PROVE  /\ ContentInvariant'
         /\ \E rd, wr, sz \in Nat :
              /\ rd + sz <= PresentSz(dsc.cparts[p]) /\ wr + sz <= PresentSz(dsc.cparts[p])
              /\ dsc'.cparts = SetPart(dsc.cparts, p,
                   [dsc.cparts[p] EXCEPT
                      !.bytes = Pasted(dsc.cparts[p].bytes, dsc.cparts[p].bytes, rd, wr, sz)])
<1>1. PICK from, to, sz : from = c[1] /\ to = c[2] /\ sz = c[3]
  OBVIOUS
<1>2. from \in U32 /\ to \in U32 /\ sz \in U32
  BY <1>1, DescriptorContentAssumption
<1>3. sz \in Nat
  BY <1>2, IOAssumption DEF U32
<1>4. status = "open"
  BY DEF Copy
<1>5. PICK part, io : part = dsc.cparts[p] /\ io = CopiedIO(part, from, to)
  OBVIOUS
<1>6. PartIsWhole(part)
  BY <1>4, <1>5, PartsAreThere
<1>7. CanRead(io, sz) /\ CanWrite(io, sz)
  BY <1>1, <1>5 DEF Copy, CopiedIO
<1>8. PICK rd, wr \in Nat :
        /\ rd + sz <= PresentSz(part) /\ wr + sz <= PresentSz(part)
        /\ copy_into_self(io, sz).bytes = Pasted(part.bytes, part.bytes, rd, wr, sz)
        /\ IsRow(Pasted(part.bytes, part.bytes, rd, wr, sz))
        /\ Len(Pasted(part.bytes, part.bytes, rd, wr, sz)) = Len(part.bytes)
  <2>1. CanRead(io, sz)
    BY <1>7
  <2>2. CanWrite(io, sz)
    BY <1>7
  <2>3. from \in U32
    BY <1>2
  <2>4. to \in U32
    BY <1>2
  <2>5. io = CopiedIO(part, from, to)
    BY <1>5
  <2> QED
    BY ONLY <1>3, <1>6, <2>1, <2>2, <2>3, <2>4, <2>5, CopiedPart
<1>9. PICK b : b = Pasted(part.bytes, part.bytes, rd, wr, sz)
  OBVIOUS
<1>10. dsc' = [dsc EXCEPT !.cparts[p].bytes = b] /\ words' = << >> /\ UNCHANGED status
  <2>1. dsc' = [dsc EXCEPT !.cparts[p].bytes = copy_into_self(io, sz).bytes]
        /\ words' = << >> /\ UNCHANGED status
    BY <1>1, <1>5 DEF Copy, CopiedIO
  <2> QED
    BY <1>8, <1>9, <2>1
<1>11. IsRow(b) /\ Len(b) = Len(dsc.cparts[p].bytes)
  BY <1>5, <1>8, <1>9
<1>12. /\ ContentInvariant'
       /\ dsc'.cparts = SetPart(dsc.cparts, p, [dsc.cparts[p] EXCEPT !.bytes = b])
  BY <1>4, <1>10, <1>11, BytesStep
<1> QED
  BY <1>3, <1>5, <1>8, <1>9, <1>12

-----------------------------------------------------------------------------
(* What is read of a record *)

MkHdr(id, type, cparts, idata) == [id |-> id, type |-> type, cparts |-> cparts, idata |-> idata]

StoredRow(d) == SubSeq(StoredParts(d.cparts), 1, StoredCnt(IdataOf(d)))

LEMMA IdataIs ==
  ASSUME NEW d, DescriptorIsRight(d)
  PROVE  /\ Naturals(IdataOf(d)) /\ Len(IdataOf(d)) \in {1, 3}
         /\ Len(IdataOf(d)) = Len(d.fields) + Len(d.future_idata)
         /\ \A i \in 1 .. Len(d.fields) : Val(IdataOf(d), i) = d.fields[i]
         /\ Val(IdataOf(d), 1) \in Nat /\ Val(IdataOf(d), 2) \in Nat /\ Val(IdataOf(d), 3) \in Nat
<1>1. PICK f, g, i : f = d.fields /\ g = d.future_idata /\ i = IdataOf(d)
  OBVIOUS
<1>2. Naturals(f) /\ Naturals(g) /\ Len(i) \in {1, 3}
  BY <1>1 DEF DescriptorIsRight, DescriptorIsTyped
<1>3. /\ Naturals(f \o g) /\ Len(f \o g) = Len(f) + Len(g)
      /\ \A k \in 1 .. Len(f) : Val(f \o g, k) = f[k]
  BY <1>2, Vals
<1>4. i = f \o g
  BY <1>1 DEF IdataOf
<1>5. Naturals(i) /\ Len(i) = Len(f) + Len(g) /\ \A k \in 1 .. Len(f) : Val(i, k) = f[k]
  BY <1>3, <1>4
<1>6. Val(i, 1) \in Nat /\ Val(i, 2) \in Nat /\ Val(i, 3) \in Nat
  BY <1>5, ValIsNat
<1> QED
  BY <1>1, <1>2, <1>5, <1>6

LEMMA StoredRowIs ==
  ASSUME NEW d, DescriptorIsRight(d)
  PROVE  /\ StoredCnt(IdataOf(d)) = count_incompressible_cparts(StoredParts(d.cparts))
         /\ StoredCnt(IdataOf(d)) \in 0 .. Len(d.cparts)
         /\ IsRow(StoredRow(d)) /\ Len(StoredRow(d)) = StoredCnt(IdataOf(d))
         /\ \A p \in 1 .. StoredCnt(IdataOf(d)) : StoredRow(d)[p] = StoredPart(p, d.cparts[p])
<1>1. PICK c, i, s : c = d.cparts /\ i = IdataOf(d) /\ s = StoredParts(c)
  OBVIOUS
<1>2. DescriptorIsTyped(d)
  BY DEF DescriptorIsRight
<1>3. /\ HeaderRow(HeaderOf(d)) /\ HeaderOf(d) = MkHdr(d.id, d.type, s, i)
      /\ IsRow(s) /\ Len(s) = Len(c)
      /\ \A p \in 1 .. Len(c) : s[p] = StoredPart(p, c[p])
  BY <1>1, <1>2, HeaderIsRow DEF MkHdr, StoredPart
<1>4. PartsRow(s)
  BY <1>3 DEF HeaderRow, MkHdr
<1>5. PICK m \in {1, 2} : m = Len(c) /\ m = CpartCnt(d.version, i)
  BY <1>1 DEF DescriptorIsRight, CpartCnt
<1>6. PICK v1, v2, v3 \in Nat : v1 = Val(i, 1) /\ v2 = Val(i, 2) /\ v3 = Val(i, 3)
  BY <1>1, IdataIs
<1>7. \A p \in 1 .. m : s[p].csize = CsizeFor(i, p)
  <2> SUFFICES ASSUME NEW p \in 1 .. m PROVE s[p].csize = CsizeFor(i, p)
    OBVIOUS
  <2>1. c[p].csize = CsizeFor(i, p)
    BY <1>1, <1>5 DEF DescriptorIsRight, PartIsFor
  <2> QED
    BY <1>3, <1>5, <2>1 DEF StoredPart
<1>8. PICK n \in {0, 1, 2} : n = StoredCnt(i)
  BY DEF StoredCnt
<1>9. n <= m
  BY <1>5, <1>6, <1>8 DEF StoredCnt, CpartCnt
<1>10. EndsAt(s, n)
  <2>1. ASSUME n > 0 PROVE s[n].csize > 0
    <3>1. n \in 1 .. m
      BY <1>9, <2>1
    <3>2. CsizeFor(i, n) > 0
      BY <1>6, <1>8, <2>1 DEF StoredCnt, CsizeFor
    <3> QED
      BY <1>7, <3>1, <3>2
  <2>2. ASSUME NEW p \in n + 1 .. Len(s) PROVE s[p].csize = 0
    <3>1. p \in 1 .. m /\ p \in {1, 2} /\ p > n
      BY <1>3, <1>5, <2>2
    <3>2. CsizeFor(i, p) = 0
      BY <1>6, <1>8, <3>1 DEF StoredCnt, CsizeFor
    <3> QED
      BY <1>7, <3>1, <3>2
  <2> QED
    BY <2>1, <2>2 DEF EndsAt
<1>11. n = count_incompressible_cparts(s)
  <2>1. n \in 0 .. Len(s)
    BY <1>3, <1>5, <1>9
  <2> QED
    BY <1>4, <1>10, <2>1, CountIs
<1>12. PICK r : r = StoredRow(d)
  OBVIOUS
<1>13. r = SubSeq(s, 0 + 1, 0 + n)
  <2>1. 0 + 1 = 1 /\ 0 + n = n
    OBVIOUS
  <2> QED
    BY <1>1, <1>8, <1>12, <2>1 DEF StoredRow
<1>14. IsRow(r) /\ Len(r) = n /\ \A p \in 1 .. n : r[p] = s[0 + p]
  <2>1. n \in Nat /\ 0 \in Nat /\ 0 + n <= Len(s)
    BY <1>3, <1>5, <1>9
  <2>2. IsRow(s)
    BY <1>3
  <2>3. /\ IsRow(SubSeq(s, 0 + 1, 0 + n)) /\ Len(SubSeq(s, 0 + 1, 0 + n)) = n
        /\ \A p \in 1 .. n : SubSeq(s, 0 + 1, 0 + n)[p] = s[0 + p]
    BY ONLY <2>1, <2>2, SubRow
  <2> QED
    BY <1>13, <2>3
<1>15. ASSUME NEW p \in 1 .. n PROVE r[p] = StoredPart(p, c[p])
  <2>1. 0 + p = p /\ p \in 1 .. Len(c)
    BY <1>5, <1>9
  <2> QED
    BY <1>3, <1>14, <2>1
<1> QED
  BY <1>1, <1>5, <1>8, <1>9, <1>11, <1>12, <1>14, <1>15

\* What load_header_from finds in the record of a descriptor.
LEMMA RecordIsRead ==
  ASSUME NEW d, DescriptorIsRight(d), NEW stream, IsRow(stream),
         Holds(stream, 1, Words(HeaderOf(d)))
  PROVE  ReadHeader(stream, 1) =
           [hdr |-> MkHdr(d.id, d.type, StoredRow(d), IdataOf(d)),
            at |-> 1 + Footprint(HeaderOf(d))]
<1>1. DescriptorIsTyped(d)
  BY DEF DescriptorIsRight
<1>2. PICK hdr : hdr = HeaderOf(d)
  OBVIOUS
<1>3. /\ HeaderRow(hdr)
      /\ hdr = MkHdr(d.id, d.type, StoredParts(d.cparts), IdataOf(d))
  BY <1>1, <1>2, HeaderIsRow DEF MkHdr
<1>4. /\ hdr.id = d.id /\ hdr.type = d.type /\ hdr.cparts = StoredParts(d.cparts)
      /\ hdr.idata = IdataOf(d)
  BY <1>3 DEF MkHdr
<1>5. Holds(stream, 1, Words(hdr)) /\ 1 \in Nat
  BY <1>2
<1>6. ReadHeader(stream, 1) =
        [hdr |-> [id |-> hdr.id, type |-> hdr.type,
                  cparts |-> SubSeq(hdr.cparts, 1, count_incompressible_cparts(hdr.cparts)),
                  idata |-> hdr.idata],
         at |-> 1 + Footprint(hdr)]
  BY <1>3, <1>5, DescriptorIsReadBack
<1>7. SubSeq(hdr.cparts, 1, count_incompressible_cparts(hdr.cparts)) = StoredRow(d)
  BY <1>4, StoredRowIs DEF StoredRow
<1> QED
  BY <1>2, <1>4, <1>6, <1>7 DEF MkHdr

LEMMA RecordIsGood ==
  ASSUME NEW d, DescriptorIsRight(d),
         \A p \in 1 .. Len(d.cparts) : d.cparts[p].csize <= d.cparts[p].space,
         NEW hdr, hdr = MkHdr(d.id, d.type, StoredRow(d), IdataOf(d))
  PROVE  HeaderIsRight(hdr) /\ HeaderIsOf(hdr, d)
<1>1. PICK c, i, r, n : c = d.cparts /\ i = IdataOf(d) /\ r = StoredRow(d) /\ n = StoredCnt(i)
  OBVIOUS
<1>2. hdr.id = d.id /\ hdr.type = d.type /\ hdr.cparts = r /\ hdr.idata = i
  BY <1>1 DEF MkHdr
<1>3. /\ d.id \in Nat /\ d.type \in Nat /\ Naturals(i) /\ Len(i) \in {1, 3}
  BY <1>1, IdataIs DEF DescriptorIsRight, DescriptorIsTyped
<1>4. /\ IsRow(r) /\ Len(r) = n /\ n \in 0 .. Len(c)
      /\ \A p \in 1 .. n : r[p] = StoredPart(p, c[p])
  BY <1>1, StoredRowIs
<1>5. Len(c) \in Nat
  BY <1>1, RowLen DEF DescriptorIsRight, DescriptorIsTyped
<1>6. ASSUME NEW p \in 1 .. n
      PROVE  /\ p \in 1 .. Len(c) /\ r[p] = StoredPart(p, c[p])
             /\ r[p].csize = CsizeFor(i, p) /\ r[p].csize <= SpaceOf(r[p].segm)
  <2>1. p \in 1 .. Len(c) /\ p \in Nat
    BY <1>4, <1>5
  <2>2. PICK part, segm : part = c[p] /\ segm = SegmOf(p, part)
    OBVIOUS
  <2>3. PartTypes(part) /\ part.csize = CsizeFor(i, p)
    BY <1>1, <2>1, <2>2 DEF DescriptorIsRight, DescriptorIsTyped, PartIsFor
  <2>4. SpaceOf(segm) = part.space
    BY <2>1, <2>2, <2>3, SegmOfPart
  <2>5. r[p] = [csize |-> part.csize, segm |-> segm]
    BY <1>4, <2>2 DEF StoredPart
  <2>6. r[p].csize = part.csize /\ r[p].segm = segm
    BY <2>5
  <2>7. part.csize <= part.space
    BY <1>1, <2>1, <2>2
  <2> QED
    BY <1>4, <2>1, <2>3, <2>4, <2>6, <2>7
<1>7. HeaderIsRight(hdr)
  BY <1>1, <1>2, <1>3, <1>4, <1>6 DEF HeaderIsRight
<1>8. ASSUME NEW p \in 1 .. Len(c), p > n PROVE c[p].csize = 0
  <2>1. c[p].csize = CsizeFor(i, p)
    BY <1>1 DEF DescriptorIsRight, PartIsFor
  <2>2. PICK m \in {1, 2} : m = Len(c)
    BY <1>1 DEF DescriptorIsRight, CpartCnt
  <2>3. p \in {1, 2}
    <3>1. p \in 1 .. m
      BY <2>2
    <3> QED
      BY <3>1
  <2>4. PICK v1, v2, v3 \in Nat : v1 = Val(i, 1) /\ v2 = Val(i, 2) /\ v3 = Val(i, 3)
    BY <1>1, IdataIs
  <2> QED
    BY <1>1, <1>8, <2>1, <2>3, <2>4 DEF StoredCnt, CsizeFor
<1>9. HeaderIsOf(hdr, d)
  BY <1>1, <1>2, <1>4, <1>6, <1>8 DEF HeaderIsOf
<1> QED
  BY <1>7, <1>9

LEMMA RowIsHeld ==
  ASSUME NEW s, IsRow(s)
  PROVE  Holds(s, 1, s)
<1>1. Len(s) \in Nat
  BY RowLen
<1>2. ASSUME NEW i \in 1 .. Len(s) PROVE 1 + i - 1 \in 1 .. Len(s) /\ s[1 + i - 1] = s[i]
  <2>1. 1 + i - 1 = i
    BY <1>1
  <2> QED
    BY <2>1
<1> QED
  BY <1>2 DEF Holds

\* update_header and write_struct_into: the record is of the descriptor.
LEMMA SyncStep ==
  ASSUME ContentInvariant, Sync
  PROVE  ContentInvariant'
<1>1. DescriptorIsRight(dsc) /\ DescriptorIsTyped(dsc)
  BY DEF ContentInvariant, DescriptorIsRight
<1>2. PICK w : w = Words(HeaderOf(dsc))
  OBVIOUS
<1>3. IsRow(w)
  BY <1>1, <1>2, HeaderIsRow, WordsRow
<1>4. Holds(w, 1, w)
  BY <1>3, RowIsHeld
<1>5. PICK hdr : hdr = MkHdr(dsc.id, dsc.type, StoredRow(dsc), IdataOf(dsc))
  OBVIOUS
<1>6. ReadHeader(w, 1).hdr = hdr
  <2>1. Holds(w, 1, Words(HeaderOf(dsc)))
    BY <1>2, <1>4
  <2>2. ReadHeader(w, 1) = [hdr |-> MkHdr(dsc.id, dsc.type, StoredRow(dsc), IdataOf(dsc)),
                            at |-> 1 + Footprint(HeaderOf(dsc))]
    BY <1>1, <1>3, <2>1, RecordIsRead
  <2> QED
    BY <1>5, <2>2
<1>7. \A p \in 1 .. Len(dsc.cparts) : dsc.cparts[p].csize <= dsc.cparts[p].space
  <2>1. DOMAIN dsc.cparts = 1 .. Len(dsc.cparts)
    BY <1>1, RowLen DEF DescriptorIsTyped
  <2> QED
    BY <2>1 DEF Sync, chk_content_parts_consistency
<1>8. HeaderIsRight(hdr) /\ HeaderIsOf(hdr, dsc)
  BY <1>1, <1>5, <1>7, RecordIsGood
<1>9. words' = w /\ dsc' = dsc /\ status' = status
  BY <1>2 DEF Sync
<1>10. RecordIsRight'
  BY <1>6, <1>8, <1>9 DEF RecordIsRight, Stored
<1> QED
  BY <1>9, <1>10 DEF ContentInvariant

-----------------------------------------------------------------------------
(* What is loaded of a header *)

\* The numbers of the internal data that a version does not know of.
LaterThan(idata, known) ==
  IF Len(idata) > known THEN Len(idata) - known ELSE 0

LEMMA LaterNumbers ==
  ASSUME NEW idata, Naturals(idata), NEW known \in Nat
  PROVE  /\ Naturals(SubSeq(idata, known + 1, Len(idata)))
         /\ Len(SubSeq(idata, known + 1, Len(idata))) = LaterThan(idata, known)
         /\ \A i \in 1 .. LaterThan(idata, known) :
              SubSeq(idata, known + 1, Len(idata))[i] = idata[known + i]
<1>1. IsRow(idata) /\ \A i \in 1 .. Len(idata) : idata[i] \in Nat
  BY DEF Naturals
<1>2. PICK L \in Nat : L = Len(idata)
  BY <1>1, RowLen
<1>3. PICK s : s = SubSeq(idata, known + 1, L)
  OBVIOUS
<1>4. CASE L > known
  <2>1. PICK n \in Nat : n = L - known /\ known + n = L
    BY <1>4
  <2>2. known + n <= Len(idata)
    BY <1>2, <2>1
  <2>3. /\ IsRow(SubSeq(idata, known + 1, known + n))
        /\ Len(SubSeq(idata, known + 1, known + n)) = n
        /\ \A i \in 1 .. n : SubSeq(idata, known + 1, known + n)[i] = idata[known + i]
    BY <1>1, <2>2, SubRow
  <2>4. IsRow(s) /\ Len(s) = n /\ \A i \in 1 .. n : s[i] = idata[known + i]
    BY <1>3, <2>1, <2>3
  <2>5. LaterThan(idata, known) = n
    BY <1>2, <1>4, <2>1 DEF LaterThan
  <2>6. ASSUME NEW i \in 1 .. n PROVE s[i] \in Nat
    <3>1. known + i \in 1 .. L
      BY <2>1
    <3> QED
      BY <1>1, <1>2, <2>4, <3>1
  <2> QED
    BY <1>2, <1>3, <2>4, <2>5, <2>6 DEF Naturals
<1>5. CASE ~ (L > known)
  <2>1. LaterThan(idata, known) = 0
    BY <1>2, <1>5 DEF LaterThan
  <2>2. s = << >>
    <3>1. known + 1 \in Int /\ L \in Int /\ L < known + 1
      BY <1>5
    <3> QED
      BY <1>3, <3>1, SubSeqEmpty
  <2>3. IsRow(s) /\ Len(s) = 0
    BY <2>2, ShortRows
  <2> QED
    BY <1>2, <1>3, <2>1, <2>3 DEF Naturals
<1> QED
  BY <1>4, <1>5

\* A part of d, for the version that loads it.
LoadedAs(version, idata, p, part) ==
  MkPart(part.csize, HiddenFor(version, idata, p), part.space, part.bytes)

LoadedFrom(e, version, hdr, d) ==
  /\ e = MkDsc(version, hdr.id, hdr.type, e.fields, e.future_idata, e.cparts)
  /\ IsRow(e.fields) /\ Len(e.fields) = FieldCnt(version)
  /\ \A i \in 1 .. FieldCnt(version) : e.fields[i] = Val(hdr.idata, i)
  /\ e.future_idata = SubSeq(hdr.idata, FieldCnt(version) + 1, Len(hdr.idata))
  /\ IsRow(e.cparts) /\ Len(e.cparts) = CpartCnt(version, hdr.idata)
  /\ \A p \in 1 .. CpartCnt(version, hdr.idata) :
       e.cparts[p] = IF p <= StoredCnt(hdr.idata)
                     THEN LoadedAs(version, hdr.idata, p, d.cparts[p]) ELSE NoPart

LEMMA LoadedIs ==
  ASSUME NEW hdr, HeaderIsRight(hdr), NEW d, DescriptorIsRight(d), HeaderIsOf(hdr, d),
         NEW version \in Versions, NEW e, e = Loaded(version, hdr, d)
  PROVE  LoadedFrom(e, version, hdr, d)
<1>1. PICK i, h, c : i = hdr.idata /\ h = hdr.cparts /\ c = d.cparts
  OBVIOUS
<1>2. PICK n \in {0, 1, 2} : n = StoredCnt(i) /\ n = Len(h)
  BY <1>1 DEF HeaderIsRight, StoredCnt
<1>3. PICK known \in {1, 3} : known = FieldCnt(version)
  BY DEF FieldCnt
<1>4. PICK L \in {1, 3} : L = Len(i)
  BY <1>1 DEF HeaderIsRight
<1>5. PICK v1, v2, v3 \in Nat : v1 = Val(i, 1) /\ v2 = Val(i, 2) /\ v3 = Val(i, 3)
  <2>1. Naturals(i)
    BY <1>1 DEF HeaderIsRight
  <2>2. Val(i, 1) \in Nat /\ Val(i, 2) \in Nat /\ Val(i, 3) \in Nat
    BY <2>1, ValIsNat
  <2> QED
    BY <2>2
<1>6. PICK f : f = [k \in 1 .. known |-> IF k <= L THEN i[k] ELSE 0]
  OBVIOUS
<1>7. /\ IsRow(f) /\ Len(f) = known
      /\ \A k \in 1 .. known : f[k] = Val(i, k)
  <2>1. \A k \in 1 .. known : f[k] = Val(i, k)
    BY <1>4, <1>6 DEF Val
  <2>2. f = [k \in 1 .. known |-> f[k]] /\ known \in Nat
    BY <1>6
  <2> QED
    BY <2>1, <2>2, RowFacts
<1>8. PICK m \in {1, 2} : m = CpartCnt(version, i)
  BY DEF CpartCnt
<1>9. m = (IF n < DeclCpartCnt(version) THEN DeclCpartCnt(version) ELSE n)
  BY <1>2, <1>5, <1>8 DEF CpartCnt, StoredCnt, DeclCpartCnt, Versions
<1>10. PICK k : k = [p \in 1 .. m |-> IF p > n THEN NoPart
                       ELSE LoadedPart(h[p], UsedSpace(version, f, p, h[p].csize), c[p].bytes)]
  OBVIOUS
<1>11. e = MkDsc(version, hdr.id, hdr.type, f, SubSeq(i, known + 1, L), k)
  BY <1>1, <1>2, <1>3, <1>4, <1>6, <1>9, <1>10 DEF Loaded, MkDsc
<1>12. ASSUME NEW p \in 1 .. m
       PROVE  k[p] = IF p <= n THEN LoadedAs(version, i, p, c[p]) ELSE NoPart
  <2>1. CASE p <= n
    <3>1. PICK part : part = c[p]
      OBVIOUS
    <3>2. p \in 1 .. Len(h) /\ p \in {1, 2} /\ p \in Nat
      BY <1>2, <2>1
    <3>3. h[p] = StoredPart(p, part) /\ p \in 1 .. Len(c)
      BY <1>1, <3>1, <3>2 DEF HeaderIsOf
    <3>4. PartTypes(part)
      BY <1>1, <3>1, <3>3 DEF DescriptorIsRight, DescriptorIsTyped
    <3>5. h[p].csize = part.csize
      BY <3>3 DEF StoredPart
    <3>6. part.csize = CsizeFor(i, p)
      BY <1>1, <3>2, <3>5 DEF HeaderIsRight
    <3>7. PICK present : present = UsedSpace(version, f, p, part.csize)
      OBVIOUS
    <3>8. k[p] = LoadedPart([csize |-> part.csize, segm |-> SegmOf(p, part)], present, part.bytes)
      <4>1. k[p] = LoadedPart(h[p], UsedSpace(version, f, p, h[p].csize), c[p].bytes)
        BY <1>10, <2>1, <1>2
      <4> QED
        BY <3>1, <3>3, <3>5, <3>7, <4>1 DEF StoredPart
    <3>9. k[p] = MkPart(part.csize, part.csize - present, part.space, part.bytes)
      BY <3>2, <3>4, <3>8, PartIsLoaded
    <3>10. part.csize - present = HiddenFor(version, i, p)
      <4>1. CASE version = "old"
        <5>1. f[1] = v1
          BY <1>3, <1>5, <1>7, <4>1 DEF FieldCnt
        <5> QED
          BY <1>5, <3>2, <3>6, <3>7, <4>1, <5>1 DEF UsedSpace, HiddenFor, CsizeFor
      <4>2. CASE version = "new"
        <5>1. f[1] = v1 /\ f[2] = v2 /\ f[3] = v3
          BY <1>3, <1>5, <1>7, <4>2 DEF FieldCnt
        <5> QED
          BY <1>5, <3>2, <3>6, <3>7, <4>2, <5>1 DEF UsedSpace, HiddenFor, CsizeFor
      <4> QED
        BY <4>1, <4>2 DEF Versions
    <3> QED
      BY <2>1, <3>1, <3>9, <3>10 DEF LoadedAs
  <2>2. CASE ~ (p <= n)
    BY <1>2, <1>10, <2>2
  <2> QED
    BY <2>1, <2>2
<1>13. IsRow(k) /\ Len(k) = m
  <2>1. k = [p \in 1 .. m |-> k[p]] /\ m \in Nat
    BY <1>10
  <2> QED
    BY <2>1, RowFacts
<1>14. e.fields = f /\ e.future_idata = SubSeq(i, known + 1, L) /\ e.cparts = k
  BY <1>11 DEF MkDsc
<1> QED
  BY <1>1, <1>2, <1>3, <1>4, <1>7, <1>8, <1>11, <1>12, <1>13, <1>14 DEF LoadedFrom

LEMMA LoadedIsRight ==
  ASSUME NEW hdr, HeaderIsRight(hdr), NEW d, DescriptorIsRight(d), PartsAreWhole(d.cparts),
         HeaderIsOf(hdr, d), NEW version \in Versions, NEW e, LoadedFrom(e, version, hdr, d)
  PROVE  DescriptorIsRight(e) /\ PartsAreWhole(e.cparts) /\ HeaderIsOf(hdr, e)
<1>1. PICK i, h, c, f, g, k : /\ i = hdr.idata /\ h = hdr.cparts /\ c = d.cparts
                              /\ f = e.fields /\ g = e.future_idata /\ k = e.cparts
  OBVIOUS
<1>2. PICK n \in {0, 1, 2} : n = StoredCnt(i) /\ n = Len(h)
  BY <1>1 DEF HeaderIsRight, StoredCnt
<1>3. PICK known \in {1, 3} : known = FieldCnt(version)
  BY DEF FieldCnt
<1>4. PICK L \in {1, 3} : L = Len(i)
  BY <1>1 DEF HeaderIsRight
<1>5. Naturals(i) /\ hdr.id \in Nat /\ hdr.type \in Nat
  BY <1>1 DEF HeaderIsRight
<1>6. PICK v1, v2, v3 \in Nat : v1 = Val(i, 1) /\ v2 = Val(i, 2) /\ v3 = Val(i, 3)
  <2>1. Val(i, 1) \in Nat /\ Val(i, 2) \in Nat /\ Val(i, 3) \in Nat
    BY <1>5, ValIsNat
  <2> QED
    BY <2>1
<1>7. PICK m \in {1, 2} : m = CpartCnt(version, i)
  BY DEF CpartCnt
<1>8. /\ e = MkDsc(version, hdr.id, hdr.type, f, g, k)
      /\ IsRow(f) /\ Len(f) = known /\ \A q \in 1 .. known : f[q] = Val(i, q)
      /\ g = SubSeq(i, known + 1, L) /\ IsRow(k) /\ Len(k) = m
      /\ \A p \in 1 .. m : k[p] = IF p <= n THEN LoadedAs(version, i, p, c[p]) ELSE NoPart
  BY <1>1, <1>2, <1>3, <1>4, <1>7 DEF LoadedFrom
<1>9. /\ e.version = version /\ e.id = hdr.id /\ e.type = hdr.type
  BY <1>8 DEF MkDsc
<1>10. Naturals(f)
  <2>1. \A q \in 1 .. known : f[q] \in Nat
    BY <1>6, <1>8
  <2> QED
    BY <1>8, <2>1 DEF Naturals
<1>11. /\ Naturals(g) /\ Len(g) = LaterThan(i, known)
       /\ \A q \in 1 .. LaterThan(i, known) : g[q] = i[known + q]
  <2>1. known \in Nat
    OBVIOUS
  <2>2. /\ Naturals(SubSeq(i, known + 1, Len(i)))
        /\ Len(SubSeq(i, known + 1, Len(i))) = LaterThan(i, known)
        /\ \A q \in 1 .. LaterThan(i, known) : SubSeq(i, known + 1, Len(i))[q] = i[known + q]
    BY <1>5, <2>1, LaterNumbers
  <2> QED
    BY <1>4, <1>8, <2>2
<1>12. PICK j : j = f \o g
  OBVIOUS
<1>13. /\ Naturals(j) /\ Len(j) = known + LaterThan(i, known)
       /\ \A q \in 1 .. known : Val(j, q) = f[q]
       /\ \A q \in Nat : q > known => Val(j, q) = Val(g, q - known)
  <2>1. /\ Naturals(f \o g) /\ Len(f \o g) = Len(f) + Len(g)
        /\ \A q \in 1 .. Len(f) : Val(f \o g, q) = f[q]
        /\ \A q \in Nat : q > Len(f) => Val(f \o g, q) = Val(g, q - Len(f))
    BY <1>10, <1>11, Vals
  <2> QED
    BY <1>8, <1>11, <1>12, <2>1
<1>14. PICK late \in Nat : late = LaterThan(i, known) /\ late = IF L > known THEN L - known ELSE 0
  <2>1. PICK late \in Nat : late = IF L > known THEN L - known ELSE 0
    OBVIOUS
  <2>2. late = LaterThan(i, known)
    BY <1>4, <2>1 DEF LaterThan
  <2> QED
    BY <2>1, <2>2
<1>15. Len(j) \in {1, 3}
  BY <1>13, <1>14
<1>16. ASSUME NEW q \in {1, 2, 3} PROVE Val(j, q) = Val(i, q)
  <2>1. CASE q <= known
    BY <1>8, <1>13, <2>1
  <2>2. CASE ~ (q <= known)
    <3>1. known = 1 /\ q - known \in Nat /\ known + (q - known) = q
      BY <2>2
    <3>2. Val(j, q) = Val(g, q - known)
      BY <1>13, <2>2
    <3>3. CASE q <= L
      <4>1. L = 3 /\ late = 2 /\ q - known \in 1 .. late /\ q - known <= Len(g)
        BY <1>11, <1>14, <2>2, <3>1, <3>3
      <4>2. g[q - known] = i[q]
        BY <1>11, <1>14, <3>1, <4>1
      <4> QED
        BY <1>4, <3>2, <3>3, <4>1, <4>2 DEF Val
    <3>4. CASE ~ (q <= L)
      <4>1. ~ (q - known <= Len(g))
        BY <1>11, <1>14, <2>2, <3>1, <3>4
      <4> QED
        BY <1>4, <3>2, <3>4, <4>1 DEF Val
    <3> QED
      BY <3>3, <3>4
  <2> QED
    BY <2>1, <2>2
<1>17. Val(j, 1) = v1 /\ Val(j, 2) = v2 /\ Val(j, 3) = v3
  BY <1>6, <1>16
<1>18. IdataOf(e) = j
  BY <1>1, <1>12 DEF IdataOf
<1>19. ASSUME NEW p \in 1 .. m
       PROVE  /\ PartIsWhole(k[p]) /\ PartIsFor(version, j, p, k[p])
              /\ p <= n => p \in 1 .. Len(c) /\ h[p] = StoredPart(p, c[p])
                           /\ StoredPart(p, k[p]) = StoredPart(p, c[p])
  <2>1. p \in {1, 2}
    OBVIOUS
  <2>2. CsizeFor(j, p) = CsizeFor(i, p) /\ HiddenFor(version, j, p) = HiddenFor(version, i, p)
    BY <1>6, <1>17 DEF CsizeFor, HiddenFor
  <2>3. HiddenFor(version, i, p) \in Nat /\ HiddenFor(version, i, p) <= CsizeFor(i, p)
    BY <1>6 DEF CsizeFor, HiddenFor
  <2>4. CASE p <= n
    <3>1. p \in 1 .. Len(h)
      BY <1>2, <2>4
    <3>2. PICK part, r : part = c[p] /\ r = k[p]
      OBVIOUS
    <3>3. p \in 1 .. Len(c) /\ h[p] = StoredPart(p, part)
      BY <1>1, <3>1, <3>2 DEF HeaderIsOf
    <3>4. PartIsWhole(part)
      BY <1>1, <3>2, <3>3 DEF PartsAreWhole
    <3>5. part.csize = CsizeFor(i, p)
      <4>1. h[p].csize = part.csize
        BY <3>3 DEF StoredPart
      <4> QED
        BY <1>1, <3>1, <4>1 DEF HeaderIsRight
    <3>6. PICK hidden \in Nat : hidden = HiddenFor(version, i, p)
      BY <2>3
    <3>7. r = MkPart(part.csize, hidden, part.space, part.bytes)
      BY <1>8, <2>4, <3>2, <3>6 DEF LoadedAs
    <3>8. r.csize = part.csize /\ r.future_csize = hidden /\ r.space = part.space /\ r.bytes = part.bytes
      BY <3>7 DEF MkPart
    <3>9. hidden <= part.csize
      BY <2>3, <3>5, <3>6
    <3>10. PartTypes(r)
      BY <3>4, <3>7, <3>8, <3>9 DEF PartIsWhole, PartTypes
    <3>11. ASSUME r.csize = 0 PROVE r = NoPart
      <4>1. part = NoPart /\ hidden = 0
        BY <3>4, <3>6, <3>8, <3>9, <3>11 DEF PartIsWhole
      <4>2. part = MkPart(part.csize, part.future_csize, part.space, part.bytes)
        BY <3>4 DEF PartIsWhole, PartTypes
      <4>3. part.future_csize = 0
        BY <4>1 DEF NoPart
      <4>4. r = part
        BY <3>7, <4>1, <4>2, <4>3
      <4> QED
        BY <4>1, <4>4
    <3>12. PartIsWhole(r)
      BY <3>4, <3>8, <3>10, <3>11 DEF PartIsWhole
    <3>13. PartIsFor(version, j, p, r)
      BY <2>2, <3>5, <3>6, <3>8 DEF PartIsFor
    <3>14. StoredPart(p, r) = StoredPart(p, part)
      BY <3>8 DEF StoredPart, SegmOf
    <3> QED
      BY <3>2, <3>3, <3>12, <3>13, <3>14
  <2>5. CASE ~ (p <= n)
    <3>1. k[p] = NoPart
      BY <1>8, <2>5
    <3>2. CsizeFor(i, p) = 0
      BY <1>2, <1>6, <2>1, <2>5 DEF StoredCnt, CsizeFor
    <3>3. HiddenFor(version, i, p) = 0
      BY <2>3, <3>2
    <3>4. PartIsWhole(NoPart) /\ NoPart.csize = 0 /\ NoPart.future_csize = 0
      BY NoPartIsWhole
    <3> QED
      BY <2>2, <2>5, <3>1, <3>2, <3>3, <3>4 DEF PartIsFor
  <2> QED
    BY <2>4, <2>5
<1>20. DescriptorIsTyped(e)
  <2>1. \A p \in 1 .. m : PartTypes(k[p])
    BY <1>19 DEF PartIsWhole
  <2>2. e = MkDsc(e.version, e.id, e.type, e.fields, e.future_idata, e.cparts)
    BY <1>1, <1>8, <1>9
  <2> QED
    BY <1>1, <1>3, <1>5, <1>8, <1>9, <1>10, <1>11, <2>1, <2>2 DEF DescriptorIsTyped, MkDsc
<1>21. m = CpartCnt(version, j)
  BY <1>6, <1>7, <1>17 DEF CpartCnt
<1>22. DescriptorIsRight(e)
  BY <1>1, <1>8, <1>9, <1>15, <1>18, <1>19, <1>20, <1>21 DEF DescriptorIsRight
<1>23. PartsAreWhole(k)
  BY <1>8, <1>19 DEF PartsAreWhole
<1>24. n <= m
  BY <1>2, <1>6, <1>7 DEF StoredCnt, CpartCnt
<1>25. HeaderIsOf(hdr, e)
  <2>1. ASSUME NEW p \in 1 .. Len(h) PROVE p \in 1 .. Len(k) /\ h[p] = StoredPart(p, k[p])
    <3>1. p \in 1 .. m /\ p <= n
      BY <1>2, <1>24
    <3>2. h[p] = StoredPart(p, k[p])
      BY <1>19, <3>1
    <3> QED
      BY <1>8, <3>1, <3>2
  <2>2. ASSUME NEW p \in 1 .. Len(k), p > Len(h) PROVE k[p].csize = 0
    <3>1. p \in 1 .. m /\ ~ (p <= n)
      BY <1>2, <1>8, <2>2
    <3>2. k[p] = NoPart
      BY <1>8, <3>1
    <3> QED
      BY <3>2, NoPartIsWhole
  <2> QED
    BY <1>1, <2>1, <2>2 DEF HeaderIsOf
<1> QED
  BY <1>1, <1>22, <1>23, <1>25

LEMMA ReopenStep ==
  ASSUME ContentInvariant, NEW version \in Versions, Reopen(version)
  PROVE  /\ ContentInvariant'
         /\ LoadedFrom(dsc', version, Stored, dsc)
         /\ HeaderIsRight(Stored) /\ HeaderIsOf(Stored, dsc)
<1>1. /\ status = "open" /\ words # << >> /\ dsc' = Loaded(version, ReadHeader(words, 1).hdr, dsc)
      /\ words' = words /\ status' = status
  BY DEF Reopen
<1>2. /\ DescriptorIsRight(dsc) /\ PartsAreWhole(dsc.cparts)
      /\ HeaderIsRight(Stored) /\ HeaderIsOf(Stored, dsc)
  BY <1>1 DEF ContentInvariant, RecordIsRight
<1>3. PICK hdr, e : hdr = Stored /\ e = dsc'
  OBVIOUS
<1>4. e = Loaded(version, hdr, dsc)
  BY <1>1, <1>3 DEF Stored
<1>5. LoadedFrom(e, version, hdr, dsc)
  BY <1>2, <1>3, <1>4, LoadedIs
<1>6. DescriptorIsRight(e) /\ PartsAreWhole(e.cparts) /\ HeaderIsOf(hdr, e)
  BY <1>2, <1>3, <1>5, LoadedIsRight
<1>7. Stored' = Stored
  BY <1>1 DEF Stored
<1>8. ContentInvariant'
  BY <1>1, <1>2, <1>3, <1>6, <1>7 DEF ContentInvariant, RecordIsRight
<1> QED
  BY <1>2, <1>3, <1>5, <1>8

LEMMA RenewStep ==
  ASSUME NEW d \in NewDescriptors, Renew(d)
  PROVE  ContentInvariant'
<1>1. PICK v \in Versions, k \in Kinds : d = NewDescriptor(v, k[1], k[2])
  BY DEF NewDescriptors
<1>2. k[1] \in Nat /\ k[2] \in Nat
  BY DescriptorContentAssumption
<1>3. DescriptorIsRight(d) /\ PartsAreWhole(d.cparts)
  BY <1>1, <1>2, NewIsRight
<1> QED
  BY <1>3 DEF Renew, ContentInvariant

LEMMA NextIsRight ==
  ASSUME ContentInvariant, [Next]_vars
  PROVE  ContentInvariant'
<1>1. CASE UNCHANGED vars
  BY <1>1 DEF vars, ContentInvariant, RecordIsRight, Stored
<1>2. ASSUME NEW p \in 1 .. DeclCpartCnt(dsc.version), NEW fields \in NewFields(p),
             Resize(p, fields)
      PROVE  ContentInvariant'
  BY <1>2, ResizeStep
<1>3. ASSUME NEW p \in 1 .. DeclCpartCnt(dsc.version), NEW fields \in NewFields(p),
             ResizeThrows(p, fields)
      PROVE  ContentInvariant'
  BY <1>3, ResizeThrowsStep
<1>4. ASSUME NEW p \in 1 .. DeclCpartCnt(dsc.version), NEW limit \in 0 .. 1, NEW pos \in SeekPos,
             NEW way \in Ways, NEW sz \in WriteSzs, Write(p, limit, pos, way, sz)
      PROVE  ContentInvariant'
  BY <1>4, WriteStep
<1>5. ASSUME NEW p \in 1 .. DeclCpartCnt(dsc.version), NEW c \in Copies, Copy(p, c[1], c[2], c[3])
      PROVE  ContentInvariant'
  BY <1>5, CopyStep
<1>6. CASE Sync
  BY <1>6, SyncStep
<1>7. ASSUME NEW version \in Versions, Reopen(version)
      PROVE  ContentInvariant'
  BY <1>7, ReopenStep
<1>8. ASSUME NEW d \in NewDescriptors, Renew(d)
      PROVE  ContentInvariant'
  BY <1>8, RenewStep
<1> QED
  BY <1>1, <1>2, <1>3, <1>4, <1>5, <1>6, <1>7, <1>8 DEF Next

-----------------------------------------------------------------------------
(* The theorems *)

THEOREM ContentIsInvariant == Spec => []ContentInvariant
<1>1. Init => ContentInvariant
  BY InitIsRight
<1>2. ContentInvariant /\ [Next]_vars => ContentInvariant'
  BY NextIsRight
<1> QED
  BY <1>1, <1>2, PTL DEF Spec

(***************************************************************************)
(* Every part has a space, and the bytes of it, for what its header counts *)
(* and for nothing else, unless a resize threw; and what the programs know *)
(* of a part is what they gave it, whatever they did to it before, and     *)
(* whatever the versions that did it (descriptor.cpp).                     *)
(***************************************************************************)
THEOREM DescriptorContentTypes == Spec => []TypeOK
<1>1. ContentInvariant => TypeOK
  <2> SUFFICES ASSUME ContentInvariant PROVE TypeOK
    OBVIOUS
  <2>1. DescriptorIsRight(dsc) /\ DescriptorIsTyped(dsc) /\ (status = "open" => PartsAreWhole(dsc.cparts))
    BY DEF ContentInvariant, DescriptorIsRight
  <2>2. PICK c : c = dsc.cparts
    OBVIOUS
  <2>3. DOMAIN c = 1 .. Len(c)
    BY <2>1, <2>2, RowLen DEF DescriptorIsTyped
  <2>4. ASSUME NEW p \in 1 .. Len(c) PROVE Len(c[p].bytes) = c[p].space
    BY <2>1, <2>2 DEF DescriptorIsTyped, PartTypes
  <2>5. ASSUME NEW p \in 1 .. Len(c), status = "open"
        PROVE  /\ c[p].space = AllocSz(c[p].csize)
               /\ PresentSz(c[p]) = UsedSpace(dsc.version, dsc.fields, p, c[p].csize)
               /\ c[p].future_csize <= c[p].csize /\ c[p].csize <= c[p].space
               /\ c[p].csize <= MaxCsize
    <3>1. PICK part : part = c[p]
      OBVIOUS
    <3>2. PartIsWhole(part)
      BY <2>1, <2>2, <2>5, <3>1 DEF PartsAreWhole
    <3>3. /\ part.space = AllocSz(part.csize) /\ part.csize \in Nat
          /\ part.future_csize <= part.csize /\ part.csize <= MaxCsize
      BY <3>2 DEF PartIsWhole, PartTypes
    <3>4. part.csize <= part.space
      BY <3>3, AllocSzFacts
    <3>5. UsedSpace(dsc.version, dsc.fields, p, part.csize) = part.csize - part.future_csize
      BY <2>1, <2>2, <3>1, UsedIs
    <3> QED
      BY <3>1, <3>3, <3>4, <3>5 DEF PresentSz
  <2>6. status = "open" => PartsFit
    BY <2>2, <2>3, <2>5 DEF PartsFit, chk_content_parts_consistency
  <2>7. /\ status \in {"open", "broken"} /\ dsc.version \in Versions
        /\ Len(dsc.fields) = FieldCnt(dsc.version)
    BY <2>1 DEF ContentInvariant, DescriptorIsTyped
  <2> QED
    BY <2>2, <2>3, <2>4, <2>5, <2>6, <2>7 DEF TypeOK
<1> QED
  BY <1>1, ContentIsInvariant, PTL

\* The version that stored a descriptor finds the same in what it stored.
LEMMA LoadedIsSame ==
  ASSUME NEW d, DescriptorIsRight(d), PartsAreWhole(d.cparts),
         NEW hdr, hdr = MkHdr(d.id, d.type, StoredRow(d), IdataOf(d))
  PROVE  Loaded(d.version, hdr, d) = d
<1>1. PICK v, i, c, f, g, n : /\ v = d.version /\ i = IdataOf(d) /\ c = d.cparts
                              /\ f = d.fields /\ g = d.future_idata /\ n = StoredCnt(i)
  OBVIOUS
<1>2. /\ v \in Versions /\ Naturals(f) /\ Len(f) = FieldCnt(v) /\ Naturals(g)
      /\ IsRow(c) /\ Len(c) = CpartCnt(v, i) /\ d = MkDsc(v, d.id, d.type, f, g, c)
  BY <1>1 DEF DescriptorIsRight, DescriptorIsTyped, MkDsc
<1>3. \A p \in 1 .. Len(c) : c[p].csize <= c[p].space
  <2> SUFFICES ASSUME NEW p \in 1 .. Len(c) PROVE c[p].csize <= c[p].space
    OBVIOUS
  <2>1. PICK part : part = c[p]
    OBVIOUS
  <2>2. part.csize \in Nat /\ part.space = AllocSz(part.csize)
    BY <1>1, <2>1 DEF PartsAreWhole, PartIsWhole, PartTypes
  <2> QED
    BY <2>1, <2>2, AllocSzFacts
<1>4. HeaderIsRight(hdr) /\ HeaderIsOf(hdr, d)
  BY <1>1, <1>3, RecordIsGood
<1>5. PICK e : e = Loaded(v, hdr, d)
  OBVIOUS
<1>6. LoadedFrom(e, v, hdr, d)
  BY <1>2, <1>4, <1>5, LoadedIs
<1>7. hdr.idata = i /\ hdr.id = d.id /\ hdr.type = d.type
  BY <1>1 DEF MkHdr
<1>8. PICK known \in {1, 3} : known = FieldCnt(v)
  BY DEF FieldCnt
<1>9. /\ e = MkDsc(v, d.id, d.type, e.fields, e.future_idata, e.cparts)
      /\ IsRow(e.fields) /\ Len(e.fields) = known
      /\ \A k \in 1 .. known : e.fields[k] = Val(i, k)
      /\ e.future_idata = SubSeq(i, known + 1, Len(i))
      /\ IsRow(e.cparts) /\ Len(e.cparts) = Len(c)
      /\ \A p \in 1 .. Len(c) :
           e.cparts[p] = IF p <= n THEN LoadedAs(v, i, p, c[p]) ELSE NoPart
  BY <1>1, <1>2, <1>6, <1>7, <1>8 DEF LoadedFrom
<1>10. e.fields = f
  <2>1. \A k \in 1 .. known : Val(i, k) = f[k]
    BY <1>1, <1>2, <1>8, IdataIs
  <2>2. \A k \in 1 .. Len(f) : f[k] = e.fields[k]
    BY <1>2, <1>8, <1>9, <2>1
  <2>3. IsRow(f) /\ Len(f) = Len(e.fields)
    BY <1>2, <1>8, <1>9 DEF Naturals
  <2>4. IsRow(e.fields)
    BY <1>9
  <2> QED
    BY <2>2, <2>3, <2>4, RowsAreEqual
<1>11. e.future_idata = g
  <2>1. Naturals(i) /\ Len(i) = known + Len(g) /\ Len(g) \in Nat /\ known \in Nat
    BY <1>1, <1>2, <1>8, IdataIs, RowLen DEF Naturals
  <2>2. PICK s : s = SubSeq(i, known + 1, Len(i))
    OBVIOUS
  <2>3. /\ Naturals(s) /\ Len(s) = LaterThan(i, known)
        /\ \A q \in 1 .. LaterThan(i, known) : s[q] = i[known + q]
    BY <2>1, <2>2, LaterNumbers
  <2>4. LaterThan(i, known) = Len(g)
    BY <2>1 DEF LaterThan
  <2>5. \A q \in 1 .. Len(g) : i[known + q] = g[q]
    <3>1. i = f \o g /\ IsRow(f) /\ IsRow(g)
      BY <1>1, <1>2 DEF IdataOf, Naturals
    <3>2. \A q \in 1 .. Len(g) : (f \o g)[Len(f) + q] = g[q]
      BY <3>1, ConcatRows
    <3> QED
      BY <1>2, <1>8, <3>1, <3>2
  <2>6. IsRow(s) /\ IsRow(g) /\ Len(g) = Len(s) /\ \A q \in 1 .. Len(g) : g[q] = s[q]
    BY <1>2, <2>3, <2>4, <2>5 DEF Naturals
  <2>7. g = s
    BY <2>6, RowsAreEqual
  <2> QED
    BY <1>9, <2>2, <2>7
<1>12. e.cparts = c
  <2>1. ASSUME NEW p \in 1 .. Len(c) PROVE e.cparts[p] = c[p]
    <3>1. PICK part : part = c[p]
      OBVIOUS
    <3>2. /\ PartIsWhole(part) /\ part.csize = CsizeFor(i, p)
          /\ part.future_csize = HiddenFor(v, i, p)
      BY <1>1, <3>1 DEF PartsAreWhole, DescriptorIsRight, PartIsFor
    <3>3. CASE p <= n
      BY <1>9, <3>1, <3>2, <3>3 DEF LoadedAs, PartIsWhole, PartTypes
    <3>4. CASE ~ (p <= n)
      <4>1. PICK m \in {1, 2} : m = Len(c)
        BY <1>2 DEF CpartCnt
      <4>2. p \in {1, 2}
        <5>1. p \in 1 .. m
          BY <4>1
        <5> QED
          BY <5>1
      <4>3. PICK v1, v2, v3 \in Nat : v1 = Val(i, 1) /\ v2 = Val(i, 2) /\ v3 = Val(i, 3)
        BY <1>1, IdataIs
      <4>4. CsizeFor(i, p) = 0
        BY <1>1, <3>4, <4>2, <4>3 DEF StoredCnt, CsizeFor
      <4>5. part = NoPart
        BY <3>2, <4>4 DEF PartIsWhole
      <4> QED
        BY <1>9, <3>1, <3>4, <4>5
    <3> QED
      BY <3>3, <3>4, <1>1 DEF StoredCnt
  <2> QED
    BY <1>2, <1>9, <2>1, RowsAreEqual
<1>13. e = d
  BY <1>2, <1>9, <1>10, <1>11, <1>12
<1> QED
  BY <1>1, <1>5, <1>13

(***************************************************************************)
(* What is stored of a descriptor takes the words that its footprint says, *)
(* and the version that stored it loads the same descriptor: whatever the  *)
(* widths of the fields of the record, and whatever the programs did to    *)
(* the content before (descriptor.cpp).                                    *)
(***************************************************************************)
THEOREM TheRecordIsTheDescriptor == Spec => []RecordIsTheDescriptor
<1>1. ContentInvariant => RecordIsTheDescriptor
  <2> SUFFICES ASSUME ContentInvariant, status = "open",
                      NEW stored, stored = Words(HeaderOf(dsc)),
                      NEW read, read = ReadHeader(stored \o stored, 1)
               PROVE  /\ Len(stored) = Footprint(HeaderOf(dsc))
                      /\ read.at = Len(stored) + 1
                      /\ Loaded(dsc.version, read.hdr, dsc) = dsc
    BY DEF RecordIsTheDescriptor
  <2>1. DescriptorIsRight(dsc) /\ DescriptorIsTyped(dsc) /\ PartsAreWhole(dsc.cparts)
    BY DEF ContentInvariant, DescriptorIsRight
  <2>2. IsRow(stored) /\ Len(stored) = Footprint(HeaderOf(dsc)) /\ Len(stored) \in Nat
    BY <2>1, HeaderIsRow, WordsRow
  <2>3. PICK both : both = stored \o stored
    OBVIOUS
  <2>4. /\ IsRow(both) /\ Len(both) = Len(stored) + Len(stored)
        /\ \A k \in 1 .. Len(stored) : both[k] = stored[k]
    <3>1. IsRow(stored)
      BY <2>2
    <3>2. /\ IsRow(stored \o stored) /\ Len(stored \o stored) = Len(stored) + Len(stored)
          /\ \A k \in 1 .. Len(stored) : (stored \o stored)[k] = stored[k]
      BY ONLY <3>1, ConcatRows
    <3> QED
      BY <2>3, <3>2
  <2>5. Holds(both, 1, stored)
    <3>1. ASSUME NEW k \in 1 .. Len(stored)
          PROVE  1 + k - 1 \in 1 .. Len(both) /\ both[1 + k - 1] = stored[k]
      <4>1. 1 + k - 1 = k /\ k \in 1 .. Len(both)
        BY <2>2, <2>4
      <4> QED
        BY <2>4, <4>1
    <3> QED
      BY <3>1 DEF Holds
  <2>6. PICK hdr : hdr = MkHdr(dsc.id, dsc.type, StoredRow(dsc), IdataOf(dsc))
    OBVIOUS
  <2>7. ReadHeader(both, 1) = [hdr |-> hdr, at |-> 1 + Footprint(HeaderOf(dsc))]
    <3>1. Holds(both, 1, Words(HeaderOf(dsc)))
      BY <2>5
    <3>2. ReadHeader(both, 1) = [hdr |-> MkHdr(dsc.id, dsc.type, StoredRow(dsc), IdataOf(dsc)),
                                 at |-> 1 + Footprint(HeaderOf(dsc))]
      BY <2>1, <2>4, <3>1, RecordIsRead
    <3> QED
      BY <2>6, <3>2
  <2>8. read.hdr = hdr /\ read.at = Len(stored) + 1
    BY <2>2, <2>3, <2>7
  <2>9. Loaded(dsc.version, hdr, dsc) = dsc
    BY <2>1, <2>6, LoadedIsSame
  <2> QED
    BY <2>2, <2>8, <2>9
<1> QED
  BY <1>1, ContentIsInvariant, PTL

(***************************************************************************)
(* No record is stored that a program, of any version, could not load: the *)
(* parts have the bytes that they say, and those that each version uses.   *)
(***************************************************************************)
THEOREM AnyVersionLoadsTheRecord == Spec => []RecordsLoad
<1>1. ContentInvariant => RecordsLoad
  <2> SUFFICES ASSUME ContentInvariant, words # << >>, NEW hdr, hdr = ReadHeader(words, 1).hdr
               PROVE  /\ hdr.id # BadId
                      /\ \A p \in DOMAIN hdr.cparts : \A version \in Versions :
                           /\ hdr.cparts[p].csize <= SpaceOf(hdr.cparts[p].segm)
                           /\ UsedSpace(version, Loaded(version, hdr, dsc).fields, p,
                                        hdr.cparts[p].csize)
                                <= hdr.cparts[p].csize
    BY DEF RecordsLoad
  <2>1. HeaderIsRight(hdr)
    BY DEF ContentInvariant, RecordIsRight, Stored
  <2>2. PICK i, h : i = hdr.idata /\ h = hdr.cparts
    OBVIOUS
  <2>3. hdr.id # BadId
    BY <2>1 DEF HeaderIsRight, BadId
  <2>4. PICK L \in {1, 3} : L = Len(i)
    BY <2>1, <2>2 DEF HeaderIsRight
  <2>5. PICK v1, v2, v3 \in Nat : v1 = Val(i, 1) /\ v2 = Val(i, 2) /\ v3 = Val(i, 3)
    <3>1. Naturals(i)
      BY <2>1, <2>2 DEF HeaderIsRight
    <3>2. Val(i, 1) \in Nat /\ Val(i, 2) \in Nat /\ Val(i, 3) \in Nat
      BY <3>1, ValIsNat
    <3> QED
      BY <3>2
  <2>6. PICK n \in {0, 1, 2} : n = Len(h)
    BY <2>1, <2>2 DEF HeaderIsRight, StoredCnt
  <2>7. DOMAIN h = 1 .. n
    BY <2>1, <2>2, <2>6, RowLen DEF HeaderIsRight
  <2>8. ASSUME NEW p \in 1 .. n, NEW version \in Versions
        PROVE  /\ h[p].csize <= SpaceOf(h[p].segm)
               /\ UsedSpace(version, Loaded(version, hdr, dsc).fields, p, h[p].csize) <= h[p].csize
    <3>1. h[p].csize = CsizeFor(i, p) /\ h[p].csize <= SpaceOf(h[p].segm)
      BY <2>1, <2>2, <2>6 DEF HeaderIsRight
    <3>2. PICK f : f = [k \in 1 .. FieldCnt(version) |-> IF k <= Len(i) THEN i[k] ELSE 0]
      OBVIOUS
    <3>3. Loaded(version, hdr, dsc).fields = f
      BY <2>2, <3>2 DEF Loaded
    <3>4. \A k \in 1 .. FieldCnt(version) : f[k] = Val(i, k)
      BY <3>2 DEF Val
    <3>5. p \in {1, 2}
      OBVIOUS
    <3>6. UsedSpace(version, f, p, CsizeFor(i, p)) <= CsizeFor(i, p)
      <4>1. CASE version = "old"
        <5>1. f[1] = v1
          BY <2>5, <3>4, <4>1 DEF FieldCnt
        <5> QED
          BY <2>5, <3>5, <4>1, <5>1 DEF UsedSpace, CsizeFor
      <4>2. CASE version = "new"
        <5>1. f[1] = v1 /\ f[2] = v2 /\ f[3] = v3
          BY <2>5, <3>4, <4>2 DEF FieldCnt
        <5> QED
          BY <2>5, <3>5, <4>2, <5>1 DEF UsedSpace, CsizeFor
      <4> QED
        BY <4>1, <4>2 DEF Versions
    <3> QED
      BY <3>1, <3>3, <3>6
  <2> QED
    BY <2>2, <2>3, <2>7, <2>8
<1> QED
  BY <1>1, ContentIsInvariant, PTL

-----------------------------------------------------------------------------
(* The refinement: what the programs see of a part, and what is hidden *)

PartIn(cparts, p) == IF p \in DOMAIN cparts THEN cparts[p] ELSE NoPart

OwnOf(part) == SubSeq(part.bytes, 1, PresentSz(part))
HiddenOf(part) == SubSeq(part.bytes, PresentSz(part) + 1, part.csize)

OwnIn(cparts) == [p \in AllParts |-> OwnOf(PartIn(cparts, p))]
HiddenIn(cparts) == [p \in AllParts |-> HiddenOf(PartIn(cparts, p))]

LEMMA OwnAndHidden == Own = OwnIn(dsc.cparts) /\ Hidden = HiddenIn(dsc.cparts)
BY DEF Own, Hidden, OwnIn, HiddenIn, OwnOf, HiddenOf, PartOf, PartIn

LEMMA OwnAndHiddenNext == Own' = OwnIn(dsc'.cparts) /\ Hidden' = HiddenIn(dsc'.cparts)
BY DEF Own, Hidden, OwnIn, HiddenIn, OwnOf, HiddenOf, PartOf, PartIn

LEMMA OwnIs ==
  ASSUME NEW part, PartIsWhole(part)
  PROVE  /\ IsRow(OwnOf(part)) /\ Len(OwnOf(part)) = PresentSz(part)
         /\ \A i \in 1 .. PresentSz(part) : OwnOf(part)[i] = part.bytes[i]
         /\ IsRow(HiddenOf(part)) /\ Len(HiddenOf(part)) = part.future_csize
         /\ \A i \in 1 .. part.future_csize : HiddenOf(part)[i] = part.bytes[PresentSz(part) + i]
<1>1. PICK b, q, f, c : b = part.bytes /\ q = PresentSz(part) /\ f = part.future_csize /\ c = part.csize
  OBVIOUS
<1>2. /\ q \in Nat /\ q <= c /\ q + f = c /\ c <= Len(b) /\ Len(b) \in Nat /\ IsRow(b)
  BY <1>1, SeenSz
<1>3. f \in Nat /\ c \in Nat
  BY <1>1 DEF PartIsWhole, PartTypes
<1>4. /\ IsRow(OwnOf(part)) /\ Len(OwnOf(part)) = q
      /\ \A i \in 1 .. q : OwnOf(part)[i] = b[i]
  <2>1. 0 \in Nat /\ 0 + q <= Len(b) /\ 0 + 1 = 1 /\ 0 + q = q
    BY <1>2, <1>3
  <2>2. /\ IsRow(SubSeq(b, 0 + 1, 0 + q)) /\ Len(SubSeq(b, 0 + 1, 0 + q)) = q
        /\ \A i \in 1 .. q : SubSeq(b, 0 + 1, 0 + q)[i] = b[0 + i]
    BY ONLY <1>2, <2>1, SubRow
  <2>3. OwnOf(part) = SubSeq(b, 0 + 1, 0 + q)
    BY <1>1, <2>1 DEF OwnOf
  <2>4. \A i \in 1 .. q : 0 + i = i
    BY <1>2
  <2> QED
    BY <2>2, <2>3, <2>4
<1>5. /\ IsRow(HiddenOf(part)) /\ Len(HiddenOf(part)) = f
      /\ \A i \in 1 .. f : HiddenOf(part)[i] = b[q + i]
  <2>1. q + f <= Len(b)
    BY <1>2, <1>3
  <2>2. /\ IsRow(SubSeq(b, q + 1, q + f)) /\ Len(SubSeq(b, q + 1, q + f)) = f
        /\ \A i \in 1 .. f : SubSeq(b, q + 1, q + f)[i] = b[q + i]
    BY ONLY <1>2, <1>3, <2>1, SubRow
  <2>3. HiddenOf(part) = SubSeq(b, q + 1, q + f)
    BY <1>1, <1>2 DEF HiddenOf
  <2> QED
    BY <2>2, <2>3
<1> QED
  BY <1>1, <1>4, <1>5

LEMMA NothingInNoPart == OwnOf(NoPart) = << >> /\ HiddenOf(NoPart) = << >>
<1>1. PartIsWhole(NoPart) /\ NoPart.csize = 0 /\ NoPart.future_csize = 0
  BY NoPartIsWhole
<1>2. PresentSz(NoPart) = 0
  BY <1>1 DEF PresentSz
<1>3. IsRow(OwnOf(NoPart)) /\ Len(OwnOf(NoPart)) = 0
  BY <1>1, <1>2, OwnIs
<1>4. IsRow(HiddenOf(NoPart)) /\ Len(HiddenOf(NoPart)) = 0
  BY <1>1, <1>2, OwnIs
<1>5. PICK s : s = << >>
  OBVIOUS
<1>6. IsRow(s) /\ Len(s) = 0
  BY <1>5, ShortRows
<1>7. OwnOf(NoPart) = s
  BY <1>3, <1>6, RowsAreEqual
<1>8. HiddenOf(NoPart) = s
  BY <1>4, <1>6, RowsAreEqual
<1> QED
  BY <1>5, <1>7, <1>8

\* What is seen and what is hidden are the bytes that the header counts.
LEMMA OwnThenHidden ==
  ASSUME NEW part, PartIsWhole(part)
  PROVE  /\ IsRow(OwnOf(part) \o HiddenOf(part)) /\ Len(OwnOf(part) \o HiddenOf(part)) = part.csize
         /\ \A i \in 1 .. part.csize : (OwnOf(part) \o HiddenOf(part))[i] = part.bytes[i]
<1>1. PICK b, q, f, c : b = part.bytes /\ q = PresentSz(part) /\ f = part.future_csize /\ c = part.csize
  OBVIOUS
<1>2. q \in Nat /\ q + f = c /\ f \in Nat
  BY <1>1, SeenSz DEF PartIsWhole, PartTypes
<1>3. PICK x, y : x = OwnOf(part) /\ y = HiddenOf(part)
  OBVIOUS
<1>4. /\ IsRow(x) /\ Len(x) = q /\ \A i \in 1 .. q : x[i] = b[i]
  BY <1>1, <1>3, OwnIs
<1>5. /\ IsRow(y) /\ Len(y) = f /\ \A i \in 1 .. f : y[i] = b[q + i]
  BY <1>1, <1>3, OwnIs
<1>6. PICK z : z = x \o y
  OBVIOUS
<1>7. /\ IsRow(z) /\ Len(z) = Len(x) + Len(y)
      /\ \A i \in 1 .. Len(x) + Len(y) : z[i] = IF i <= Len(x) THEN x[i] ELSE y[i - Len(x)]
  BY <1>4, <1>5, <1>6, ConcatRows
<1>8. Len(z) = c
  BY <1>2, <1>4, <1>5, <1>7
<1>9. ASSUME NEW i \in 1 .. c PROVE z[i] = b[i]
  <2>1. i \in 1 .. Len(x) + Len(y)
    BY <1>2, <1>4, <1>5
  <2>2. CASE i <= q
    <3>1. i \in 1 .. q
      BY <2>2
    <3> QED
      BY <1>4, <1>7, <2>1, <3>1
  <2>3. CASE ~ (i <= q)
    <3>1. i - q \in 1 .. f /\ q + (i - q) = i
      BY <1>2, <2>3
    <3>2. y[i - q] = b[i]
      BY <1>5, <3>1
    <3> QED
      BY <1>4, <1>7, <2>1, <2>3, <3>2
  <2> QED
    BY <2>2, <2>3
<1> QED
  BY <1>1, <1>3, <1>6, <1>7, <1>8, <1>9

\* One part is another, the others are not.
LEMMA PartsIn ==
  ASSUME NEW cparts, IsRow(cparts), NEW p \in 1 .. Len(cparts), NEW r
  PROVE  /\ p \in 1 .. Len(cparts) /\ PartIn(SetPart(cparts, p, r), p) = r
         /\ PartIn(cparts, p) = cparts[p]
         /\ \A q \in AllParts \ {p} : PartIn(SetPart(cparts, p, r), q) = PartIn(cparts, q)
<1>1. PICK k : k = SetPart(cparts, p, r)
  OBVIOUS
<1>2. /\ IsRow(k) /\ Len(k) = Len(cparts)
      /\ \A q \in 1 .. Len(cparts) : k[q] = IF q = p THEN r ELSE cparts[q]
  BY <1>1, ReplacedRow
<1>3. DOMAIN k = 1 .. Len(cparts) /\ DOMAIN cparts = 1 .. Len(cparts)
  BY <1>2, RowLen
<1> QED
  BY <1>1, <1>2, <1>3 DEF PartIn

\* After a step on a part that keeps what is hidden of it.
LEMMA OwnAfter ==
  ASSUME ContentInvariant, NEW p \in 1 .. DeclCpartCnt(dsc.version), NEW r,
         dsc'.cparts = SetPart(dsc.cparts, p, r), HiddenOf(r) = HiddenOf(dsc.cparts[p])
  PROVE  /\ p \in AllParts /\ Own[p] = OwnOf(dsc.cparts[p]) /\ Own'[p] = OwnOf(r)
         /\ \A q \in AllParts \ {p} : Own'[q] = Own[q]
         /\ Hidden' = Hidden
<1>1. PICK c, k : c = dsc.cparts /\ k = dsc'.cparts
  OBVIOUS
<1>2. IsRow(c) /\ p \in 1 .. Len(c)
  BY <1>1, PartsAreThere DEF ContentInvariant, DescriptorIsRight, DescriptorIsTyped
<1>3. /\ PartIn(k, p) = r /\ PartIn(c, p) = c[p]
      /\ \A q \in AllParts \ {p} : PartIn(k, q) = PartIn(c, q)
  <2>1. k = SetPart(c, p, r)
    BY <1>1
  <2> QED
    BY <1>2, <2>1, PartsIn
<1>4. p \in AllParts
  BY DEF DeclCpartCnt, AllParts
<1>5. Own = OwnIn(c) /\ Own' = OwnIn(k) /\ Hidden = HiddenIn(c) /\ Hidden' = HiddenIn(k)
  BY <1>1, OwnAndHidden, OwnAndHiddenNext
<1>6. OwnIn(c)[p] = OwnOf(c[p]) /\ OwnIn(k)[p] = OwnOf(r)
  BY <1>3, <1>4 DEF OwnIn
<1>7. \A q \in AllParts \ {p} : OwnIn(k)[q] = OwnIn(c)[q]
  BY <1>3 DEF OwnIn
<1>8. \A q \in AllParts : HiddenOf(PartIn(k, q)) = HiddenOf(PartIn(c, q))
  BY <1>1, <1>3
<1>9. HiddenIn(k) = HiddenIn(c)
  BY <1>8 DEF HiddenIn
<1> QED
  BY <1>1, <1>4, <1>5, <1>6, <1>7, <1>9

\* A part of as many bytes, and the same ones where they are not seen.
LEMMA HiddenIsKept ==
  ASSUME NEW part, PartIsWhole(part), NEW r, PartIsWhole(r), r.future_csize = part.future_csize,
         \A i \in 1 .. part.future_csize :
           r.bytes[PresentSz(r) + i] = part.bytes[PresentSz(part) + i]
  PROVE  HiddenOf(r) = HiddenOf(part)
<1>1. PICK f : f = part.future_csize
  OBVIOUS
<1>2. /\ IsRow(HiddenOf(part)) /\ Len(HiddenOf(part)) = f
      /\ \A i \in 1 .. f : HiddenOf(part)[i] = part.bytes[PresentSz(part) + i]
  BY <1>1, OwnIs
<1>3. /\ IsRow(HiddenOf(r)) /\ Len(HiddenOf(r)) = f
      /\ \A i \in 1 .. f : HiddenOf(r)[i] = r.bytes[PresentSz(r) + i]
  BY <1>1, OwnIs
<1>4. \A i \in 1 .. f : HiddenOf(r)[i] = HiddenOf(part)[i]
  BY <1>1, <1>2, <1>3
<1> QED
  BY <1>2, <1>3, <1>4, RowsAreEqual

\* Other bytes where they are seen, and only there.
LEMMA OwnBytes ==
  ASSUME NEW part, PartIsWhole(part), NEW b, IsRow(b), Len(b) = Len(part.bytes),
         \A i \in 1 .. Len(b) : i > PresentSz(part) => b[i] = part.bytes[i]
  PROVE  /\ HiddenOf([part EXCEPT !.bytes = b]) = HiddenOf(part)
         /\ IsRow(OwnOf([part EXCEPT !.bytes = b]))
         /\ Len(OwnOf([part EXCEPT !.bytes = b])) = PresentSz(part)
         /\ \A i \in 1 .. PresentSz(part) : OwnOf([part EXCEPT !.bytes = b])[i] = b[i]
<1>1. PICK r : r = [part EXCEPT !.bytes = b]
  OBVIOUS
<1>2. r = MkPart(part.csize, part.future_csize, part.space, b) /\ PartIsWhole(r)
  <2>1. PartTypes(part)
    BY DEF PartIsWhole
  <2> QED
    BY <1>1, <2>1, BytesChanged
<1>3. r.csize = part.csize /\ r.future_csize = part.future_csize /\ r.bytes = b
  BY <1>2 DEF MkPart
<1>4. PICK q : q = PresentSz(part) /\ q = PresentSz(r)
  BY <1>3 DEF PresentSz
<1>5. /\ q \in Nat /\ q + part.future_csize = part.csize /\ part.csize <= Len(part.bytes)
      /\ part.future_csize \in Nat /\ part.csize \in Nat /\ Len(part.bytes) \in Nat
  BY <1>4, SeenSz DEF PartIsWhole, PartTypes
<1>6. ASSUME NEW i \in 1 .. part.future_csize
      PROVE  r.bytes[PresentSz(r) + i] = part.bytes[PresentSz(part) + i]
  <2>1. q + i \in 1 .. Len(b) /\ q + i > q
    BY <1>5
  <2>2. b[q + i] = part.bytes[q + i]
    BY <1>4, <2>1
  <2> QED
    BY <1>3, <1>4, <2>2
<1>7. HiddenOf(r) = HiddenOf(part)
  BY <1>2, <1>3, <1>6, HiddenIsKept
<1>8. IsRow(OwnOf(r)) /\ Len(OwnOf(r)) = q /\ \A i \in 1 .. q : OwnOf(r)[i] = b[i]
  BY <1>2, <1>3, <1>4, OwnIs
<1> QED
  BY <1>1, <1>4, <1>7, <1>8

LEMMA InitIsOfStore ==
  ASSUME Init
  PROVE  Store!Init
<1>1. PICK v \in Versions, k \in Kinds : dsc = NewDescriptor(v, k[1], k[2])
  BY DEF Init, NewDescriptors
<1>2. \A p : PartIn(dsc.cparts, p) = NoPart
  BY <1>1 DEF NewDescriptor, PartIn
<1>3. OwnIn(dsc.cparts) = [p \in AllParts |-> << >>] /\ HiddenIn(dsc.cparts) = [p \in AllParts |-> << >>]
  BY <1>2, NothingInNoPart DEF OwnIn, HiddenIn
<1> QED
  BY <1>3, OwnAndHidden DEF Store!Init

LEMMA RenewIsOfStore ==
  ASSUME NEW d \in NewDescriptors, Renew(d)
  PROVE  Store!Renew
<1>1. PICK v \in Versions, k \in Kinds : dsc' = NewDescriptor(v, k[1], k[2])
  BY DEF Renew, NewDescriptors
<1>2. \A p : PartIn(dsc'.cparts, p) = NoPart
  BY <1>1 DEF NewDescriptor, PartIn
<1>3. /\ OwnIn(dsc'.cparts) = [p \in AllParts |-> << >>]
      /\ HiddenIn(dsc'.cparts) = [p \in AllParts |-> << >>]
  BY <1>2, NothingInNoPart DEF OwnIn, HiddenIn
<1> QED
  BY <1>3, OwnAndHiddenNext DEF Store!Renew

LEMMA ResizeIsOfStore ==
  ASSUME NoPadding, ContentInvariant, NEW p \in 1 .. DeclCpartCnt(dsc.version),
         NEW fields \in NewFields(p), Resize(p, fields)
  PROVE  p \in AllParts /\ Store!Resize(p)
<1>1. PICK part, sz : part = dsc.cparts[p] /\ sz = UsedSpace(dsc.version, fields, p, 0)
  OBVIOUS
<1>2. PICK r : ResizeIsRight(part, sz, r) /\ sz \in Nat /\ dsc'.cparts = SetPart(dsc.cparts, p, r)
  BY <1>1, ResizeStep
<1>3. PartIsWhole(part)
  BY <1>1, PartsAreThere DEF Resize
<1>4. /\ PartIsWhole(r) /\ r.csize = sz + part.future_csize /\ r.future_csize = part.future_csize
      /\ KeepsOwn(part, sz, r) /\ KeepsFuture(part, sz, r)
  BY <1>2 DEF ResizeIsRight
<1>5. PresentSz(r) = sz
  <2>1. part.future_csize \in Nat
    BY <1>3 DEF PartIsWhole, PartTypes
  <2> QED
    BY <1>2, <1>4, <2>1 DEF PresentSz
<1>6. \A i \in 1 .. part.future_csize : r.bytes[PresentSz(r) + i] = part.bytes[PresentSz(part) + i]
  BY <1>4, <1>5 DEF KeepsFuture
<1>7. HiddenOf(r) = HiddenOf(dsc.cparts[p])
  BY <1>1, <1>3, <1>4, <1>6, HiddenIsKept
<1>8. /\ p \in AllParts /\ Own[p] = OwnOf(dsc.cparts[p]) /\ Own'[p] = OwnOf(r)
      /\ \A q \in AllParts \ {p} : Own'[q] = Own[q]
      /\ Hidden' = Hidden
  BY <1>2, <1>7, OwnAfter
<1>9. PICK x, y : x = OwnOf(part) /\ y = OwnOf(r)
  OBVIOUS
<1>10. /\ DOMAIN x = 1 .. PresentSz(part)
       /\ \A i \in 1 .. PresentSz(part) : x[i] = part.bytes[i]
  BY <1>3, <1>9, OwnIs, RowLen
<1>11. /\ DOMAIN y = 1 .. sz
       /\ \A i \in 1 .. sz : y[i] = r.bytes[i]
  BY <1>4, <1>5, <1>9, OwnIs, RowLen
<1>12. ASSUME NEW i \in DOMAIN x \cap DOMAIN y PROVE y[i] = x[i]
  <2>1. PresentSz(part) \in Nat
    BY <1>3, SeenSz
  <2>2. i \in 1 .. PresentSz(part) /\ i \in 1 .. sz /\ i <= PresentSz(part)
    BY <1>10, <1>11, <2>1
  <2>3. r.bytes[i] = part.bytes[i]
    BY <1>4, <2>2 DEF KeepsOwn
  <2> QED
    BY <1>10, <1>11, <2>2, <2>3
<1>13. \A i \in DOMAIN Own[p] \cap DOMAIN Own'[p] : Own'[p][i] = Own[p][i]
  <2>1. Own[p] = x /\ Own'[p] = y
    BY <1>1, <1>8, <1>9
  <2> HIDE DEF Own
  <2> QED
    BY <1>12, <2>1
<1> QED
  BY <1>8, <1>13 DEF Store!Resize, Store!Others

LEMMA WriteIsOfStore ==
  ASSUME ContentInvariant, NEW p \in 1 .. DeclCpartCnt(dsc.version),
         NEW limit \in 0 .. 1, NEW pos \in SeekPos, NEW way \in Ways, NEW sz \in WriteSzs,
         Write(p, limit, pos, way, sz)
  PROVE  p \in AllParts /\ Store!Write(p)
<1>1. PICK part, v : part = dsc.cparts[p] /\ v = dsc.version
  OBVIOUS
<1>2. PICK at \in Nat :
        /\ at + sz <= PresentSz(part) /\ sz \in Nat
        /\ dsc'.cparts = SetPart(dsc.cparts, p, [part EXCEPT !.bytes = Stamped(v, part.bytes, at, sz)])
  BY <1>1, WriteStep
<1>3. PartIsWhole(part)
  BY <1>1, PartsAreThere DEF Write
<1>4. PICK q, n \in Nat : q = PresentSz(part) /\ n = Len(part.bytes) /\ q <= n
  <2>1. /\ PresentSz(part) \in Nat /\ Len(part.bytes) \in Nat /\ part.csize <= Len(part.bytes)
        /\ PresentSz(part) <= part.csize /\ part.csize \in Nat
    BY <1>3, SeenSz DEF PartIsWhole, PartTypes
  <2> QED
    BY <2>1
<1>5. PICK b : b = Stamped(v, part.bytes, at, sz)
  OBVIOUS
<1>6. b = [i \in 1 .. n |-> IF i \in at + 1 .. at + sz THEN Stamp(v, i) ELSE part.bytes[i]]
  <2>1. DOMAIN part.bytes = 1 .. n
    BY <1>3, <1>4, RowLen DEF PartIsWhole, PartTypes
  <2> QED
    BY <1>5, <2>1 DEF Stamped
<1>7. IsRow(b) /\ Len(b) = n
  <2>1. b = [i \in 1 .. n |-> b[i]]
    BY <1>6
  <2> QED
    BY <2>1, RowFacts
<1>8. ASSUME NEW i \in 1 .. n, i > q PROVE b[i] = part.bytes[i]
  <2>1. ~ (i \in at + 1 .. at + sz)
    BY <1>2, <1>4, <1>8
  <2> QED
    BY <1>6, <2>1
<1>9. PICK r : r = [part EXCEPT !.bytes = b]
  OBVIOUS
<1>10. /\ HiddenOf(r) = HiddenOf(part) /\ IsRow(OwnOf(r)) /\ Len(OwnOf(r)) = q
       /\ \A i \in 1 .. q : OwnOf(r)[i] = b[i]
  BY <1>3, <1>4, <1>7, <1>8, <1>9, OwnBytes
<1>11. /\ p \in AllParts /\ Own[p] = OwnOf(dsc.cparts[p]) /\ Own'[p] = OwnOf(r)
       /\ \A s \in AllParts \ {p} : Own'[s] = Own[s]
       /\ Hidden' = Hidden
  BY <1>1, <1>2, <1>5, <1>9, <1>10, OwnAfter
<1>12. PICK x, y : x = OwnOf(part) /\ y = OwnOf(r)
  OBVIOUS
<1>13. /\ Len(x) = q /\ DOMAIN x = 1 .. q
       /\ \A i \in 1 .. q : x[i] = part.bytes[i]
  BY <1>3, <1>4, <1>12, OwnIs, RowLen
<1>14. Len(y) = q /\ \A i \in 1 .. q : y[i] = b[i]
  BY <1>10, <1>12
<1>15. ASSUME NEW i \in 1 .. q PROVE y[i] \in {x[i]} \cup Writable(i)
  <2>1. i \in 1 .. n
    BY <1>4
  <2>2. y[i] = b[i] /\ x[i] = part.bytes[i]
    BY <1>13, <1>14
  <2>3. b[i] = part.bytes[i] \/ b[i] = Stamp(v, i)
    BY <1>6, <2>1
  <2>4. v \in Versions
    BY <1>1 DEF ContentInvariant, DescriptorIsRight, DescriptorIsTyped
  <2>5. Stamp(v, i) \in Writable(i)
    BY <2>4 DEF Writable
  <2> QED
    BY <2>2, <2>3, <2>5
<1>16. Own[p] = x /\ Own'[p] = y
  BY <1>1, <1>11, <1>12
<1> HIDE DEF Own
<1>17. Len(Own'[p]) = Len(Own[p])
  BY <1>13, <1>14, <1>16
<1>18. \A i \in DOMAIN Own[p] : Own'[p][i] \in {Own[p][i]} \cup Writable(i)
  BY <1>13, <1>15, <1>16
<1> QED
  BY <1>11, <1>17, <1>18 DEF Store!Write, Store!Others

LEMMA CopyIsOfStore ==
  ASSUME ContentInvariant, NEW p \in 1 .. DeclCpartCnt(dsc.version), NEW c \in Copies,
         Copy(p, c[1], c[2], c[3])
  PROVE  p \in AllParts /\ (Store!Copy(p) \/ UNCHANGED <<Own, Hidden>>)
<1>1. PICK part : part = dsc.cparts[p]
  OBVIOUS
<1>2. PICK rd, wr, sz \in Nat :
        /\ rd + sz <= PresentSz(part) /\ wr + sz <= PresentSz(part)
        /\ dsc'.cparts = SetPart(dsc.cparts, p,
             [part EXCEPT !.bytes = Pasted(part.bytes, part.bytes, rd, wr, sz)])
  BY <1>1, CopyStep
<1>3. PartIsWhole(part)
  BY <1>1, PartsAreThere DEF Copy
<1>4. PICK q, n \in Nat : q = PresentSz(part) /\ n = Len(part.bytes) /\ q <= n
  <2>1. /\ PresentSz(part) \in Nat /\ Len(part.bytes) \in Nat /\ part.csize <= Len(part.bytes)
        /\ PresentSz(part) <= part.csize /\ part.csize \in Nat
    BY <1>3, SeenSz DEF PartIsWhole, PartTypes
  <2> QED
    BY <2>1
<1>5. PICK b : b = Pasted(part.bytes, part.bytes, rd, wr, sz)
  OBVIOUS
<1>6. b = [i \in 1 .. n |-> IF i \in wr + 1 .. wr + sz THEN part.bytes[(i - wr) + rd]
                            ELSE part.bytes[i]]
  <2>1. DOMAIN part.bytes = 1 .. n
    BY <1>3, <1>4, RowLen DEF PartIsWhole, PartTypes
  <2> QED
    BY <1>5, <2>1 DEF Pasted
<1>7. IsRow(b) /\ Len(b) = n
  <2>1. b = [i \in 1 .. n |-> b[i]]
    BY <1>6
  <2> QED
    BY <2>1, RowFacts
<1>8. ASSUME NEW i \in 1 .. n, i > q PROVE b[i] = part.bytes[i]
  <2>1. ~ (i \in wr + 1 .. wr + sz)
    BY <1>2, <1>4, <1>8
  <2> QED
    BY <1>6, <2>1
<1>9. PICK r : r = [part EXCEPT !.bytes = b]
  OBVIOUS
<1>10. /\ HiddenOf(r) = HiddenOf(part) /\ IsRow(OwnOf(r)) /\ Len(OwnOf(r)) = q
       /\ \A i \in 1 .. q : OwnOf(r)[i] = b[i]
  BY <1>3, <1>4, <1>7, <1>8, <1>9, OwnBytes
<1>11. /\ p \in AllParts /\ Own[p] = OwnOf(dsc.cparts[p]) /\ Own'[p] = OwnOf(r)
       /\ \A s \in AllParts \ {p} : Own'[s] = Own[s]
       /\ Hidden' = Hidden
  BY <1>1, <1>2, <1>5, <1>9, <1>10, OwnAfter
<1>12. PICK x, y : x = OwnOf(part) /\ y = OwnOf(r)
  OBVIOUS
<1>13. /\ IsRow(x) /\ Len(x) = q /\ DOMAIN x = 1 .. q
       /\ \A i \in 1 .. q : x[i] = part.bytes[i]
  BY <1>3, <1>4, <1>12, OwnIs, RowLen
<1>14. IsRow(y) /\ Len(y) = q /\ \A i \in 1 .. q : y[i] = b[i]
  BY <1>10, <1>12
<1>15. ASSUME NEW i \in 1 .. q
       PROVE  y[i] = x[IF i \in wr + 1 .. wr + sz THEN (i - wr) + rd ELSE i]
  <2>1. i \in 1 .. n /\ y[i] = b[i]
    BY <1>4, <1>14
  <2>2. CASE i \in wr + 1 .. wr + sz
    <3>1. (i - wr) + rd \in 1 .. q
      BY <1>2, <1>4, <2>2
    <3>2. b[i] = part.bytes[(i - wr) + rd]
      BY <1>6, <2>1, <2>2
    <3> QED
      BY <1>13, <2>1, <2>2, <3>1, <3>2
  <2>3. CASE ~ (i \in wr + 1 .. wr + sz)
    BY <1>6, <1>13, <2>1, <2>3
  <2> QED
    BY <2>2, <2>3
<1>16. Own[p] = x /\ Own'[p] = y
  BY <1>1, <1>11, <1>12
<1>17. CASE sz = 0
  <2>1. ASSUME NEW i \in 1 .. q PROVE y[i] = x[i]
    <3>1. ~ (i \in wr + 1 .. wr + sz)
      BY <1>17
    <3> QED
      BY <1>15, <3>1
  <2>2. x = y
    BY <1>13, <1>14, <2>1, RowsAreEqual
  <2>3. PICK o, s : o = Own /\ s = Own'
    OBVIOUS
  <2>4. o = [k \in AllParts |-> o[k]] /\ s = [k \in AllParts |-> s[k]]
    BY <2>3, OwnAndHidden, OwnAndHiddenNext DEF OwnIn
  <2>5. o = s
    BY <1>11, <1>16, <2>2, <2>3, <2>4
  <2> QED
    BY <1>11, <2>3, <2>5
<1>18. CASE sz # 0
  <2>1. sz \in 1 .. q /\ rd \in 0 .. q - sz /\ wr \in 0 .. q - sz
    BY <1>2, <1>4, <1>18
  <2>2. \A i \in 1 .. q : y[i] = x[IF i \in wr + 1 .. wr + sz THEN i - wr + rd ELSE i]
    BY <1>15
  <2> HIDE DEF Own
  <2>3. Len(Own'[p]) = Len(Own[p]) /\ Len(Own[p]) = q
    BY <1>13, <1>14, <1>16
  <2>4. \A i \in DOMAIN Own[p] :
          Own'[p][i] = Own[p][IF i \in wr + 1 .. wr + sz THEN i - wr + rd ELSE i]
    BY <1>13, <1>16, <2>2
  <2>5. \E m \in 1 .. Len(Own[p]) :
          \E from, to \in 0 .. Len(Own[p]) - m :
            \A i \in DOMAIN Own[p] :
              Own'[p][i] = Own[p][IF i \in to + 1 .. to + m THEN i - to + from ELSE i]
    BY <2>1, <2>3, <2>4
  <2> QED
    BY <1>11, <2>3, <2>5 DEF Store!Copy, Store!Others
<1> QED
  BY <1>11, <1>17, <1>18

LEMMA SameBytes ==
  ASSUME NEW part, PartIsWhole(part), NEW r, PartIsWhole(r), r.csize = part.csize,
         r.bytes = part.bytes
  PROVE  OwnOf(r) \o HiddenOf(r) = OwnOf(part) \o HiddenOf(part)
<1>1. PICK x, y : x = OwnOf(part) \o HiddenOf(part) /\ y = OwnOf(r) \o HiddenOf(r)
  OBVIOUS
<1>2. IsRow(x) /\ Len(x) = part.csize /\ \A i \in 1 .. part.csize : x[i] = part.bytes[i]
  BY <1>1, OwnThenHidden
<1>3. IsRow(y) /\ Len(y) = part.csize /\ \A i \in 1 .. part.csize : y[i] = part.bytes[i]
  BY <1>1, OwnThenHidden
<1>4. \A i \in 1 .. Len(x) : x[i] = y[i]
  BY <1>2, <1>3
<1>5. x = y
  BY <1>2, <1>3, <1>4, RowsAreEqual
<1> QED
  BY <1>1, <1>5

LEMMA ReopenIsOfStore ==
  ASSUME ContentInvariant, NEW version \in Versions, Reopen(version)
  PROVE  Store!Reopen
<1>1. PICK c, k, h, i : c = dsc.cparts /\ k = dsc'.cparts /\ h = Stored.cparts /\ i = Stored.idata
  OBVIOUS
<1>2. ContentInvariant' /\ LoadedFrom(dsc', version, Stored, dsc) /\ HeaderIsRight(Stored)
      /\ HeaderIsOf(Stored, dsc)
  BY ReopenStep
<1>3. IsRow(c) /\ PartsAreWhole(c) /\ PartsAreWhole(k) /\ IsRow(k)
  <2>1. status = "open" /\ status' = "open"
    BY DEF Reopen
  <2> QED
    BY <1>1, <1>2, <2>1 DEF ContentInvariant, DescriptorIsRight, DescriptorIsTyped
<1>4. PICK n \in {0, 1, 2} : n = StoredCnt(i) /\ n = Len(h)
  BY <1>1, <1>2 DEF HeaderIsRight, StoredCnt
<1>5. PICK m \in {1, 2} : m = CpartCnt(version, i) /\ m = Len(k) /\ n <= m
  BY <1>1, <1>2, <1>4 DEF LoadedFrom, CpartCnt, StoredCnt
<1>6. \A p \in 1 .. m : k[p] = IF p <= n THEN LoadedAs(version, i, p, c[p]) ELSE NoPart
  BY <1>1, <1>2, <1>4, <1>5 DEF LoadedFrom
<1>7. DOMAIN k = 1 .. m /\ DOMAIN c = 1 .. Len(c)
  BY <1>3, <1>5, RowLen
<1>8. PartIsWhole(NoPart)
  BY NoPartIsWhole
<1>9. ASSUME NEW p \in AllParts
      PROVE  OwnOf(PartIn(k, p)) \o HiddenOf(PartIn(k, p)) = OwnOf(PartIn(c, p)) \o HiddenOf(PartIn(c, p))
  <2>1. p \in {1, 2}
    BY DEF AllParts
  <2>2. CASE p <= n
    <3>1. p \in 1 .. n /\ p \in 1 .. m
      BY <1>4, <1>5, <2>1, <2>2
    <3>2. p \in 1 .. Len(c)
      BY <1>1, <1>2, <1>4, <3>1 DEF HeaderIsOf
    <3>3. PartIn(c, p) = c[p] /\ PartIn(k, p) = k[p] /\ PartIsWhole(c[p]) /\ PartIsWhole(k[p])
      BY <1>3, <1>5, <1>7, <3>1, <3>2 DEF PartIn, PartsAreWhole
    <3>4. k[p] = LoadedAs(version, i, p, c[p])
      BY <1>6, <2>2, <3>1
    <3>5. k[p].csize = c[p].csize /\ k[p].bytes = c[p].bytes
      BY <3>4 DEF LoadedAs, MkPart
    <3> QED
      BY <3>3, <3>5, SameBytes
  <2>3. CASE ~ (p <= n)
    <3>1. PartIn(k, p) = NoPart
      BY <1>6, <1>7, <2>3 DEF PartIn
    <3>2. PartIn(c, p) = NoPart
      <4>1. ASSUME p \in 1 .. Len(c) PROVE c[p] = NoPart
        <5>1. PartIsWhole(c[p])
          BY <1>3, <4>1 DEF PartsAreWhole
        <5>2. p > Len(h)
          BY <1>4, <2>1, <2>3
        <5>3. c[p].csize = 0
          BY <1>1, <1>2, <4>1, <5>2 DEF HeaderIsOf
        <5> QED
          BY <5>1, <5>3 DEF PartIsWhole
      <4> QED
        BY <1>7, <4>1 DEF PartIn
    <3> QED
      BY <3>1, <3>2
  <2> QED
    BY <2>2, <2>3
<1>10. Own = OwnIn(c) /\ Own' = OwnIn(k) /\ Hidden = HiddenIn(c) /\ Hidden' = HiddenIn(k)
  BY <1>1, OwnAndHidden, OwnAndHiddenNext
<1>11. \A p \in AllParts : /\ OwnIn(c)[p] = OwnOf(PartIn(c, p)) /\ OwnIn(k)[p] = OwnOf(PartIn(k, p))
                           /\ HiddenIn(c)[p] = HiddenOf(PartIn(c, p))
                           /\ HiddenIn(k)[p] = HiddenOf(PartIn(k, p))
  BY DEF OwnIn, HiddenIn
<1>12. \A p \in AllParts : Own'[p] \o Hidden'[p] = Own[p] \o Hidden[p]
  <2> HIDE DEF Own, Hidden
  <2> QED
    BY <1>9, <1>10, <1>11
<1> QED
  BY <1>12 DEF Store!Reopen

\* While no resize throws, each step is one of the store, or changes nothing of it.
IsOfStore == status = "open" /\ status' = "open" => UNCHANGED <<Own, Hidden>> \/ Store!Next

LEMMA StepIsOfStore ==
  ASSUME NoPadding, ContentInvariant, [Next]_vars
  PROVE  IsOfStore
<1>1. ASSUME dsc' = dsc PROVE IsOfStore
  BY <1>1, OwnAndHidden, OwnAndHiddenNext DEF IsOfStore
<1>2. ASSUME NEW p \in 1 .. DeclCpartCnt(dsc.version), NEW fields \in NewFields(p), Resize(p, fields)
      PROVE  IsOfStore
  BY <1>2, ResizeIsOfStore DEF IsOfStore, Store!Next
<1>3. ASSUME NEW p \in 1 .. DeclCpartCnt(dsc.version), NEW fields \in NewFields(p),
             ResizeThrows(p, fields)
      PROVE  IsOfStore
  BY <1>3 DEF IsOfStore, ResizeThrows
<1>4. ASSUME NEW p \in 1 .. DeclCpartCnt(dsc.version), NEW limit \in 0 .. 1, NEW pos \in SeekPos,
             NEW way \in Ways, NEW sz \in WriteSzs, Write(p, limit, pos, way, sz)
      PROVE  IsOfStore
  BY <1>4, WriteIsOfStore DEF IsOfStore, Store!Next
<1>5. ASSUME NEW p \in 1 .. DeclCpartCnt(dsc.version), NEW c \in Copies, Copy(p, c[1], c[2], c[3])
      PROVE  IsOfStore
  BY <1>5, CopyIsOfStore DEF IsOfStore, Store!Next
<1>6. ASSUME NEW version \in Versions, Reopen(version)
      PROVE  IsOfStore
  BY <1>6, ReopenIsOfStore DEF IsOfStore, Store!Next
<1>7. ASSUME NEW d \in NewDescriptors, Renew(d)
      PROVE  IsOfStore
  BY <1>7, RenewIsOfStore DEF IsOfStore, Store!Next
<1>8. CASE UNCHANGED vars
  BY <1>1, <1>8 DEF vars
<1>9. CASE Sync
  BY <1>1, <1>9 DEF Sync
<1> QED
  BY <1>2, <1>3, <1>4, <1>5, <1>6, <1>7, <1>8, <1>9 DEF Next

(***************************************************************************)
(* Where the space of a segment is never more than its content (the bytes  *)
(* that remain of its subblocks are inline), the descriptor is a store of  *)
(* content: a version resizes, writes and copies what it knows of and what *)
(* another has added after it stays, byte by byte, as it was; and none is  *)
(* lost when another version opens the file (descriptor.h:510). Where the  *)
(* space has a padding, see FutureIsKept of DescriptorContent_padding.     *)
(***************************************************************************)
THEOREM ContentIsKept ==
  ASSUME NoPadding
  PROVE  Spec => ImplementsContentStore
<1>1. Init => Store!Init
  BY InitIsOfStore
<1>2. ContentInvariant /\ [Next]_vars => [IsOfStore]_vars
  BY StepIsOfStore
<1>3. Spec => Store!Init /\ [][IsOfStore]_vars
  BY <1>1, <1>2, ContentIsInvariant, PTL DEF Spec
<1> QED
  BY <1>3 DEF ImplementsContentStore, IsOfStore

(***************************************************************************)
(* Where there is no padding the words of the header file are true: every  *)
(* resize keeps the future content (descriptor.h:510). The run that finds  *)
(* it lost needs a subblock whose last bytes are too many to be inline.    *)
(***************************************************************************)
THEOREM NoResizeLosesTheFuture ==
  ASSUME NoPadding
  PROVE  Spec => FutureIsKept
<1> DEFINE ResizesKeepIt == \A p \in 1 .. DeclCpartCnt(dsc.version) :
                     (\E fields \in NewFields(p) : Resize(p, fields)) => Hidden' = Hidden
<1>1. ContentInvariant /\ [Next]_vars => [ResizesKeepIt]_vars
  <2>1. ASSUME ContentInvariant, NEW p \in 1 .. DeclCpartCnt(dsc.version),
               NEW fields \in NewFields(p), Resize(p, fields)
        PROVE  Hidden' = Hidden
    BY <2>1, ResizeIsOfStore DEF Store!Resize
  <2> QED
    BY <2>1
<1>2. Spec => [][ResizesKeepIt]_vars
  BY <1>1, ContentIsInvariant, PTL DEF Spec
<1> QED
  BY <1>2 DEF FutureIsKept
=============================================================================
