-------------------------- MODULE DescriptorRecord --------------------------
(***************************************************************************)
(* xoz/dsc/descriptor: how a descriptor is stored, in words of 16 bits.    *)
(* Fields that are often small have room for the small values only, and a  *)
(* word more for the others; empty parts at the end are not stored.        *)
(*                                                                         *)
(* A header is [id, type, cparts, idata]: the parts are a sequence of      *)
(* [csize, segm], the internal data one of words, so isize is its length.  *)
(***************************************************************************)
EXTENDS SegmentRecord

CONSTANTS
  LoIsizeCnt,       (* An isize of so many words has its high bit set, 32. *)
  LoCsizeCnt,       (* 2^15: a csize has a low and a high part.            *)
  ExtTypeThreshold  (* EXTENDED_TYPE_VAL_THRESHOLD.                        *)

ASSUME DescriptorRecordAssumption ==
  /\ LoIsizeCnt \in Nat \ {0}
  /\ LoCsizeCnt \in Nat \ {0}
  /\ ExtTypeThreshold \in Nat

\* All the temporal ids are one, and stored as 0.
TemporalId == 0

\* Of a descriptor that cannot be read, because its persistent id is 0.
BadId == -1

-----------------------------------------------------------------------------
(* What both the footprint and the writer look at *)

HasId(hdr) == hdr.id # TemporalId \/ Len(hdr.idata) >= LoIsizeCnt

\* Mutant of count_incompressible_cparts: the parts that are not empty.
count_nonempty_cparts(cparts) == Cardinality({i \in DOMAIN cparts : cparts[i].csize > 0})

\* The parts up to the last one that is not empty.
count_incompressible_cparts(cparts) ==
  CHOOSE n \in 0 .. Len(cparts) :
    /\ n > 0 => cparts[n].csize > 0
    /\ \A i \in n + 1 .. Len(cparts) : cparts[i].csize = 0

-----------------------------------------------------------------------------
(* Descriptor::write_struct_into, once its checks passed *)

FirstWord(hdr) ==
  [own_content |-> count_incompressible_cparts(hdr.cparts) > 0,
   lo_isize |-> Len(hdr.idata) % LoIsizeCnt,
   has_id |-> HasId(hdr),
   type |-> IF hdr.type < ExtTypeThreshold THEN hdr.type ELSE ExtTypeThreshold]

IdWords(hdr) ==
  IF HasId(hdr)
  THEN <<[hi_isize |-> Len(hdr.idata) \div LoIsizeCnt],
         [id |-> hdr.id]>>
  ELSE << >>

CsizeWords(csize) ==
  IF csize < LoCsizeCnt THEN <<[large |-> FALSE, lo_csize |-> csize]>>
  ELSE <<[large |-> TRUE, lo_csize |-> csize % LoCsizeCnt],
         [hi_csize |-> csize \div LoCsizeCnt]>>

PartsWords(cparts) ==
  LET cnt == count_incompressible_cparts(cparts)
      written == [k \in 1 .. cnt |-> CsizeWords(cparts[k].csize) \o SegmentWords(cparts[k].segm)]
  IN  IF cnt = 0 THEN << >> ELSE <<[content_part_cnt |-> cnt - 1]>> \o FlattenSeq(written)

TypeWords(hdr) == IF hdr.type >= ExtTypeThreshold THEN <<[ex_type |-> hdr.type]>> ELSE << >>

Words(hdr) ==
  <<FirstWord(hdr)>> \o IdWords(hdr) \o PartsWords(hdr.cparts) \o TypeWords(hdr)
  \o [i \in DOMAIN hdr.idata |-> [idata |-> hdr.idata[i]]]

-----------------------------------------------------------------------------
(* Descriptor::calc_struct_footprint_size, in words *)

PartFootprint(part) ==
  (IF part.csize < LoCsizeCnt THEN 1 ELSE 2) + SegmentFootprint(part.segm)

PartsFootprint(cparts) ==
  LET sum[k \in 0 .. Len(cparts)] == IF k = 0 THEN 0 ELSE sum[k - 1] + PartFootprint(cparts[k])
      cnt == count_incompressible_cparts(cparts)
  IN  IF cnt = 0 THEN 0 ELSE 1 + sum[cnt]

Footprint(hdr) ==
  1 + (IF HasId(hdr) THEN 2 ELSE 0)
    + PartsFootprint(hdr.cparts)
    + (IF hdr.type >= ExtTypeThreshold THEN 1 ELSE 0)
    + Len(hdr.idata)

-----------------------------------------------------------------------------
(* Descriptor::load_header_from, from a place in a row of words *)

ReadPart(words, at) ==
  LET large == words[at].large
      segment == ReadSegment(words, at + (IF large THEN 2 ELSE 1))
  IN  [part |-> [csize |-> words[at].lo_csize
                           + (IF large THEN words[at + 1].hi_csize * LoCsizeCnt ELSE 0),
                 segm |-> segment.segm],
       at |-> segment.at]

\* The parts, and the place after them.
read_content_parts(words, at, cnt) ==
  LET ReadOne(was) ==
        LET read == ReadPart(words, was.at)
        IN  [cparts |-> Append(was.cparts, read.part), at |-> read.at]
      parts[k \in 0 .. cnt] ==
        IF k = 0 THEN [cparts |-> << >>, at |-> at] ELSE ReadOne(parts[k - 1])
  IN  parts[cnt]

\* A descriptor may have an id field only for its isize: its id is temporal.
IdOf(field, isize) ==
  IF field = TemporalId /\ isize < LoIsizeCnt THEN BadId ELSE field

ReadHeader(words, at) ==
  LET first == words[at]
      at_parts == at + (IF first.has_id THEN 3 ELSE 1)
      isize == first.lo_isize + (IF first.has_id THEN words[at + 1].hi_isize * LoIsizeCnt ELSE 0)
      parts == IF first.own_content
               THEN read_content_parts(words, at_parts + 1, words[at_parts].content_part_cnt + 1)
               ELSE [cparts |-> << >>, at |-> at_parts]
      is_ex_type == first.type = ExtTypeThreshold
      at_idata == parts.at + (IF is_ex_type THEN 1 ELSE 0)
  IN  [hdr |-> [id |-> IF first.has_id THEN IdOf(words[at + 2].id, isize) ELSE TemporalId,
                type |-> IF is_ex_type THEN words[parts.at].ex_type ELSE first.type,
                cparts |-> parts.cparts,
                idata |-> [i \in 1 .. isize |-> words[at_idata + i - 1].idata]],
       at |-> at_idata + isize]
=============================================================================
