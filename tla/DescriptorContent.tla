-------------------------- MODULE DescriptorContent --------------------------
(***************************************************************************)
(* xoz/dsc/descriptor: the content of a descriptor, its record, and the    *)
(* programs that share it. An old program knows of one size of the first   *)
(* part; a newer one stores after those bytes others, of a size the old    *)
(* one does not know, and a second part. The old one must keep all that:   *)
(* what it does not know of its internal data is future_idata, and what it *)
(* does not declare of a part is future_csize bytes at the end.            *)
(*                                                                         *)
(* The programs are those of the tests (FooV1, FooV3). The allocator is    *)
(* seen by what it gives: whole blocks, subblocks of Unit bytes, and the   *)
(* last bytes inline, in the record, when they are MaxInline or less.      *)
(***************************************************************************)
EXTENDS IO, DescriptorRecord

CONSTANTS
  Unit,            (* The bytes of a subblock.                             *)
  MaxInline,       (* max_inline_sz of the requirements of the allocator.  *)
  MaxCsize,        (* The greatest size in a header, 0x7fffffff.           *)
  MaxIsize,        (* The greatest internal data in words, 127 bytes.      *)
  MemCopyThreshold,(* RESIZE_CONTENT_MEM_COPY_THRESHOLD_SZ.                *)
  Kinds,           (* The <<id, type>> of the descriptors.                 *)
  V1Szs, V2Szs, V3Szs,  (* The sizes that the programs give to their data. *)
  SeekPos,         (* The positions they give to a seek.                   *)
  WriteSzs,        (* The bytes of a write.                                *)
  Copies           (* The copies, <<from, to, size>>.                      *)

ASSUME DescriptorContentAssumption ==
  /\ Unit \in Nat \ {0}
  /\ MaxInline \in Nat
  /\ MaxCsize \in Nat
  /\ 2 * MaxCsize < U32Cnt
  /\ MaxCsize + Unit < U32Cnt
  /\ MemCopyThreshold \in Nat
  /\ V1Szs \cup V2Szs \cup V3Szs \subseteq U32
  /\ SeekPos \subseteq U32
  /\ WriteSzs \subseteq Nat
  /\ Copies \subseteq U32 \X U32 \X U32
  /\ Kinds \subseteq Nat \X Nat

VARIABLES
  dsc,      (* The descriptor in memory, and the bytes of its parts.       *)
  words,    (* Its record, or << >> when it has changed since it was stored. *)
  status    (* "open"; "broken" if a resize threw and took bytes away.     *)

vars == <<dsc, words, status>>

-----------------------------------------------------------------------------
(* The programs *)

Versions == {"old", "new"}

\* The fields of its internal data that a version knows of: the sizes of its
\* data, v1, or v1, v2 and v3.
FieldCnt(version) == IF version = "old" THEN 1 ELSE 3

\* The content parts of its constructor.
DeclCpartCnt(version) == IF version = "old" THEN 1 ELSE 2

\* declare_used_content_space_on_load: old has v1 in the first part and says
\* nothing of others; new has v1 and v2 there, and v3 in the second.
UsedSpace(version, fields, p, csize) ==
  IF p = 1 THEN IF version = "old" THEN fields[1] ELSE fields[1] + fields[2]
  ELSE IF version = "old" THEN csize ELSE fields[3]

\* The byte that a version writes at a position: of new, each is different.
Stamp(version, i) == IF version = "old" THEN 99 ELSE i

-----------------------------------------------------------------------------
(* What the allocator gives *)

Junk == 0

BlkSz == SubblkCntPerBlk * Unit

\* The space of a segment of n bytes.
AllocSz(n) == IF n % Unit <= MaxInline THEN n ELSE n + Unit - (n % Unit)

InlineSz(space) == space % Unit

\* The extents of a space, of the p-th part: all may be any, see SegmentBlockArray.
ExtentsOf(p, space) ==
  LET nr == p * (MaxCsize + 1)
      blks == space \div BlkSz
      subblks == (space % BlkSz) \div Unit
  IN  (IF blks = 0 THEN << >> ELSE <<FullExtent(nr, blks)>>)
      \o (IF subblks = 0 THEN << >>
          ELSE <<SubExtent(nr + blks, SubblkCntPerBlk - subblks .. SubblkCntPerBlk - 1)>>)

SegmOf(p, part) ==
  [exts |-> ExtentsOf(p, part.space),
   raw |-> SubSeq(part.bytes, part.space - InlineSz(part.space) + 1, part.space)]

NoPart == [csize |-> 0, future_csize |-> 0, space |-> 0, bytes |-> << >>]

Allocated(sz) ==
  [NoPart EXCEPT !.space = AllocSz(sz), !.bytes = [i \in 1 .. AllocSz(sz) |-> Junk]]

\* realloc: the bytes that were there and are still in the space are kept.
Realloced(part, sz) ==
  IF part.space = sz THEN part
  ELSE [part EXCEPT
          !.space = AllocSz(sz),
          !.bytes = [i \in 1 .. AllocSz(sz) |->
                       IF i <= Least(sz, part.space) THEN @[i] ELSE Junk]]

\* realloc threw while it expanded: the inline bytes and the subblocks that
\* were at the end were given up.
Curtailed(part) ==
  LET space == part.space - (part.space % BlkSz)
  IN  [part EXCEPT !.space = space, !.bytes = SubSeq(@, 1, space)]

-----------------------------------------------------------------------------
(* Descriptor::resize_content_part *)

PresentSz(part) == part.csize - part.future_csize

FutureIO(part) == SeekRd(NewIO(part.bytes), part.future_csize, "end")
FutureOutIO(part) == SeekWr(NewIO(part.bytes), part.future_csize, "end")

\* The future content follows the present one: it moves towards the end.
Expanded(part, csize_new) ==
  LET was == Realloced(part, csize_new)
      io == SeekRd(FutureOutIO(was), PresentSz(part), "beg")
  IN  [was EXCEPT !.bytes = copy_into_self(io, part.future_csize).bytes]

ShrunkInMemory(part, csize_new) ==
  LET future_data == BytesRead(FutureIO(part), part.future_csize)
      was == Realloced(part, csize_new)
  IN  [was EXCEPT !.bytes = AfterWrite(FutureOutIO(was), future_data).bytes]

\* future_sg is another segment, never given back.
ShrunkInDisk(part, csize_new) ==
  LET future_sg == Allocated(part.future_csize)
      future_io == copy_into(FutureIO(part), NewIO(future_sg.bytes), part.future_csize).dst
      was == Realloced(part, csize_new)
      back == copy_into(SeekRd(future_io, 0, "beg"), FutureOutIO(was), part.future_csize)
  IN  [was EXCEPT !.bytes = back.dst.bytes]

Shrunk(part, csize_new) ==
  IF part.future_csize < MemCopyThreshold THEN ShrunkInMemory(part, csize_new)
  ELSE ShrunkInDisk(part, csize_new)

does_present_csize_fit(part, sz) == sz + part.future_csize <= MaxCsize

\* Mutant of CsizeNew: of the content that is seen only.
CsizeNewSeen(part, sz) == sz

\* What the part has once it is of sz bytes for the version that resizes it.
CsizeNew(part, sz) == sz + part.future_csize

resize_content_part(part, sz) ==
  LET csize_new == CsizeNew(part, sz)
  IN  IF part.csize = 0 /\ sz = 0 THEN part
      ELSE IF part.csize = 0 THEN [Allocated(sz) EXCEPT !.csize = sz]
      ELSE IF csize_new = 0 THEN NoPart
      ELSE LET was == IF part.csize < csize_new THEN Expanded(part, csize_new)
                      ELSE IF part.csize > csize_new THEN Shrunk(part, csize_new)
                      ELSE part
           IN  [was EXCEPT !.csize = csize_new]

\* The realloc of an expansion has no space.
ReallocThrows(part, sz) ==
  /\ part.csize > 0
  /\ part.space < sz + part.future_csize
  /\ part.csize < sz + part.future_csize
  /\ Curtailed(part) # part

-----------------------------------------------------------------------------
(* The header, as it is stored and as it is loaded *)

HeaderOf(d) ==
  [id |-> d.id,
   type |-> d.type,
   cparts |-> [p \in DOMAIN d.cparts |-> [csize |-> d.cparts[p].csize, segm |-> SegmOf(p, d.cparts[p])]],
   idata |-> d.fields \o d.future_idata]

\* Mutant of chk_content_parts_consistency: the space is not looked at.
chk_content_parts_future(cparts) ==
  \A p \in DOMAIN cparts : cparts[p].future_csize <= cparts[p].csize

chk_content_parts_consistency(cparts) ==
  \A p \in DOMAIN cparts :
    /\ cparts[p].future_csize <= cparts[p].csize
    /\ cparts[p].csize <= cparts[p].space
    /\ cparts[p].csize <= MaxCsize

SpaceOf(segm) ==
  LET sz(e) == IF e.is_suballoc THEN SubblkCnt(e) * Unit ELSE e.blk_cnt * BlkSz
      sum[k \in 0 .. Len(segm.exts)] == IF k = 0 THEN 0 ELSE sum[k - 1] + sz(segm.exts[k])
  IN  sum[Len(segm.exts)] + Len(segm.raw)

\* A part as it is loaded; `bytes` is what the blocks of its extents have.
LoadedPart(stored, present, bytes) ==
  LET space == SpaceOf(stored.segm)
  IN  [csize |-> stored.csize,
       future_csize |-> stored.csize - present,
       space |-> space,
       bytes |-> SubSeq(bytes, 1, space - InlineSz(space)) \o stored.segm.raw]

\* The object of a version, loaded from a header. Fields that an older version
\* did not store are 0; parts that it did not store are empty.
Loaded(version, hdr, d) ==
  LET known == FieldCnt(version)
      stored == Len(hdr.idata)
      fields == [i \in 1 .. known |-> IF i <= stored THEN hdr.idata[i] ELSE 0]
      part(p) == IF p > Len(hdr.cparts) THEN NoPart
                 ELSE LoadedPart(hdr.cparts[p], UsedSpace(version, fields, p, hdr.cparts[p].csize),
                                 d.cparts[p].bytes)
      cnt == IF Len(hdr.cparts) < DeclCpartCnt(version) THEN DeclCpartCnt(version)
             ELSE Len(hdr.cparts)
  IN  [version |-> version, id |-> hdr.id, type |-> hdr.type,
       fields |-> fields,
       future_idata |-> SubSeq(hdr.idata, known + 1, stored),
       cparts |-> [p \in 1 .. cnt |-> part(p)]]

NewDescriptor(version, id, type) ==
  [version |-> version, id |-> id, type |-> type,
   fields |-> [i \in 1 .. FieldCnt(version) |-> 0],
   future_idata |-> << >>,
   cparts |-> [p \in 1 .. DeclCpartCnt(version) |-> NoPart]]

-----------------------------------------------------------------------------
NewDescriptors == {NewDescriptor(v, k[1], k[2]) : v \in Versions, k \in Kinds}

Init ==
  /\ dsc \in NewDescriptors
  /\ words = << >>
  /\ status = "open"

\* A program gives new sizes to its data of a part, and so to the part.
Resize(p, fields) ==
  LET sz == UsedSpace(dsc.version, fields, p, 0)
  IN  /\ status = "open"
      /\ fields # dsc.fields
      /\ does_present_csize_fit(dsc.cparts[p], sz)
      /\ dsc' = [dsc EXCEPT !.cparts[p] = resize_content_part(@, sz), !.fields = fields]
      /\ words' = << >>
      /\ UNCHANGED status

ResizeThrows(p, fields) ==
  LET sz == UsedSpace(dsc.version, fields, p, 0)
  IN  /\ status = "open"
      /\ does_present_csize_fit(dsc.cparts[p], sz)
      /\ ReallocThrows(dsc.cparts[p], sz)
      /\ dsc' = [dsc EXCEPT !.cparts[p] = Curtailed(@)]
      /\ words' = << >>
      /\ status' = "broken"

\* get_content_part_io: the future content is out of the limits.
get_content_part_io(part) ==
  LimitWr(LimitRd(NewIO(part.bytes), 0, PresentSz(part)), 0, PresentSz(part))

\* A program limits itself to a part of its data, seeks and writes.
Write(p, limit, pos, way, sz) ==
  LET part == dsc.cparts[p]
      limited == LimitWr(get_content_part_io(part), limit, PresentSz(part) - limit)
      io == SeekWr(limited, pos, way)
  IN  /\ status = "open"
      /\ limit <= PresentSz(part)
      /\ CanWrite(io, sz)
      /\ LET data == [i \in 1 .. sz |-> Stamp(dsc.version, io.wr.at + i)]
         IN  dsc' = [dsc EXCEPT !.cparts[p].bytes = AfterWrite(io, data).bytes]
      /\ words' = << >>
      /\ UNCHANGED status

Copy(p, from, to, sz) ==
  LET io == SeekWr(SeekRd(get_content_part_io(dsc.cparts[p]), from, "beg"), to, "beg")
  IN  /\ status = "open"
      /\ CanRead(io, sz) /\ CanWrite(io, sz)
      /\ dsc' = [dsc EXCEPT !.cparts[p].bytes = copy_into_self(io, sz).bytes]
      /\ words' = << >>
      /\ UNCHANGED status

\* update_header and write_struct_into, or nothing if a check throws.
Sync ==
  /\ chk_content_parts_consistency(dsc.cparts)
  /\ Len(HeaderOf(dsc).idata) <= MaxIsize
  /\ words' = Words(HeaderOf(dsc))
  /\ UNCHANGED <<dsc, status>>

\* The file is closed, nothing being left to store, and another program, or
\* the same, opens it: what the program changed it has notified.
Reopen(version) ==
  /\ status = "open"
  /\ words # << >>
  /\ dsc' = Loaded(version, ReadHeader(words, 1).hdr, dsc)
  /\ UNCHANGED <<words, status>>

\* destroy: all the space is given back and the record erased; another takes its place.
Renew(d) ==
  /\ dsc' = d
  /\ words' = << >>
  /\ status' = "open"

\* The sizes a program may give to its data of a part, the others being as they are.
NewFields(p) ==
  IF dsc.version = "old" THEN {<<n>> : n \in V1Szs}
  ELSE IF p = 1 THEN {<<n1, n2, dsc.fields[3]>> : n1 \in V1Szs, n2 \in V2Szs}
  ELSE {<<dsc.fields[1], dsc.fields[2], n3>> : n3 \in V3Szs}

Next ==
  \/ \E p \in 1 .. DeclCpartCnt(dsc.version) :
       \/ \E fields \in NewFields(p) : Resize(p, fields) \/ ResizeThrows(p, fields)
       \/ \E limit \in 0 .. 1, pos \in SeekPos, way \in Ways, sz \in WriteSzs :
            Write(p, limit, pos, way, sz)
       \/ \E c \in Copies : Copy(p, c[1], c[2], c[3])
  \/ Sync
  \/ \E version \in Versions : Reopen(version)
  \/ \E d \in NewDescriptors : Renew(d)

Spec == Init /\ [][Next]_vars

-----------------------------------------------------------------------------
(* Properties *)

PartsFit == chk_content_parts_consistency(dsc.cparts)

\* A part has a space, its bytes, for what its header counts and for nothing
\* else, unless a resize threw; what the programs know of a part is what they
\* gave it.
TypeOK ==
  /\ status \in {"open", "broken"}
  /\ dsc.version \in Versions
  /\ Len(dsc.fields) = FieldCnt(dsc.version)
  /\ \A p \in DOMAIN dsc.cparts :
       LET part == dsc.cparts[p]
       IN  /\ Len(part.bytes) = part.space
           /\ status = "open" =>
                /\ part.space = AllocSz(part.csize)
                /\ PresentSz(part) = UsedSpace(dsc.version, dsc.fields, p, part.csize)
  /\ status = "open" => PartsFit

(***************************************************************************)
(* What is stored is what is loaded, be the id temporal, the internal data *)
(* or a content large, the type extended, a part empty in the middle or at *)
(* the end, or its last bytes inline: the version that stored it finds the *)
(* same descriptor. And it takes the words that the footprint says, which  *)
(* are those that the set reserved for it.                                 *)
(***************************************************************************)
RecordIsTheDescriptor ==
  status = "open" =>
    \A stored \in {Words(HeaderOf(dsc))} : \A read \in {ReadHeader(stored \o stored, 1)} :
      /\ Len(stored) = Footprint(HeaderOf(dsc))
      /\ read.at = Len(stored) + 1
      /\ Loaded(dsc.version, read.hdr, dsc) = dsc

(***************************************************************************)
(* No record is stored that a program, of any version, could not load: of  *)
(* a part with more bytes than its segment, or less than its owners use.   *)
(***************************************************************************)
RecordsLoad ==
  words # << >> =>
    \A hdr \in {ReadHeader(words, 1).hdr} :
      /\ hdr.id # BadId
      /\ \A p \in DOMAIN hdr.cparts : \A version \in Versions :
           /\ hdr.cparts[p].csize <= SpaceOf(hdr.cparts[p].segm)
           /\ UsedSpace(version, Loaded(version, hdr, dsc).fields, p, hdr.cparts[p].csize)
                <= hdr.cparts[p].csize

(***************************************************************************)
(* Whatever the programs do to their content, each in turn, those of the   *)
(* old version change nothing of what they do not know of (ContentStore).  *)
(***************************************************************************)
AllParts == 1 .. 2

PartOf(p) == IF p \in DOMAIN dsc.cparts THEN dsc.cparts[p] ELSE NoPart
Own == [p \in AllParts |-> SubSeq(PartOf(p).bytes, 1, PresentSz(PartOf(p)))]
Hidden ==
  [p \in AllParts |-> SubSeq(PartOf(p).bytes, PresentSz(PartOf(p)) + 1, PartOf(p).csize)]

Writable(i) == {Stamp(version, i) : version \in Versions}

Store == INSTANCE ContentStore WITH
  Parts <- AllParts,
  Writable <- Writable,
  own <- Own,
  hidden <- Hidden

ImplementsContentStore ==
  /\ Store!Init
  /\ [][status = "open" /\ status' = "open" => UNCHANGED <<Own, Hidden>> \/ Store!Next]_vars

(***************************************************************************)
(* "The method will preserve any 'future' content behind the scene storing *)
(* it at the end of the content space" (descriptor.h:510): of all resizes. *)
(***************************************************************************)
FutureIsKept ==
  [][\A p \in 1 .. DeclCpartCnt(dsc.version) :
       (\E fields \in NewFields(p) : Resize(p, fields)) => Hidden' = Hidden]_vars
=============================================================================
