---------------------------- MODULE DescriptorSet ----------------------------
(***************************************************************************)
(* The descriptor sets of a file (dsc/descriptor_set.cpp): a tree of sets  *)
(* whose leaves are plain descriptors. A set keeps its descriptors in a    *)
(* stream of cells (the blocks of two bytes of its st_blkarr), that lives  *)
(* in a segment of blocks of the file (dset_segm); the record of a nested  *)
(* set, in the stream of its owner, has that segment. The user changes the *)
(* tree in memory and the sets keep what is pending; full_sync writes it,  *)
(* the nested sets first, one set per step.                                *)
(*                                                                         *)
(* Simplified: the allocators give the lowest space that fits (what they   *)
(* promise is in SpaceAllocator and FreeMapSpec); a segment grows by whole *)
(* blocks at its end; an extent is the set of its cells; a checksum is the *)
(* bag of the records it covers.                                           *)
(***************************************************************************)
EXTENDS Integers, Sequences, FiniteSets, Bags, FiniteSetsExt, SequencesExt

CONSTANTS
  Plain, Sets,      (* The descriptors that may exist.                     *)
  Root, NoSet,      (* The root set, and the owner of who has none.        *)
  Values, CellsOf,  (* The data of a plain descriptor, and its size.       *)
  WithContent,      (* The plain descriptors with a block of content.      *)
  HeaderCells,      (* The header of a stream: 4 bytes.                    *)
  CellsPerBlk,      (* What the allocator of the file gives at least.      *)
  Usage,            (* What the user does that the code allows but that   *)
                    (* breaks it: "assign_anytime", "rely_on_notify",      *)
                    (* "erase_nested".                                     *)
  Reopens,          (* Whether the file is opened again.                   *)
  Releases,         (* The arguments of full_sync.                         *)
  MaxBlks,          (* Bound: the blocks of the file.                      *)
  MaxCalls          (* Bound: the changes and the reopens of a behaviour.  *)
                    (* Syncs are not bounded.                              *)

ASSUME SetsAssumption ==
  /\ Root \in Sets /\ NoSet \notin Plain \cup Sets /\ Plain \cap Sets = {}
  /\ CellsOf \in [Values -> Nat \ {0}] /\ WithContent \subseteq Plain
  /\ {HeaderCells, CellsPerBlk} \subseteq Nat \ {0}
  /\ IsFiniteSet(Plain \cup Sets) /\ {MaxBlks, MaxCalls} \subseteq Nat
  /\ Usage \subseteq {"assign_anytime", "rely_on_notify", "erase_nested"}
  /\ Reopens \in BOOLEAN /\ Releases \subseteq BOOLEAN

VARIABLES
  dsc,      (* The descriptors; of a set, the part its owner sees.         *)
  sets,     (* The sets, and the bytes of their segments.                  *)
  in_use,   (* The blocks the allocator of the file has given,             *)
  dirty,    (* and the ones that were given back, with what they had.      *)
  todo,     (* The sets a full_sync in course has still to sync.           *)
  release,  (* Its argument.                                               *)
  loaded,   (* Ghost: whether the tree was loaded from the file.           *)
  calls

vars == <<dsc, sets, in_use, dirty, todo, release, loaded, calls>>

Dscs == Plain \cup Sets
Blks == 1 .. MaxBlks

Zero == <<>>     \* A cell of padding.
Old == <<0>>     \* A cell with what its block had before.
Header == <<1>>
PartOf(r, i) == <<r, i>>

\* data: of a plain descriptor, its value; of a set, the segment in its
\* header. written: the record its checksum is of, if it was written.
Absent == [owner |-> NoSet, data |-> <<>>, pid |-> FALSE, ext |-> {},
           content |-> {}, written |-> {}, notified |-> FALSE]

EmptySet == [segm |-> <<>>, past |-> 0, used |-> {}, cells |-> <<>>,
             to_add |-> {}, to_update |-> {}, to_remove |-> {},
             to_destroy |-> {}, sum |-> EmptyBag]

Record(d, r) == [dsc |-> d, data |-> r.data, pid |-> r.pid]

\* calc_struct_footprint_size: a set that is not empty has its segment too,
\* and an id is written only when it is persistent.
Footprint(d, r) ==
  (IF d \in Plain THEN CellsOf[r.data[1]] ELSE IF r.data = <<>> THEN 1 ELSE 2)
  + (IF r.pid THEN 1 ELSE 0)

Members(ds, s) == {d \in Dscs : ds[d].owner = s}

\* The set whose memory d is part of: its owner or who is to destroy it.
Holder(ds, ss, d) ==
  IF ds[d].owner # NoSet THEN ds[d].owner
  ELSE LET H == {s \in Sets : d \in ss[s].to_destroy}
       IN IF H = {} THEN NoSet ELSE CHOOSE s \in H : TRUE

\* d and who is above it, where up gives who is directly above.
Above(up, d) ==
  LET at[n \in 0 .. Cardinality(Sets)] ==
        IF n = 0 THEN d
        ELSE IF at[n - 1] = NoSet THEN NoSet ELSE up[at[n - 1]]
  IN {at[n] : n \in DOMAIN at} \ {NoSet}

Owners(ds) == [d \in Dscs |-> ds[d].owner]
Holders(ds, ss) == [d \in Dscs |-> Holder(ds, ss, d)]

Tree(s) == {t \in Sets : s \in Above(Owners(dsc), t)}
InTree(d) == Root \in Above(Owners(dsc), d)
Exists(d) == d = Root \/ Holder(dsc, sets, d) # NoSet

-----------------------------------------------------------------------------
(* The calls of the user                                                   *)

\* The checksum of a set without the ones of the descriptors of D.
SumWithout(sum, ds, D) == sum (-) SetToBag(UNION {ds[d].written : d \in D})

\* Mutant of Adopted: what was written elsewhere is not written again.
AdoptedUnlessWritten(ds, ss, d, s) ==
  [ss EXCEPT ![s].to_add = IF ds[d].written = {} THEN @ \cup {d} ELSE @]

\* set_owner, that takes the descriptor as having notified its changes.
SetOwner(r, s) == [r EXCEPT !.owner = s, !.notified = TRUE]

\* add_s: own it and leave it to be written, wherever it was before.
Adopted(ds, ss, d, s) ==
  [ss EXCEPT ![s].to_add = @ \cup {d},
             ![s].sum = @ (+) SetToBag(ds[d].written)]

\* Mutant of KeptToDestroy: what is moved is destroyed too.
KeptToDestroyAlways(S, d, moved) == S.to_destroy \cup {d}

\* d is kept until the flush when it has to be destroyed.
KeptToDestroy(S, d, moved) == IF moved THEN S.to_destroy ELSE S.to_destroy \cup {d}

\* impl_remove. The space of d is kept until the flush too.
Dropped(ds, ss, d, moved) ==
  LET s == ds[d].owner
  IN [ss EXCEPT ![s].to_add = @ \ {d},
                ![s].to_update = @ \ {d},
                ![s].to_remove = @ \cup {ds[d].ext},
                ![s].to_destroy = KeptToDestroy(ss[s], d, moved),
                ![s].sum = SumWithout(@, ds, {d})]

Notified(ss, s, d) ==
  IF d \in ss[s].to_add THEN ss ELSE [ss EXCEPT ![s].to_update = @ \cup {d}]

\* The lowest n blocks the allocator of the file has not given.
NewBlks(used, n) ==
  LET FreeAfter(b) == Min({c \in b + 1 .. Max({b} \cup used) + 1 : c \notin used})
      blk[i \in 0 .. n] == IF i = 0 THEN 0 ELSE FreeAfter(blk[i - 1])
  IN [i \in 1 .. n |-> blk[i]]

Idle == todo = {}
Called ==
  /\ calls < MaxCalls /\ calls' = calls + 1
  /\ UNCHANGED <<dirty, todo, release, loaded>>

Add(s, d, value, pid) ==
  /\ Idle /\ InTree(s) /\ ~Exists(d)
  /\ d \in Sets => value = <<>> /\ ~pid
  /\ d \in Plain => value # <<>>
  /\ LET content == IF d \in WithContent THEN NewBlks(in_use, 1) ELSE <<>>
     IN /\ ToSet(content) \subseteq Blks
        /\ in_use' = in_use \cup ToSet(content)
        /\ dsc' = [dsc EXCEPT ![d] = SetOwner(
                     [Absent EXCEPT !.data = value, !.pid = pid,
                                    !.content = ToSet(content)], s)]
  /\ sets' = Adopted(dsc, sets, d, s)
  /\ Called

\* A descriptor changes and notifies its owner, if it did not yet since it
\* was written or got its owner; the user may mark it as modified too.
Modify(d, value, marks) ==
  /\ Idle /\ d \in Plain /\ InTree(d) /\ value \notin {<<>>, dsc[d].data}
  /\ marks \/ ~loaded \/ "rely_on_notify" \in Usage
  /\ dsc' = [dsc EXCEPT ![d].data = value, ![d].notified = TRUE]
  /\ sets' = IF dsc[d].notified /\ ~marks THEN sets
             ELSE Notified(sets, dsc[d].owner, d)
  /\ Called /\ UNCHANGED in_use

\* mark_as_modified by the user, who need not have changed anything. For a
\* plain descriptor it is what Modify does.
MarkAsModified(d) ==
  /\ Idle /\ InTree(d) /\ d \in Sets \ {Root}
  /\ sets' = Notified(sets, dsc[d].owner, d)
  /\ Called /\ UNCHANGED <<dsc, in_use>>

\* The code does not check that the new home is not below d: the user must
\* not make cycles (demos/tarlike.cpp).
MoveOut(d, home) ==
  /\ Idle /\ d # Root /\ InTree(d) /\ InTree(home)
  /\ home # dsc[d].owner /\ home \notin Tree(d)
  /\ sets' = Adopted(dsc, Dropped(dsc, sets, d, TRUE), d, home)
  /\ dsc' = [dsc EXCEPT ![d] = [SetOwner(@, home) EXCEPT !.ext = {}]]
  /\ Called /\ UNCHANGED in_use

\* destroy does not reach the sets that were erased from a set, if that set
\* is erased too before it is synced (destroy_no_recursive, 783-788): their
\* blocks are lost until the file is opened again. The user syncs first.
Erase(d) ==
  /\ Idle /\ d # Root /\ InTree(d)
  /\ \/ "erase_nested" \in Usage
     \/ \A t \in Tree(d) : sets[t].to_destroy \cap Sets = {}
  /\ sets' = Dropped(dsc, sets, d, FALSE)
  /\ dsc' = [dsc EXCEPT ![d] = SetOwner(@, NoSet)]
  /\ Called /\ UNCHANGED in_use

\* clear_set: the set and, before it, the ones below. It loses the blocks of
\* the sets that are not directly in s, as Erase may.
ClearSet(s) ==
  /\ Idle /\ InTree(s) /\ Members(dsc, s) # {}
  /\ \/ "erase_nested" \in Usage
     \/ \A t \in Tree(s) \ {s} : (Members(dsc, t) \cup sets[t].to_destroy) \cap Sets = {}
  /\ sets' = [t \in Sets |->
       IF t \notin Tree(s) THEN sets[t]
       ELSE LET M == Members(dsc, t)
            IN [sets[t] EXCEPT
                  !.to_add = {}, !.to_update = {},
                  !.to_remove = @ \cup {dsc[d].ext : d \in M},
                  !.to_destroy = @ \cup M,
                  !.sum = SumWithout(@, dsc, M)]]
  /\ dsc' = [d \in Dscs |->
       IF dsc[d].owner \in Tree(s) THEN SetOwner(dsc[d], NoSet) ELSE dsc[d]]
  /\ Called /\ UNCHANGED in_use

\* assign_persistent_id: d is added to the set that has it already. The sets
\* of pending descriptors are ordered by id: one whose id changes while it is
\* there with others may end there twice, what is not modelled.
AssignPersistentId(d) ==
  /\ Idle /\ d # Root /\ InTree(d) /\ ~dsc[d].pid
  /\ \/ "assign_anytime" \in Usage
     \/ dsc[d].written = {} /\ sets[dsc[d].owner].to_add = {d}
  /\ sets' = Adopted(dsc, sets, d, dsc[d].owner)
  /\ dsc' = [dsc EXCEPT ![d] = [SetOwner(@, @.owner) EXCEPT !.pid = TRUE]]
  /\ Called /\ UNCHANGED in_use

FullSync(s, rel) ==
  /\ Idle /\ InTree(s)
  /\ todo' = Tree(s) /\ release' = rel
  /\ UNCHANGED <<dsc, sets, in_use, dirty, loaded, calls>>

-----------------------------------------------------------------------------
(* The sync of one set, as the changes it makes to w, that has the         *)
(* variables dsc, sets, in_use and dirty.                                  *)

BlksFor(cells) == (cells + CellsPerBlk - 1) \div CellsPerBlk
BlksOf(ss, T) == UNION {ToSet(ss[t].segm) : t \in T}

GivenBack(w, B) == [w EXCEPT !.in_use = @ \ B, !.dirty = @ \cup B]

\* The stream of s gets cells up to past, in new blocks if it has to.
Grown(w, s, past) ==
  LET S == w.sets[s]
      new == NewBlks(w.in_use, Max({0, BlksFor(past) - Len(S.segm)}))
  IN [w EXCEPT
        !.in_use = @ \cup ToSet(new),
        !.sets[s] = [S EXCEPT
           !.past = past, !.segm = @ \o new,
           !.cells = @ \o [i \in 1 .. Len(new) * CellsPerBlk |->
              IF new[BlksFor(i)] \in w.dirty THEN Old ELSE Zero]]]

\* The first cells a set ever has are its header's.
WithHeader(w, s) ==
  IF w.sets[s].past > 0 \/ Members(w.dsc, s) = {} THEN w
  ELSE [Grown(w, s, HeaderCells) EXCEPT !.sets[s].used = 1 .. HeaderCells]

\* does_require_write
RequiresWrite(S) == S.to_add # {} \/ S.to_update # {} \/ S.to_remove # {}

FirstCells(ext, n) == {c \in ext : c < Min(ext) + n}

\* Mutant of Zeroed: what is given back keeps its bytes.
ZeroedNever(cells, Z) == cells

Zeroed(cells, Z) == [c \in DOMAIN cells |-> IF c \in Z THEN Zero ELSE cells[c]]

\* Who grew is added again, who shrank gives up its last cells, and both
\* and what was removed are zeroed and given back.
Deallocated(w, s) ==
  LET S == w.sets[s]
      Kept(d) == FirstCells(w.dsc[d].ext, Footprint(d, w.dsc[d]))
      grown == {d \in S.to_update :
                  Cardinality(w.dsc[d].ext) < Footprint(d, w.dsc[d])}
      pending == S.to_remove \cup {w.dsc[d].ext : d \in grown}
                   \cup {w.dsc[d].ext \ Kept(d) : d \in S.to_update \ grown}
  IN [w EXCEPT
        !.dsc = [d \in Dscs |->
           IF d \in grown THEN [w.dsc[d] EXCEPT !.ext = {}]
           ELSE IF d \in S.to_update THEN [w.dsc[d] EXCEPT !.ext = Kept(d)]
           ELSE w.dsc[d]],
        !.sets[s] = [S EXCEPT
           !.to_add = @ \cup grown, !.to_remove = {},
           !.used = @ \ UNION pending,
           !.cells = Zeroed(@, UNION pending)]]

\* destroy of the descriptors to destroy and of the sets below them. A set
\* erased from a set that is then erased is not reached: destroy does not
\* recurse in to_destroy (destroy_no_recursive).
Destroyed(w, s) ==
  LET D == w.sets[s].to_destroy
      below == {t \in Sets : Above(Owners(w.dsc), t) \cap D # {}}
      plain == {d \in Plain : d \in D \/ Holder(w.dsc, w.sets, d) \in below}
      gone == {d \in Dscs : Above(Holders(w.dsc, w.sets), d) \cap D # {}}
      freed == BlksOf(w.sets, below) \cup UNION {w.dsc[d].content : d \in plain}
  IN [GivenBack(w, freed) EXCEPT
        !.dsc = [d \in Dscs |-> IF d \in gone THEN Absent ELSE w.dsc[d]],
        !.sets = [t \in Sets |-> IF t \in gone THEN EmptySet
                                 ELSE IF t = s THEN [w.sets[t] EXCEPT !.to_destroy = {}]
                                 ELSE w.sets[t]]]

\* alloc_single_extent of the place of d: in the free cells, or at the end.
Placed(w, s, d) ==
  LET S == w.sets[s]
      n == Footprint(d, w.dsc[d])
      gaps == {c \in 1 .. S.past : c .. c + n - 1 \subseteq (1 .. S.past) \ S.used}
      ext == IF gaps # {} THEN Min(gaps) .. Min(gaps) + n - 1 ELSE S.past + 1 .. S.past + n
      v == Grown(w, s, Max({S.past} \cup ext))
  IN [v EXCEPT !.dsc[d].ext = ext, !.sets[s].used = @ \cup ext]

\* The space the segment did not have before the additions is zeroed.
Filled(w, s, had) ==
  [w EXCEPT !.sets[s].cells = Zeroed(@, had + 1 .. Len(@))]

Allocated(w, s, order) ==
  LET after[n \in 0 .. Len(order)] ==
        IF n = 0 THEN w ELSE Placed(after[n - 1], s, order[n])
  IN Filled(after[Len(order)], s, Len(w.sets[s].cells))

\* Mutant of Acked: the descriptor is left as having notified its changes.
AckedStillNotified(r, rec) == [r EXCEPT !.written = {rec}]

\* What writing its record, and ack_descriptor_changed, do to a descriptor.
Acked(r, rec) == [r EXCEPT !.written = {rec}, !.notified = FALSE]

\* Every pending descriptor writes its record and is up to date.
Written(w, s) ==
  LET S == w.sets[s]
      D == S.to_update \cup S.to_add
      rec == [d \in D |-> Record(d, w.dsc[d])]
      Cell(c) ==
        IF c <= HeaderCells THEN Header
        ELSE LET at == {d \in D : c \in w.dsc[d].ext}
             IN IF at = {} THEN S.cells[c]
                ELSE LET d == CHOOSE d \in at : TRUE
                     IN PartOf(rec[d], c - Min(w.dsc[d].ext) + 1)
  IN [w EXCEPT
        !.dsc = [d \in Dscs |-> IF d \in D THEN Acked(w.dsc[d], rec[d]) ELSE w.dsc[d]],
        !.sets[s] = [S EXCEPT
           !.cells = [c \in DOMAIN @ |-> Cell(c)],
           !.to_add = {}, !.to_update = {},
           !.sum = SumWithout(@, w.dsc, D) (+) SetToBag({rec[d] : d \in D})]]

\* notify_descriptor_changed, when the set has another segment.
Notifies(w, s, segm) ==
  IF w.sets[s].segm = segm \/ s = Root \/ w.dsc[s].notified THEN w
  ELSE [w EXCEPT !.sets = Notified(@, w.dsc[s].owner, s), !.dsc[s].notified = TRUE]

\* write_modified_descriptors
Flushed(w, s, order) ==
  LET h == WithHeader(w, s)
  IN IF ~RequiresWrite(h.sets[s]) THEN h
     ELSE Notifies(Written(Allocated(Destroyed(Deallocated(h, s), s), s, order), s),
                   s, h.sets[s].segm)

\* Mutant of Released: the cells of the blocks that are given back stay.
ReleasedKeepsCells(w, s) ==
  LET S == w.sets[s]
      used == IF Members(w.dsc, s) = {} THEN {} ELSE S.used
      n == BlksFor(Max({0} \cup used))
  IN [GivenBack(w, ToSet(SubSeq(S.segm, n + 1, Len(S.segm)))) EXCEPT
        !.sets[s] = [S EXCEPT !.used = used, !.past = Max({0} \cup used),
                              !.segm = SubSeq(@, 1, n)]]

\* release_free_space_no_recursive: the free cells of the end are given
\* back, or everything if the set has nothing. The owner is not notified.
Released(w, s) ==
  LET S == w.sets[s]
      used == IF Members(w.dsc, s) = {} THEN {} ELSE S.used
      n == BlksFor(Max({0} \cup used))
  IN [GivenBack(w, ToSet(SubSeq(S.segm, n + 1, Len(S.segm)))) EXCEPT
        !.sets[s] = [S EXCEPT
           !.used = used, !.past = Max({0} \cup used),
           !.segm = SubSeq(@, 1, n), !.cells = SubSeq(@, 1, n * CellsPerBlk)]]

\* update_header, with update_content_parts
WithHeaderUpdated(w, s) ==
  [w EXCEPT !.dsc[s].data = IF Members(w.dsc, s) = {} THEN <<>> ELSE w.sets[s].segm]

\* Who is to be placed: the pending descriptors that have no place or whose
\* place is too small, in the order of their ids, that may be any.
ToPlace(s) ==
  sets[s].to_add \cup {d \in sets[s].to_update :
                         Cardinality(dsc[d].ext) < Footprint(d, dsc[d])}

SyncSet(s) ==
  /\ s \in todo
  /\ \A t \in todo : dsc[t].owner # s
  /\ \E order \in SetToSeqs(ToPlace(s)) :
       LET f == Flushed([dsc |-> dsc, sets |-> sets, in_use |-> in_use, dirty |-> dirty],
                      s, order)
           w == WithHeaderUpdated(IF release THEN Released(f, s) ELSE f, s)
       IN /\ f.in_use \subseteq Blks
          /\ dsc' = w.dsc /\ sets' = w.sets
          /\ in_use' = w.in_use /\ dirty' = w.dirty
  /\ todo' = todo \ {s}
  /\ release' = (release /\ todo' # {})
  /\ UNCHANGED <<loaded, calls>>

-----------------------------------------------------------------------------
(* Opening the file again                                                  *)

Pending(s) == sets[s].to_add \cup sets[s].to_update # {} \/ sets[s].to_remove # {}
AllSynced == \A s \in Sets : InTree(s) => ~Pending(s)

Starts(s) == {c \in DOMAIN sets[s].cells :
                /\ Len(sets[s].cells[c]) = 2 /\ sets[s].cells[c][2] = 1}
StreamRecs(s) == {sets[s].cells[c][1] : c \in Starts(s)}

\* What the blocks of the header have after it: 8 bytes or more are given for
\* 4, and the flush does not fill them with zeros (descriptor_set.cpp:535).
Leftover == HeaderCells + 1 .. BlksFor(HeaderCells) * CellsPerBlk

\* The cells after the header are padding and whole records, but for the ones
\* of old that may have what their block had before.
IsReadableBut(s, old) ==
  \A c \in DOMAIN sets[s].cells :
    LET cell == sets[s].cells[c]
    IN IF c <= HeaderCells THEN cell = Header
       ELSE \/ cell = Zero
            \/ c \in old /\ cell = Old
            \/ /\ Len(cell) = 2
               /\ cell[2] > 1 => sets[s].cells[c - 1] = PartOf(cell[1], cell[2] - 1)
               /\ cell[2] < Footprint(cell[1].dsc, cell[1]) =>
                    /\ c + 1 \in DOMAIN sets[s].cells
                    /\ sets[s].cells[c + 1] = PartOf(cell[1], cell[2] + 1)

\* The segment a nested set is read from when the file is opened again.
StoredSegm(s) ==
  IF s = Root THEN sets[s].segm ELSE (CHOOSE r \in dsc[s].written : TRUE).data

StoredSegmIsRight(s) ==
  \/ StoredSegm(s) = sets[s].segm
  \/ StoredSegm(s) = <<>> /\ Members(dsc, s) = {}

\* The sets whose streams have a record of d, and its cells there.
Homes(d) == {s \in Sets : \E r \in StreamRecs(s) : r.dsc = d}
CellsOfRec(s, r) == {c \in DOMAIN sets[s].cells :
                       Len(sets[s].cells[c]) = 2 /\ sets[s].cells[c][1] = r}

\* load_set, of an image without old bytes: the tree is the one of the
\* records, and what no record takes in a segment is free. Who is loaded gets
\* its owner by set_owner, as if it had changes to write.
Reopen ==
  /\ Reopens /\ Idle /\ AllSynced
  /\ \A s \in Sets : InTree(s) => IsReadableBut(s, {}) /\ StoredSegmIsRight(s)
  /\ \A d \in Dscs : Cardinality(Homes(d)) <= 1
  /\ \A s \in Sets : Cardinality(Starts(s)) = Cardinality(StreamRecs(s))
  /\ dsc' = [d \in Dscs |->
       IF Homes(d) = {} THEN [Absent EXCEPT !.data = IF d = Root THEN dsc[d].data ELSE <<>>]
       ELSE LET s == CHOOSE s \in Homes(d) : TRUE
                r == CHOOSE r \in StreamRecs(s) : r.dsc = d
            IN SetOwner([Absent EXCEPT
                  !.data = r.data, !.pid = r.pid, !.written = {r},
                  !.ext = CellsOfRec(s, r), !.content = dsc[d].content], s)]
  /\ sets' = [s \in Sets |->
       IF ~InTree(s) \/ StoredSegm(s) = <<>> THEN EmptySet
       ELSE LET recs == StreamRecs(s)
            IN [EmptySet EXCEPT
                  !.segm = sets[s].segm, !.cells = sets[s].cells,
                  !.past = Len(sets[s].cells),
                  !.used = 1 .. HeaderCells \cup UNION {CellsOfRec(s, r) : r \in recs},
                  !.sum = SetToBag(recs)]]
  /\ in_use' = BlksOf(sets', Sets) \cup UNION {dsc'[d].content : d \in Dscs}
  /\ dirty' = dirty \cup (in_use \ in_use')
  /\ loaded' = TRUE
  /\ calls < MaxCalls /\ calls' = calls + 1
  /\ UNCHANGED <<todo, release>>

-----------------------------------------------------------------------------
Init ==
  /\ dsc = [d \in Dscs |-> Absent]
  /\ sets = [s \in Sets |-> EmptySet]
  /\ in_use = {} /\ dirty = {} /\ todo = {} /\ release = FALSE
  /\ loaded = FALSE /\ calls = 0

UserCall ==
  \/ \E d \in Dscs :
       \/ \E s \in Sets, v \in {<<>>} \cup {<<u>> : u \in Values}, pid \in BOOLEAN :
            Add(s, d, v, pid)
       \/ \E u \in Values, marks \in BOOLEAN : Modify(d, <<u>>, marks)
       \/ MarkAsModified(d) \/ Erase(d) \/ AssignPersistentId(d)
       \/ \E s \in Sets : MoveOut(d, s)
  \/ \E s \in Sets :
       ClearSet(s) \/ \E rel \in Releases : FullSync(s, rel)

Next == UserCall \/ Reopen \/ \E s \in Sets : SyncSet(s)

Spec == Init /\ [][Next]_vars

-----------------------------------------------------------------------------
TypeOK ==
  /\ \A d \in Dscs :
       /\ dsc[d].owner \in Sets \cup {NoSet} /\ dsc[d].owner # d
       /\ dsc[d].pid \in BOOLEAN /\ dsc[d].notified \in BOOLEAN
       /\ dsc[d].content \subseteq Blks /\ Cardinality(dsc[d].written) <= 1
  /\ \A s \in Sets :
       /\ sets[s].segm \in Seq(Blks) /\ sets[s].past \in Nat
       /\ Len(sets[s].cells) = Len(sets[s].segm) * CellsPerBlk
       /\ sets[s].past <= Len(sets[s].cells)
       /\ sets[s].used \subseteq 1 .. sets[s].past
       /\ sets[s].to_add \cup sets[s].to_update \cup sets[s].to_destroy \subseteq Dscs
  /\ in_use \cup dirty \subseteq Blks /\ todo \subseteq Sets /\ release \in BOOLEAN
  /\ loaded \in BOOLEAN /\ calls \in 0 .. MaxCalls

\* Nobody writes on another. The cells the allocator of a stream has given
\* are the header's, and of one descriptor or of one pending removal each.
CellsAreHeld(s) ==
  LET S == sets[s]
      M == Members(dsc, s)
      header == IF S.past = 0 THEN {} ELSE 1 .. HeaderCells
  IN /\ S.used = header \cup (UNION S.to_remove) \cup UNION {dsc[d].ext : d \in M}
     /\ \A x \in S.to_remove : \A y \in S.to_remove \ {x} : x \cap (header \cup y) = {}
     /\ \A d \in M :
          /\ dsc[d].ext \cap (header \cup UNION S.to_remove) = {}
          /\ \A e \in M \ {d} : dsc[d].ext \cap dsc[e].ext = {}

\* Every block the allocator of the file has given is of the segment of one
\* set or the content of one descriptor, and these have their blocks. With
\* CellsAreHeld: no cell is lost or given back twice by a flush; what is
\* erased, with the sets below it, is given back once, and what is moved
\* keeps its content.
SpaceIsHeld ==
  LET S == {s \in Sets : Exists(s)}
      D == {d \in Plain : Exists(d)}
      Segm(s) == ToSet(sets[s].segm)
  IN /\ \A s \in S : CellsAreHeld(s)
     /\ in_use = BlksOf(sets, S) \cup UNION {dsc[d].content : d \in D}
     /\ \A s \in S :
          /\ IsInjective(sets[s].segm)
          /\ \A t \in S \ {s} : Segm(s) \cap Segm(t) = {}
          /\ \A d \in D : Segm(s) \cap dsc[d].content = {}
     /\ \A d \in D :
          /\ \A e \in D \ {d} : dsc[d].content \cap dsc[e].content = {}
          /\ d \in WithContent => dsc[d].content # {}

\* What was changed in memory is not forgotten: while it is not what was
\* written last, the descriptor is pending in the set that owns it, although
\* it notifies its changes once and may be moved before they are written.
NothingIsForgotten ==
  \A d \in Plain : InTree(d) =>
    LET S == sets[dsc[d].owner]
    IN /\ dsc[d].ext = {} => d \in S.to_add
       /\ dsc[d].written # {Record(d, dsc[d])} => d \in S.to_add \cup S.to_update

\* A set with nothing pending has in its stream one record of each of its
\* descriptors, the last one, and padding: what is loaded again is what the
\* set owned. And its header has the checksum of those records, as the
\* assertion at the end of write_modified_descriptors says (602-614). Only
\* the cells that the header left of its blocks may still have what these had
\* before, if they were of somebody else: load_set refuses such a stream,
\* since it takes the checksum of all of it (191-203).
StreamIsTheSet ==
  \A s \in Sets : InTree(s) /\ ~Pending(s) =>
    /\ \A r \in StreamRecs(s) : dsc[r.dsc].owner = s
    /\ Cardinality(Starts(s)) = Cardinality(Members(dsc, s))
    /\ \A d \in Members(dsc, s) : \E r \in StreamRecs(s) :
         /\ r.dsc = d /\ r.pid = dsc[d].pid
         /\ d \in Plain => r.data = dsc[d].data
    /\ sets[s].segm # <<>> =>
         /\ IsReadableBut(s, Leftover)
         /\ sets[s].sum = [r \in StreamRecs(s) |->
                             Cardinality({c \in Starts(s) : sets[s].cells[c][1] = r})]

\* When no set has anything to write, the record of each nested set, that
\* its owner wrote, has the segment where the set is.
SegmentsAreStored ==
  AllSynced => \A s \in Sets : InTree(s) => StoredSegmIsRight(s)

-----------------------------------------------------------------------------
\* What the owner of a set stores of a descriptor, without its place.
Shown(r) == [dsc |-> r.dsc, pid |-> r.pid,
             data |-> IF r.dsc \in Plain THEN r.data ELSE <<>>]

Store == INSTANCE DescriptorStore WITH
  tree <- [d \in Dscs |->
             IF d # Root /\ InTree(d) THEN {[owner |-> dsc[d].owner, rec |-> Shown(Record(d, dsc[d]))]}
             ELSE {}],
  stored <- [s \in Sets |-> {Shown(r) : r \in StreamRecs(s)}]

\* The sets are a store that changes by syncs only: what a sync of a set
\* writes is its descriptors, and nothing else changes what is stored.
ImplementsStore == Store!Spec
=============================================================================
