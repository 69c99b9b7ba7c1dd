-------------------------------- MODULE File --------------------------------
(***************************************************************************)
(* xoz/file/file: how a file is opened, synced, closed, panic-closed and   *)
(* opened again, over a crash at any point between two writes to the disk. *)
(* Its subject is the header, the trailer, and the trampoline: the blocks  *)
(* that hold the descriptor of the root set when it does not fit in the    *)
(* header; and what the blocks of the sets have when all that is read      *)
(* again, since they are written in place.                                 *)
(*                                                                         *)
(* Simplified: space is given in whole blocks and any choice of free       *)
(* blocks is possible (SegmentAllocator has the details); the array never  *)
(* has slack but within a release, so its end is the end of the file       *)
(* (FileBlockArray); the sets are the blocks that they and their           *)
(* descriptors hold, and load_set accepts what the sets saved as a whole   *)
(* (DescriptorSet); the checksum of the trampoline tells any two contents  *)
(* apart. The file is on disk and each write of a block reaches it in      *)
(* order.                                                                  *)
(***************************************************************************)
EXTENDS Integers, Sequences, FiniteSets, FiniteSetsExt

CONSTANTS
  BlkSz,          (* blk_sz, in units of HEADER_ROOT_SET_SZ.               *)
  HeaderRoom,     (* HEADER_ROOT_SET_SZ: the bytes for the root set.       *)
  Sizes,          (* The footprints that the root set may have.            *)
  MaxExts,        (* The extents of a trampoline that fit in the header.   *)
  BlkNrExhaust,   (* BLK_NR_EXHAUST: the file never has that many blocks.  *)
  Data,           (* What the sets and the descriptors write in a block.   *)
  Blank,          (* What a block of a file that grew has: one of Data.    *)
  Unreadable,     (* What is stored in a file that is refused.             *)
  MaxCalls        (* Bound: the calls and the opens of a behaviour.        *)

ASSUME FileAssumption ==
  /\ BlkSz \in Nat \ {0} /\ HeaderRoom \in Nat
  /\ Sizes \subseteq Nat \ {0} /\ \E sz \in Sizes : sz <= HeaderRoom
  /\ MaxExts \in Nat \ {0}
  /\ BlkNrExhaust \in Nat \ {0, 1}
  /\ MaxCalls \in Nat

begin_blk_nr == 1
AllBlks == begin_blk_nr .. BlkNrExhaust - 1

\* The descriptor of the root set: its footprint, and the blocks that are
\* found from it.
Roots == [sz : Sizes, blks : SUBSET AllBlks]

Contents == Roots \cup Data

\* A root set and what the blocks found from it have.
Image(r, at) == [root |-> r, data |-> [b \in r.blks |-> at[b]]]

ASSUME ContentAssumption ==
  /\ Blank \in Data /\ Data \cap Roots = {}
  /\ \A r \in Roots : Unreadable \notin [root : {r}, data : [r.blks -> Contents]]

VARIABLES
  disk,      (* [past_end, tail, header, at]: the end of its whole blocks, *)
             (* the trailers after them, the header and what each block    *)
             (* has.                                                       *)
  root,      (* root_set, as of its last sync,                             *)
  data,      (* and what its blocks had then.                              *)
  held,      (* The blocks of the sets and of their descriptors.           *)
  tramp,     (* The blocks of trampoline_segm.                             *)
  in_use,    (* The blocks that the allocator has given.                   *)
  closing,
  failed,    (* A sync threw and left a trampoline of free blocks.         *)
  mode,      (* "open", "closed", "panicked", "crashed", "refused".        *)
  pc,        (* The next write of the call in progress.                    *)
  call,      (* That call: "full_sync" or "close".                         *)
  calls,
  saved      (* Ghost: the image that the header was written for last, or  *)
             (* that was opened.                                           *)

memory == <<root, data, held, tramp, in_use>>
vars == <<disk, memory, closing, failed, mode, pc, call, calls, saved>>

-----------------------------------------------------------------------------
(* The disk *)

BlksOfFile(d) == begin_blk_nr .. d.past_end - 1
Free == BlksOfFile(disk) \ in_use

\* To grow or to truncate the file is to lose the trailer it has.
Grown(d, past_end) ==
  IF past_end = d.past_end THEN d ELSE [d EXCEPT !.past_end = past_end, !.tail = << >>]

Truncated(d, past_end) ==
  [d EXCEPT !.past_end = past_end, !.tail = << >>,
            !.at = [b \in AllBlks |-> IF b < past_end THEN d.at[b] ELSE Blank]]

\* Mutant of LastInUse: the last block in use is taken for a free one.
LastInUseMissed(used) == Max({begin_blk_nr} \cup used) - 1

LastInUse(used) == Max({begin_blk_nr - 1} \cup used)

\* SegmentAllocator::release with those blocks in use: it truncates only if
\* there is a block to release.
Released(d, used) ==
  LET past_end == LastInUse(used) + 1
  IN  IF past_end = d.past_end THEN d ELSE Truncated(d, past_end)

\* The header tells the root set itself or, if it has a trampoline, where that
\* is and the checksum of the root set.
Header(past_end, r, t) == [past_end |-> past_end, root |-> r, tramp |-> t]

-----------------------------------------------------------------------------
(* A file that create has just written and opened: its trailer is only in  *)
(* memory.                                                                 *)
Init ==
  /\ root \in [sz : {sz \in Sizes : sz <= HeaderRoom}, blks : {{}}]
  /\ disk = [past_end |-> begin_blk_nr, tail |-> << >>,
             header |-> Header(begin_blk_nr, root, {}),
             at |-> [b \in AllBlks |-> Blank]]
  /\ data = [b \in {} |-> Blank] /\ saved = Image(root, disk.at)
  /\ held = {} /\ tramp = {} /\ in_use = {}
  /\ closing = FALSE /\ failed = FALSE
  /\ mode = "open" /\ pc = "idle" /\ call = "full_sync"
  /\ calls = 0

(* The user of an open file, and the sync of its sets, that does the same. *)
Usable == mode = "open" /\ pc = "idle"
Called == calls < MaxCalls /\ calls' = calls + 1
UserOrSets == mode = "open" /\ pc \in {"idle", "sets"} /\ Called

\* Space for the sets or for the descriptors, in the file or at its end.
Alloc(b) ==
  /\ UserOrSets
  /\ b \in Free \/ (b = disk.past_end /\ b < BlkNrExhaust)
  /\ disk' = Grown(disk, Max({b + 1, disk.past_end}))
  /\ held' = held \cup {b}
  /\ in_use' = in_use \cup {b}
  /\ UNCHANGED <<root, data, tramp, closing, failed, mode, pc, call, saved>>

\* It throws, and changes nothing, if b is not given.
Dealloc(b) ==
  /\ UserOrSets
  /\ b \in held /\ b \in in_use
  /\ held' = held \ {b}
  /\ in_use' = in_use \ {b}
  /\ UNCHANGED <<disk, root, data, tramp, closing, failed, mode, pc, call, saved>>

\* In place: the content of a descriptor or a piece of the stream of a set.
Write(b, v) ==
  /\ UserOrSets
  /\ b \in held /\ b \in BlksOfFile(disk)
  /\ disk' = [disk EXCEPT !.at[b] = v]
  /\ UNCHANGED <<memory, closing, failed, mode, pc, call, saved>>

-----------------------------------------------------------------------------
(* full_sync and close, one action per write. The sets write first.        *)

StartSync(c) ==
  /\ Usable /\ Called
  /\ closing' = (closing \/ c = "close")
  /\ pc' = "sets"
  /\ call' = c
  /\ UNCHANGED <<disk, memory, failed, mode, saved>>

\* The sync of the index or of a set throws: closing is not reset.
SyncThrows ==
  /\ mode = "open" /\ pc = "sets"
  /\ pc' = "idle"
  /\ UNCHANGED <<disk, memory, closing, failed, mode, call, calls, saved>>

\* root_set has what was written. A close releases always.
EndSets(release) ==
  /\ mode = "open" /\ pc = "sets"
  /\ call = "close" => release
  /\ root' \in [sz : Sizes, blks : {held}]
  /\ data' = [b \in held |-> disk.at[b]]
  /\ pc' = IF release THEN "release" ELSE "root"
  /\ UNCHANGED <<disk, held, tramp, in_use, closing, failed, mode, call, calls, saved>>

Release ==
  /\ mode = "open" /\ pc = "release"
  /\ disk' = Released(disk, in_use)
  /\ pc' = "root"
  /\ UNCHANGED <<memory, closing, failed, mode, call, calls, saved>>

TrampolineRequired == root.sz > HeaderRoom

\* calc_data_space_size() of the trampoline.
DataSpace(t) == Cardinality(t) * BlkSz
BlkCnt(sz) == (sz + BlkSz - 1) \div BlkSz

ShouldExpand == DataSpace(tramp) < root.sz
ShouldShrink == DataSpace(tramp) \div 2 >= root.sz

ExtCnt(blks) == Cardinality({b \in blks : b - 1 \notin blks})

\* What update_trampoline_space changes: trampoline_segm, the end of the file
\* and the blocks the allocator has given.
Space == [blks |-> tramp, past_end |-> disk.past_end, used |-> in_use]
FreeIn(t) == (begin_blk_nr .. t.past_end - 1) \ t.used

\* dealloc(trampoline_segm), that throws if it meets a block that is free: it
\* may have freed others before.
Deallocs(t) == IF t.blks \subseteq t.used THEN {[t EXCEPT !.used = @ \ t.blks]} ELSE {}
DeallocFails(t) ==
  IF t.blks \subseteq t.used THEN {} ELSE {[t EXCEPT !.used = @ \ x] : x \in SUBSET t.blks}

\* trampoline_segm = alloc(n blocks): some that are free and, if they are not
\* enough, new ones. If it throws it keeps what it took
\* (segment_allocator.cpp:277-278) and trampoline_segm is as it was.
Allocs(t, n) ==
  {[blks |-> x[1] \cup (t.past_end .. t.past_end + x[2] - 1), past_end |-> t.past_end + x[2],
    used |-> t.used \cup x[1] \cup (t.past_end .. t.past_end + x[2] - 1)] :
     x \in {x \in (SUBSET FreeIn(t)) \X (0 .. BlkNrExhaust - t.past_end) :
              Cardinality(x[1]) + x[2] = n}}
AllocFails(t, n) ==
  IF Allocs(t, n) # {} THEN {}
  ELSE {[a EXCEPT !.blks = t.blks] : a \in UNION {Allocs(t, m) : m \in 0 .. n - 1}}

\* It deallocates the trampoline and allocates another if it has to, in one
\* extent if the first has too many for the header.
Resizes == ShouldExpand \/ ShouldShrink
Fits(t) == ExtCnt(t.blks) <= MaxExts

Resized ==
  IF Resizes THEN UNION {Allocs(t, BlkCnt(root.sz)) : t \in Deallocs(Space)} ELSE {Space}
ResizeFails ==
  IF Resizes
  THEN DeallocFails(Space) \cup UNION {AllocFails(t, BlkCnt(root.sz)) : t \in Deallocs(Space)}
  ELSE {}

SingleExtents(t) == {a \in Allocs(t, BlkCnt(root.sz)) : ExtCnt(a.blks) = 1}
Compacted(t) == UNION {SingleExtents(d) : d \in Deallocs(t)}
CompactFails(t) == DeallocFails(t) \cup {d \in Deallocs(t) : SingleExtents(d) = {}}

TrampolineSpaces ==
  {t \in Resized : Fits(t)} \cup UNION {Compacted(t) : t \in {u \in Resized : ~ Fits(u)}}
TrampolineFails ==
  ResizeFails \cup UNION {CompactFails(t) : t \in {u \in Resized : ~ Fits(u)}}

TakesSpace(t) ==
  /\ tramp' = t.blks /\ in_use' = t.used /\ disk' = Grown(disk, t.past_end)
  /\ UNCHANGED <<root, data, held>>

\* write_root_set when the root set does not fit in the header.
UpdateTrampoline ==
  /\ mode = "open" /\ pc = "root" /\ TrampolineRequired
  /\ \E t \in TrampolineSpaces : TakesSpace(t)
  /\ pc' = "trampoline"
  /\ UNCHANGED <<closing, failed, mode, call, calls, saved>>

\* There is no space, after the trampoline was deallocated.
UpdateTrampolineThrows ==
  /\ mode = "open" /\ pc = "root" /\ TrampolineRequired
  /\ \E t \in TrampolineFails : TakesSpace(t)
  /\ failed' = (failed \/ ~ tramp' \subseteq in_use')
  /\ pc' = "idle"
  /\ UNCHANGED <<closing, mode, call, calls, saved>>

WriteTrampoline(b) ==
  /\ mode = "open" /\ pc = "trampoline"
  /\ b \in tramp /\ b \in BlksOfFile(disk) /\ disk.at[b] # root
  /\ disk' = [disk EXCEPT !.at[b] = root]
  /\ UNCHANGED <<memory, closing, failed, mode, pc, call, calls, saved>>

\* The array has no longer some of its blocks.
WriteTrampolineThrows ==
  /\ mode = "open" /\ pc = "trampoline"
  /\ ~ tramp \subseteq BlksOfFile(disk)
  /\ pc' = "idle"
  /\ UNCHANGED <<disk, memory, closing, failed, mode, call, calls, saved>>

\* write_root_set when it fits: the trampoline, if any, is deallocated.
DropTrampoline ==
  /\ mode = "open" /\ pc = "root" /\ ~ TrampolineRequired
  /\ \E t \in Deallocs(Space) : in_use' = t.used
  /\ tramp' = {}
  /\ pc' = "trampoline"
  /\ UNCHANGED <<disk, root, data, held, closing, failed, mode, call, calls, saved>>

DropTrampolineThrows ==
  /\ mode = "open" /\ pc = "root" /\ ~ TrampolineRequired
  /\ \E t \in DeallocFails(Space) : in_use' = t.used
  /\ pc' = "idle"
  /\ UNCHANGED <<disk, root, data, held, tramp, closing, failed, mode, call, calls, saved>>

\* Mutant of LastRelease: what write_root_set deallocated stays in the file.
LastReleaseSkipped == disk

\* write_header releases again if the file is closing.
LastRelease == IF closing THEN Released(disk, in_use) ELSE disk

ReleaseAgain ==
  /\ mode = "open" /\ pc = "trampoline"
  /\ tramp \subseteq BlksOfFile(disk) /\ \A b \in tramp : disk.at[b] = root
  /\ disk' = LastRelease
  /\ pc' = "header"
  /\ UNCHANGED <<memory, closing, failed, mode, call, calls, saved>>

\* blk_total_cnt is blk_cnt() + begin_blk_nr().
WriteHeader ==
  /\ mode = "open" /\ pc = "header"
  /\ disk' = [disk EXCEPT !.header = Header(disk.past_end, root, tramp)]
  /\ pc' = IF call = "close" THEN "truncate" ELSE "idle"
  /\ saved' = [root |-> root, data |-> data]
  /\ UNCHANGED <<memory, closing, failed, mode, call, calls>>

\* FileBlockArray::close truncates always and writes the trailer.
TruncateToClose ==
  /\ mode = "open" /\ pc = "truncate"
  /\ disk' = Truncated(disk, disk.past_end)
  /\ pc' = "trailer"
  /\ UNCHANGED <<memory, closing, failed, mode, call, calls, saved>>

WriteTrailer ==
  /\ mode = "open" /\ pc = "trailer"
  /\ disk' = [disk EXCEPT !.tail = Append(@, "EOF")]
  /\ mode' = "closed"
  /\ closing' = FALSE
  /\ pc' = "idle"
  /\ UNCHANGED <<memory, failed, call, calls, saved>>

-----------------------------------------------------------------------------
(* The other ends of an open file, and its opening. *)

\* Mutant of panic_trailer: a panic looks like a close.
panic_trailer_eof == "EOF"

panic_trailer == "BAD"

\* panic_close writes the trailer where the file ends: nothing is truncated.
PanicClose ==
  /\ mode = "open" /\ pc = "idle"
  /\ disk' = [disk EXCEPT !.tail = Append(@, panic_trailer)]
  /\ mode' = "panicked"
  /\ closing' = FALSE
  /\ UNCHANGED <<memory, failed, pc, call, calls, saved>>

\* The process dies, between any two writes.
Crash ==
  /\ mode = "open"
  /\ mode' = "crashed"
  /\ pc' = "idle"
  /\ UNCHANGED <<disk, memory, closing, failed, call, calls, saved>>

\* load_root_set: the trampoline is in the file, and its checksum is right.
RootIsRead(d) ==
  \A b \in d.header.tramp : b \in BlksOfFile(d) /\ d.at[b] = d.header.root

\* The trailer must be EOF and nothing more.
TrailerIsGood(d) == d.tail = <<"EOF">>

\* initialize_from_allocated refuses extents that overlap or are not in the
\* file.
AllocatorStarts(d) ==
  /\ d.header.root.blks \cup d.header.tramp \subseteq BlksOfFile(d)
  /\ d.header.root.blks \cap d.header.tramp = {}

\* What an open may find; load_set has then to read the sets.
Opens(d) == RootIsRead(d) /\ TrailerIsGood(d) /\ AllocatorStarts(d)

\* Mutant of CollectedSegments: bootstrap_file forgets the trampoline.
CollectedSegmentsOfSets(d) == d.header.root.blks

CollectedSegments(d) == d.header.root.blks \cup d.header.tramp

Loaded(d) == Image(d.header.root, d.at)

\* A new File, with nothing of the old but the disk. One that throws changes
\* nothing: the array that closes truncates to whole blocks, that the file
\* has already, and puts the trailer back.
NotOpen == mode \in {"closed", "panicked", "crashed"}

Open ==
  /\ NotOpen /\ Called
  /\ Opens(disk)
  /\ root' = disk.header.root
  /\ data' = Loaded(disk).data
  /\ held' = disk.header.root.blks
  /\ tramp' = disk.header.tramp
  /\ in_use' = CollectedSegments(disk)
  /\ saved' = Loaded(disk)
  /\ closing' = FALSE /\ failed' = FALSE
  /\ mode' = "open"
  /\ UNCHANGED <<disk, pc, call>>

\* load_set reads any set that was saved as a whole, and may refuse another.
OpenThrows ==
  /\ NotOpen
  /\ ~ Opens(disk) \/ Loaded(disk) # saved
  /\ mode' = "refused"
  /\ UNCHANGED <<disk, memory, closing, failed, pc, call, calls, saved>>

Next ==
  \/ \E b \in AllBlks :
       \/ Alloc(b) \/ Dealloc(b) \/ WriteTrampoline(b)
       \/ \E v \in Data : Write(b, v)
  \/ StartSync("full_sync") \/ StartSync("close") \/ SyncThrows
  \/ \E release \in BOOLEAN : EndSets(release)
  \/ Release \/ UpdateTrampoline \/ UpdateTrampolineThrows \/ WriteTrampolineThrows
  \/ DropTrampoline \/ DropTrampolineThrows \/ ReleaseAgain
  \/ WriteHeader \/ TruncateToClose \/ WriteTrailer
  \/ PanicClose \/ Crash \/ Open \/ OpenThrows

Spec == Init /\ [][Next]_vars

-----------------------------------------------------------------------------
(* Properties *)

\* The type invariant: with it, the asserts that what is in use is in the file.
TypeOK ==
  /\ disk \in [past_end : begin_blk_nr .. BlkNrExhaust,
               tail : {<< >>, <<"EOF">>, <<"BAD">>, <<"EOF", "BAD">>},
               header : [past_end : begin_blk_nr .. BlkNrExhaust, root : Roots, tramp : SUBSET AllBlks],
               at : [AllBlks -> Contents]]
  /\ root \in Roots /\ data \in [root.blks -> Contents]
  /\ \E r \in Roots : saved \in [root : {r}, data : [r.blks -> Contents]]
  /\ in_use \subseteq AllBlks /\ held \subseteq AllBlks /\ tramp \subseteq AllBlks
  /\ mode = "open" => in_use \subseteq BlksOfFile(disk)
  /\ closing \in BOOLEAN /\ failed \in BOOLEAN
  /\ mode \in {"open", "closed", "panicked", "crashed", "refused"}
  /\ pc \in {"idle", "sets", "release", "root", "trampoline", "header", "truncate", "trailer"}
  /\ call \in {"full_sync", "close"} /\ calls \in 0 .. MaxCalls

\* The trampoline is in space of its own, over the reopens of the file that
\* find it in the header, the syncs that move it and those that throw before
\* they do: no set or descriptor is ever given one of its blocks. It is so
\* until a sync throws when it has deallocated the trampoline and finds no
\* space for another (file.cpp:605-623): trampoline_segm still names blocks
\* that are free since.
TrampolineIsApart ==
  mode = "open" /\ ~ failed =>
    /\ tramp \cap held = {}
    /\ tramp \cup held \subseteq in_use /\ in_use \subseteq BlksOfFile(disk)

\* The header of a closed file tells the size that it really has ("the caveat
\* is that it feels fragile", file.cpp:385), whatever write_root_set
\* allocated or deallocated late, and a close gives back the space at its end
\* that the allocator has not given.
HeaderTellsTheFile ==
  mode = "closed" => /\ disk.header.past_end = disk.past_end
                     /\ disk.tail = <<"EOF">>
                     /\ disk.past_end = LastInUse(in_use) + 1

\* A file gives its root set and all its blocks back as it was closed. After
\* a crash it is refused, or gives back the root set that was saved last,
\* never part of one, and its blocks as they were saved or as they were
\* written since. A panic, or a crash after the file changed its size, is
\* noticed. Nothing is said of a file whose trampoline names free blocks, but
\* that its panic is noticed.
Store == INSTANCE FileStore WITH
  memory <- [root |-> root, data |-> data],
  saved <- IF Opens(disk) THEN saved ELSE Unreadable,
  stored <- IF Opens(disk) THEN Loaded(disk) ELSE Unreadable,
  mode <- IF failed /\ mode \in {"open", "closed", "crashed"} THEN "broken"
          ELSE IF NotOpen THEN "closed" ELSE mode

ImplementsFileStore == Store!Spec
=============================================================================
