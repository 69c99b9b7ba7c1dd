# A TLA+ model of xoz

xoz (C++20, `src/xoz`) is a library for files that hold a tree of objects
("descriptors"), each with some content: a small single-file object store. It
runs on one thread. What is hard in it is not concurrency: it is that the space
of the file is kept in several structures that must always agree (two indexes of
each free map, two free maps, the block array, the segments of the user), that
calls fail halfway, that counts are narrow (`uint16_t`), and that what a file is
when it is reopened must be what it was when it was closed.

## The system

| component | state | operations | correct when |
|---|---|---|---|
| Extent, Segment (`ext/`, `segm/`) | none: values | sizes, overlap, encoding | sizes and spans are exact |
| FreeMap (`alloc/free_map`) | `fr_by_nr`, `fr_by_cnt` | provide, alloc, dealloc, release, reset | the two indexes agree, no block is lost or given twice, double frees are detected |
| SubBlockFreeMap (`alloc/subblock_free_map`) | `fr_by_nr`, bins, counters | the same, in subblocks | the same, although full blocks leave the map |
| TailAllocator, SegmentAllocator (`alloc/`) | the two maps, counters, block count | alloc, dealloc, realloc, release, reset, block, unblock, initialize_from_allocated | the space of the array is partitioned, alloc ends and gives enough, release leaves no free tail |
| BlockArray (`blk/block_array`) | begin, past end, real past end | grow, shrink, release, read, write | the pointers are ordered, numbers are not exhausted silently |
| FileBlockArray (`blk/file_block_array`) | the file, the trailer | the same, close, panic_close, open | what is written stays, a reopen finds the same blocks and trailer |
| SegmentBlockArray (`blk/segment_block_array`) | a segment of another array | the same | the segment has the blocks of the array |
| VectorBlockArray (`blk/vector_block_array`) | a buffer | the same | (used by tests only) |
| IOBase, IOSegment, IOSpan (`io/`) | cursors | read, write, seek | they stay inside their range |
| Descriptor, content parts (`dsc/`) | header, content parts, extent | update_header, resize_content_part, destroy | the header fits, the content survives a resize |
| DescriptorSet (`dsc/descriptor_set`) | owned, to_add, to_update, to_remove, to_destroy, children, checksum | add, erase, move_out, mark_as_modified, assign_persistent_id, flush, load, clear, destroy | what is written is what is owned |
| IDManager, Index, IDMapping (`file/`, `dsc/id_mapping`) | the ids and names in use | request, register, find | ids and names are unique |
| File (`file/file`) | header, trampoline, root set, trailer | create, open, full_sync, close, panic_close | a closed file opens again |
| mem, log, err | none | casts, checksums, messages | |

They interact by calls only. The user calls a `DescriptorSet`, that calls the
allocator of its `SegmentBlockArray`, whose blocks are a segment of the
allocator of the `FileBlockArray`; an allocator calls its subblock map, its free
map and its tail, in this order, each providing space to the previous one, and
the tail grows and shrinks the block array. A descriptor that changes notifies
the set that owns it, which calls it back when it is flushed.

## Where it is hard

One thread runs everything, nothing is sent and nothing is shared, so the
hazards are of another kind; `PROJECT.json` lists each at its line.

- **Several structures for one truth.** A free block is in two indexes of the
  free map; a block used for suballocation is in the subblock map only while one
  of its subblocks is free; a descriptor is in `owned`, perhaps in `to_add` or
  `to_update`, in its stream, and counted in a checksum that is updated by
  differences.
- **Long call sequences.** What goes wrong takes an allocation, a release, a move
  and a reopen in some order; no test writes them all.
- **Flags that must be reset.** A descriptor notifies its set once, until it is
  acknowledged.
- **A reopen rebuilds the state from what was written**, which must be the state
  that was there.
- **Failures halfway.** An alloc or a realloc that finds no space has already
  taken, or given up, a part.
- **Narrow numbers.** Counts of 16 bits, block numbers of 32, sizes rounded into
  blocks, subblocks and inline bytes; seeks that would overflow.
- **Programs of two versions on one file.** The older must load, change and store
  descriptors that have more fields, more bytes and more parts than it knows of.

## The modules

| module | models | abstract specification |
|---|---|---|
| `Extent` | extents and their overlaps | |
| `FreeMap` | the free map as a value: `AllocFrom`, `Dealloc`, `Release` are functions of the two indexes | |
| `FreeMapSpec` | a free map and its client: one action per call and per outcome | |
| `SubBlockFreeMap`, `SubBlockFreeMapSpec` | the same for subblocks, with bins and counters | |
| `BlockArray` | the pointers of a block array as a value | |
| `SegmentAllocator` | the allocator: composes `FreeMap`, `SubBlockFreeMap` and `BlockArray` with the loops of alloc, realloc and release | `SpaceAllocator` |
| `FileBlockArray` | the array in a file: `BlockArray` with the size of the file, its content and its trailer | `BlockSpace` |
| `SegmentBlockArray` | the array in a segment of another array: `BlockArray` with the extents and the bytes below, and `IOSegment` | `BlockSpace` |
| `IO` | an io as a value: two cursors with limits over some bytes, seeks, exact reads and writes, copies by chunks | |
| `SegmentRecord` | how a segment is written in words, measured and read back | |
| `DescriptorRecord` | the same for the header of a descriptor | |
| `DescriptorContent` | a descriptor and its content parts in the hands of two versions of a program: composes `IO`, `DescriptorRecord` and `SegmentRecord` | `ContentStore` |
| `DescriptorSet` | the tree of sets, their streams and the sync | `DescriptorStore` |
| `Names` | the ids of the descriptors, the index of names with its cache, and what is stored of them | |
| `File` | the header, the trailer and the trampoline, over syncs, closes, panics, crashes and opens | `FileStore` |
| `SpaceProofs` | the theorems about the two free maps and about `FileBlockArray` | |
| `ExtentLemmas` | what the proofs about several components rest on: what each call does to the two free maps, and how extents and segments are written and read | |
| `SegmentAllocatorProofs`, `FileProofs` | the theorems about the module each is named after | |
| `StreamAndNamesProofs` | the theorems about `SegmentBlockArray`, and those about `Names`; nothing is common to the two but what they extend | |
| `DescriptorContentProofs` | the theorems about `DescriptorContent`, and about the operators of `IO` and of `DescriptorRecord` that it is built from | |
| `DescriptorSetLemmas`, `DescriptorSetProofs` | the theorems about `DescriptorSet`: the first has the trees, the blocks, what each stage of a flush changes and the calls of the user; the second the sync, the reopen and the theorems | |
| `MC*` | values for the runs | |

The value modules (`FreeMap`, `SubBlockFreeMap`, `BlockArray`, `IO`, the two records) hold what the
code of a component does to its state and nothing of who calls it, so that the
same definitions are checked with an arbitrary client, composed in the
allocator, and proved about. None of them has a RECURSIVE operator.

### State and actions against the code

**Free maps.** `fr_by_nr` is a function of every block number, 0 where no chunk
starts; `fr_by_cnt` is the set of pairs of the multimap. The client of
`FreeMapSpec` may dealloc anything that does not overlap what others own, and
also what is already free: the map must throw (`DeallocThrows`) exactly then.
`in_use` and `owned` are ghosts: what the client holds and what it ever provided.
A bitmap is a set of bits; `SubblkCntPerBlk` is 16 in the code.

**Segment allocator.** `call` is the stack frame of the alloc in progress: the
`while` and the `goto` of `alloc`, `allocate_extents` and
`allocate_subblk_extent` are steps (`TakesFree`, `ProbesLess`, `GrowsForBlks`,
`ProvidesMore`, `TakesSubblks`, ...), because whether they end is a question.
`dealloc`, `release` and `reset`, whose loops run over a finite list, are one
step. `ReallocExpands` gives up what the code gives up and then calls alloc.
`Reopen` is a new allocator initialized from the segments of the user.
`leaked` is a ghost: what an alloc that throws had already taken; the code does
not give it back until a reopen, and so says a comment at
`segment_allocator.cpp:278`.

**File block array.** `arr` has the two pointers; `file` its size and what each
block has, `Junk` for what an extension leaves unknown. `mem_based` chooses the
stringstream of the tests, where a truncation is a copy and a write past the end
fails. `U32` is what the offsets of `uint32_t` wrap at: `SeekBlk` is where the
code goes for a block, `NewFileSz` where it truncates, and `Open` narrows the size
it finds: the size is signed, and `assert_u32` of a signed number only looks at its
sign (`mem/casts.h:50-55`). The grow is exact, as in the
code. What the user reads of a block is what is at `SeekBlk` of it. After a truncation
that throws (`TruncateThrows`) nothing more is modelled of the array.

**Segment block array.** `arr` has the pointers, `segm` the extents of the segment and
`data` what the array below has in each place of the size of a block of this one.
`PlacesOfAll` is how `IOSegment` and `rw_suballocated_extent` find a position: extent
by extent, and the bits of a bitmap from the most significant. The allocator below is
seen as giving any free extents of the sizes that `alloc` computes, so what
`SegmentAllocator` does is among the choices; what is given back is `Junk` at once.
`RewrittenIn` is the copy that `realloc` makes of the last extent of subblocks. A
`realloc` that throws has given that extent back already (`GrowThrows`): the array
then counts blocks that the segment has not, and nothing is claimed afterwards.
A reopen finds the segment in the words of `SegmentRecord`, each word a tuple of
its fields; the widths of the fields are constants.

**Content of a descriptor.** A part has the counters of `ContentPart` (`csize`,
`future_csize`), the `space` of its segment and its `bytes`. A program, "old" or
"new", is what the tests do with `FooV1` and `FooV3`: its fields tell how many bytes
it uses of each part. `Resize` is `resize_content_part` with the copies it makes
through `IO`: by chunks inside the part when it expands, and by memory or by another
segment when it shrinks. The bytes are those of the blocks followed by the inline
ones. `Sync` gives `words`, the record; any change makes it `<< >>`, and `Reopen` by
either version waits for it. `ResizeThrows` is an expansion whose `realloc` has no
space and has given up the last bytes already: only `Renew` or a failing sync
follow. Of an `IOSegment` made before a resize nothing is said, as of the code.
`future_sg` (`descriptor.cpp:897`), the segment a large future content goes through
when a part shrinks, is never deallocated by the code; the model has no allocator
to lose it from.

**Descriptor set.** A set is a record with its pending sets (`to_add`,
`to_update`, `to_remove`, `to_destroy`), its stream (`cells`, one per block of
two bytes), which of them its allocator has given (`used`), its segment (`segm`)
and its checksum (a bag of records, so that a difference forgotten or applied
twice is seen). `SyncSet` is `full_sync_no_recursive` of one set, as a chain of
functions in the order of `write_modified_descriptors`: `WithHeader`,
`Deallocated`, `Destroyed`, `Allocated`, `Written`, `Notifies`, then `Released`
and `WithHeaderUpdated`; `FullSync` leaves in `todo` the tree, synced bottom up.
The order in which descriptors are placed is that of their ids, that may be any.
The allocators below are taken at their word: the stream takes the lowest gap
that fits, the file the lowest free block. `dirty` says which blocks have old
bytes. `Reopen` is `load_set` of the image, when it can be read.

**Ids and names.** `dscs` is the tree as `find` sees it: the set and the id of each
descriptor. `GetsId` is the part of `add_s` about ids, shared by `Add`,
`AssignPersistentId` and `MoveOut`. `dsc_by_id_cache` keeps what `find` has found,
erased or not. `Synced` is `full_sync` for the private descriptor of the names,
that the root set writes only if it is pending: `store` does not say so, and a
record left as it was may or may not point to the new names, which is a choice.
`Load` gives temporal ids to the rest in any order. Nothing is asked of the user:
`Add` takes any id, `Erase` who has a name, and a sync may or may not find the
descriptor of the names marked as modified (`marks`). Two variables remember what the
properties are conditional on and the code does not: `reused`, the ids that the user
gave again while they were registered, and `left`, those of who was erased or got
another. A file has the entries that the record was written of (`recorded`) beside
those that were stored last (`stored`): where they differ (`Outdated`) a load may read a
mixture of both or throw (`Readings`, `Refuses`).

**File.** `disk` is what a crash leaves: the end of the file in whole blocks, the
trailers that follow them, the header and, for each block, what it has: a root record
or what the sets and the descriptors write. `root` and `data` are the root set and its
blocks as of the last sync; the rest is memory. `pc` is the next write of the sync in
progress:

    StartSync -> Alloc, Dealloc, Write (the sets, in place) -> EndSets
              -> Release -> UpdateTrampoline -> WriteTrampoline (a block each)
                         |  DropTrampoline
              -> ReleaseAgain -> WriteHeader [-> TruncateToClose -> WriteTrailer]

`Crash` may come before any of them, and what the sets wrote by then stays. Growing or
truncating the file destroys the trailer it has; a sync that does neither leaves it
there, so that a crash may leave a file that opens. `RootIsRead`, `TrailerIsGood` and
`AllocatorStarts` are three places where an open throws; the fourth is `load_set`,
that may refuse sets whose blocks are not as they were saved and may as well read the
mixture (`OpenThrows`, `Open`). `update_trampoline_space` is a chain of states of the
allocator (`Deallocs`, `Allocs`, `Compacted`), each with the states it throws in
(`DeallocFails`, `AllocFails`, `CompactFails`): an alloc that throws keeps what it took
and has grown the file. A sync that throws may be tried again, in the sets (`SyncThrows`)
or in the trampoline (`UpdateTrampolineThrows`); `failed` tells that the trampoline
names free blocks since, over which the next syncs write or throw.

## What is checked

| run | module | instance | shows |
|---|---|---|---|
| `free_map` | FreeMapSpec | 6 blocks, counts up to 6, threshold 1 | `IndexesAgree`, `BlocksConserved`; `FullyCoalesced`; `DoubleFreeDetected`: throws on every double free and on nothing else; `FailureIsJustified` |
| `subblock_free_map` | SubBlockFreeMapSpec | 3 blocks of 3 subblocks | `BinsAgree`, `SubblksConserved` |
| `segment_allocator` | SegmentAllocator | 4 blocks of 2 subblocks, counts of at most 3 blocks, 2 segments, sizes 0, 1, 6 and 16, three requirements | `SpaceIsPartitioned`: every subblock free, held or leaked, once, and no block left in subblocks that are all free; `StatsAgree`, `RequirementsAreMet`, `ReleaseIsThorough`, `ImplementsSpaceAllocator`; `CallsEnd` (liveness) |
| `file_block_array` | FileBlockArray | 4 blocks of 3 bytes after the header, offsets that wrap at 12 bytes, 2 contents, disk and memory | `ReopenFindsTheSame`, `ImplementsBlockSpace`: an array that an offset can tell keeps what is written, also if it was larger before |
| `segment_block_array` | SegmentBlockArray | 2 blocks of 3 subblocks of 2 blocks each, of which others have a subblock or none; segments of at most 3 extents, grows and shrinks of 1, 3 and 12 blocks, one written block | `TypeOK`: the array counts the space of its segment; `ImplementsBlockSpace`; `RecordIsTheSegment`: a segment in any order, near or far, is read back from what was written |
| `descriptor_content` | DescriptorContent | blocks of 2 subblocks of 2 bytes, the last byte inline; 2 versions, 2 parts of up to 4 bytes, ids temporal and persistent, types short and extended, seeks by 0, 1 and -1 of 16 | `RecordIsTheDescriptor`, `RecordsLoad`: no record is stored that some version refuses; `ImplementsContentStore`: what the old version does loses and shows nothing of what the new one has |
| `descriptor_set` | DescriptorSet | the root, one nested set, 2 descriptors of two sizes with content, 4 calls or reopens, any syncs | `SpaceIsHeld`: cells and blocks are given once, to what is there; `NothingIsForgotten`; `StreamIsTheSet`: what is on disk is the set, with its checksum, and old bytes only in what the header left of its blocks; `ImplementsStore` |
| `names` | Names | 3 descriptors, 2 sets, ids up to 3, 5 calls, the index kept updated or not | `IdsAreUnique`: who shares an id was given it by the user; `FindIsHonest`: so with what find gives; `FileOpens`: a file is refused for one of three reasons only; `NamesSurvive` |
| `file` | File | 4 blocks of two contents, a root that fits, one block and two, trampolines of one extent, 7 calls, writes or opens | `TrampolineIsApart`: until a sync leaves it in free blocks; `HeaderTellsTheFile`; `ImplementsFileStore`: a close gives all back, a crash the last root with blocks as saved or written since, or a refusal |
| `dset_*`, `descriptor_padding` | | | the divergences below |

Every property of a passing run is broken by a mutant of the code, a plausible
slip such as a dropped condition, an off-by-one or a missing reset, defined next
to what it mutates.

**Why the bounds are enough.** Six blocks let a chunk have a neighbour on both
sides and a third one far away, and with a count limit of the same size the
limit is reached; `segment_allocator` narrows counts to 3 so that requests
and gaps need several extents and sums overflow. Three subblocks give a block
that is empty, full and two kinds of between, and a bin for each. Two segments
are enough for one to take what the other freed, and two sizes per unit to round
up and not. Four calls on a tree of two sets are: add a set, add a member, then
any two of change, move, erase, clear, assign or reopen, each before or after a
sync; the mutants need no more. `MaxBlks` is never reached before `MaxCalls`.
Three ids are exhausted by three descriptors, and five calls add, name and erase
one, add another, with the same id or not, and open the file again. In
`file_block_array` an array of two blocks or less is told by an offset and one of three
or more, up to the last block number, is not: it goes from one to the other and back. Seven calls make a file that is synced
with a trampoline, changed, closed, opened and synced with another trampoline,
fragmented or not, or without it; four blocks are few enough for the second not
to fit. Five make one that is closed with a block, opened, written in place and
killed, and then opened as the mixture it is. In `segment_block_array` a grow of 1 gets 2, one of 3 two subblocks of three
and one of 12 all the space in one extent, so that a release cuts extents of both
kinds; one written block is enough to see that any block is kept, because the model
does not tell blocks apart, and there are 3 extents for the last to be in any place.
In `descriptor_content` a `csize` of 4 takes the second word and an internal data of
three fields needs the id; parts go from inline only to a subblock and a byte and to
a whole block; the future content, of one byte or two, is moved over itself by chunks
of 1 byte, on either side of the threshold of the copies in memory, and the 5 bytes
asked for are refused. Two versions are enough: what
each has that the other knows not of does not depend on there being a third.
`Unit - 1 = MaxInline` there: sizes are exact, as they are with the default blocks
of 128 bytes (subblocks of 8, 8 inline bytes). `descriptor_padding` has no inline
bytes, which is what blocks of 512 and more amount to.

**Fairness.** `FairSpec` has weak fairness of `AllocStep`, the steps of an alloc
in progress: the call runs on one thread and nothing else runs until it returns.
Nothing is assumed of the user. Deadlock is checked everywhere except in
`FileBlockArray`, `SegmentBlockArray`, `Names` and `File`, where a file that cannot be
opened, a memory stream that failed or a grow that threw ends the behaviour.

**What the user does.** In `descriptor_set` the user keeps some habits that the
code allows to break, each the subject of a run or of a note below: it calls
`mark_as_modified` after changing a descriptor that was loaded (`Usage` without
`"rely_on_notify"`), gives persistent ids only to descriptors not written yet and
alone in `to_add` (without `"assign_anytime"`), and syncs before it erases a set that
has, below it, sets that were erased from their owners or that would be erased with
theirs by a clear (without `"erase_nested"`). Without the second and the third
`SpaceIsHeld` fails, and without the second `StreamIsTheSet` too. Blocks are larger than
a stream header, as they are in every file (4 bytes in a subblock of 8 or more:
`HeaderCells = 2`, `CellsPerBlk = 4`), so that the first block of a stream may keep old
bytes. `SegmentsAreStored` is not claimed there, and `Reopen` waits for an
image without old bytes whose records have the right segments. In `names` the user
has no habits, and the properties say what each lack of them costs; only, as here,
it gives persistent ids to descriptors that were not written yet. In `file` it has no
habits.

## What is proved

TLAPS checks the following, each from the assumptions on constants of the modules it
is about (naturals of the right sign, but for what is said below). For every number of
blocks, width of a count, number of subblocks, coalescing or not and any split
threshold:

- `FreeMapSafe`: types, `IndexesAgree` (no two chunks overlap), `BlocksConserved`
  (the first two also alone, `FreeMapTypes`, `FreeMapIndexesAgree`);
- `DoubleFreesAreDetected`: `dealloc` throws exactly on double frees;
- `FailuresAreJustified`: `alloc` fails only if no usable chunk exists, and its
  hint is right;
- `ChunksAreCoalesced`: with coalescing no two chunks are adjacent, if the sums of
  counts fit in one (`NoSumOverflows`: a count that would overflow is not merged);
- `SubFreeMapSafe`, `SubFreeMapBinsAgree`, `SubFreeMapTypes`: `BinsAgree` and
  `SubblksConserved`.

The inductive invariant of the free map, `IInv`, is what `alloc` and `dealloc`
need to be correct as functions: a well-formed map (`WellFormed`: typed, indexes
agree, chunks pairwise disjoint and inside the block numbers) and
`BlocksConserved`. None of the parts is inductive alone: without disjoint chunks
looking at two neighbours does not find every overlap (`AlreadyFreedExact`), and
without conservation a legal dealloc could overlap a chunk. The lemmas, in `ExtentLemmas`, go one
function at a time: `ReplacedWellFormed` and `ReplacedFreeBlks` say what
exchanging a chunk for another does to a map and to its free blocks;
`WithNextFacts`, `WithPrevFacts` and `DeallocCorrect` follow the two merges of
`dealloc`; `RemovedCorrect`, `AllocCorrect` and `ReleaseCorrect` the rest. The
subblock map is the same with `RebinnedCorrect` for a block that changes bins.
`ChunksAreCoalesced` adds one fact to `IInv`, that no chunk begins where another
ends (`CoalescedIn`), and `ReplacedCoalesced` says what an exchange must find around it.

For every size of the array, of a block, of a bitmap and of a block count, any sizes
and requirements the user asks with, and any finite set of segments
(`SegmentAllocatorAssumption`: the subblocks of a block have the same whole number of
bytes; `req_t` of a single extent is the one of `segment_allocator.h`):

- `SegmentAllocatorTypes`, `NoSpaceIsLostOrShared`: `TypeOK` and `SpaceIsPartitioned`,
  after every step of every alloc, also of those that throw;
- `ReleaseLeavesNoTail`: the action property `ReleaseIsThorough`;
- `AllocMeetsRequirements`: the action property `RequirementsAreMet`;
- `CountersAgree`: `StatsAgree`, the counters that `stats()` reports between calls;
- `AllocatorIsASpaceAllocator`: the refinement of `SpaceAllocator`, in which a call is
  one step.

The invariant (`IInv` of `SegmentAllocatorProofs`, that the theorem `SpaceIsShared`
establishes) has five parts, and none is inductive without the others:

- `Types`, and `MapsFit`: both maps are well formed in the sense of `WellFormed` and no
  block is in both. Without it the lemmas on a single map do not apply to the two;
- `SharedOut`: the units (subblocks) of the array are the disjoint union of those that
  are free, of those of each slot, of those of the alloc in progress and of those that
  a failed alloc lost. `Shares` says it of sets, with no mention of extents, and each
  call is one lemma about sets (`SharesTaken`, `SharesGivenBack`, `SharesReturned`,
  `SharesLost`, `SharesResized`, `SharesRecovered`): units go from one part to another;
- `FullBlkIsForAlloc`: a block with all of its subblocks free is in the subblock map
  only while alloc is about to use it. It is why a failed alloc leaves no such block
  behind, and it needs that no other block had enough subblocks when it was provided;
- `CallIsSound`: what the alloc in progress got and what it has yet to get
  (`Bytes(todo)`) are enough for what the user wants, and what it works on is a part
  of what the user had. It is what the refinement needs when the call ends.

`AllocMeetsRequirements` needs one invariant more, `Frugal`, about counts and not about
units. While the array may not grow (`FewWhileProbing`), either each probe so far took
as much as a count can hold, and the extents got and to get are as few as they can be, or
a probe was lowered and there are fewer extents than units of the threshold used up.
From then on (`FewEnough`) the extents got and the largest parts of what is left are
within the bound; a todo that is too large for a count is one part less at each step
(`CeilDivSteps`). An alloc in a single extent has none or has it all (`IsSingle`).

`CountersAgree` needs `StatsInv`, also in the middle of a call: each counter is the sum over
the slots of what the segment there has (`BytesHeld`, `BlksHeld`...), and the counter of the
blocks for suballocation is the number of blocks that are in the subblock map, in a segment
or in what the alloc in progress got (`BlksForSub`). In the middle of a call the segment has
no inline bytes, that are put back when the call ends, and no subblocks were taken unless
nothing can fail any more: otherwise an alloc that throws would leave a counter behind. An
alloc counts only when it returns; what a dealloc counts is in `GivesBackCounts`: the blocks
it finds whole again are exactly those that nothing else has a part of, by `SharedOut`
(`BlksGivenBack`). A sum is there the number of pairs of an element and a number from
1 to its value (`SetSum`), which needs no order, and `HeldByLive` says that the folds of
`StatsAgree` give the same.

The rest are lemmas on what each operation does to units: the loop of dealloc
(`DeallocExtsFits`), the reclaim of whole blocks (`ReclaimedFits`), an extent taken from
a chunk or from a block (`AllocFromFits`, `AllocFromBlkFits`), growth (`GrowsFits`), the
tail (`TailChunksFacts`), the gaps between the extents at a reopen (`InitialFreeMapFits`,
`ReopenFits`) and the arithmetic of sizes (`ExtsSzIsOfUnits`, `PlanFacts`). Loops are
recursive functions of the number of steps done, and their lemmas look at the first step
at which they would be false (`LeastExists`).

For the operators that other modules are built from, for every width of the fields:

- `SeekIsClamp`, `SeekKeepsLimits`, `LimitIsIntersection`: seeks in `uint32_t`, over as
  many bytes as that type counts, are seeks of integers moved to the nearest limit;
  `WritesStayInside`: a write that has room changes no byte elsewhere;
- `ExtentIsReadBack`, `FootprintIsExact`: an extent apart from the one before it is read
  as it was written, near or far, and takes the words of its footprint;
  `SegmentIsReadBack`, `SegmentFootprintIsExact` and `DescriptorIsReadBack`: so do a
  segment of any number of extents and inline bytes, and a header of any parts;
- `CopyIsMove`, `CopyIntoIsMove`: a copy by chunks, of any size and direction, leaves
  what it would leave if all the bytes were read first.

What a segment, a header or a copy is has a recursive definition, and the prover has no
induction to offer that takes a predicate: the lemmas look at the first step of the
recursion at which they would be false (`WellFoundedInduction` has a least element for
every set of naturals).

For every size of a subblock, of what is inline and of the content, any sizes, seeks,
writes and copies of the programs (`DescriptorContentAssumption`: a content, with the
rest of its last subblock, is smaller than `uint32_t` counts; the code has 2^31 - 1 and
at most 4 KB):

- `ResizeKeepsContent`: all the paths of `resize_content_part` keep what the program
  sees and is still there; and the future content, if `NoPadding`;
- `DescriptorContentTypes`, `TheRecordIsTheDescriptor`, `AnyVersionLoadsTheRecord`:
  `TypeOK`, `RecordIsTheDescriptor`, `RecordsLoad`;
- `ContentIsKept`, if `NoPadding`: the refinement of `ContentStore`; and
  `NoResizeLosesTheFuture`: so is `FutureIsKept`, the words of the header file that
  `descriptor_padding` refutes.

`NoPadding` says that what does not fill a subblock can be inline, `Unit - 1 <=
MaxInline`: blocks of 128 bytes, the smallest, with the default requirements. It is not
a convenience of the proof: without it the refinement is false, and that is the third
divergence below. The invariant, `ContentInvariant`, says what `TypeOK` cannot, being
about one version: the size of each part, and how much of it the program does not see,
are what the internal data says, the fields that the program knows of and the ones that it
keeps for others alike. So a record stored by one version is right for the other. Of a
record it says that its parts are those of the descriptor but for empty ones at the end,
which are not stored: a step that changes the parts must forget the record, and does.

For every number of descriptors (finite), sets and ids:

- `UniqueIds`, `HonestFind`: `IdsAreUnique` and `FindIsHonest`. The invariant is
  about `Given`, the ids given since the file was opened: those of the tree, of the
  cache and of `left` are among them, and only an id in `reused` is of two
  descriptors, or of one and left by another. `IdsAreUnique` alone says nothing of the
  next id requested, and the cache keeps ids that the tree has no more. A new id is of
  none of `Given`; what a user brings is, and is then in `reused`. Files with two
  equal ids are refused by the open.
- `NamesTypes`, `FilesOpen`, `NamesAreNotLost`: `NamesTypeOK`, `FileOpens` and the action
  property `NamesSurvive`. The invariant is `NamesHold`: each name of the index, and,
  while no index is kept, each that an up to date record has, is the name of a
  persistent id that some descriptor of the tree has, or left. It rests on
  `RegisteredIsRight` (a registered id is of a descriptor, or was), for a name is
  only given to a registered id. `FileOpens` alone says nothing of what the next sync
  stores, nor of the names that a session without an index leaves as they were.

For every number and size of blocks, and any width of the offsets (`FileAssumption` of
`FileBlockArray`: blocks of two bytes or more, room for one block number after the
last, offsets that wrap at the end of a block and after the header):

- `FileArrayTypes`, `FileReopens`, and `FileArrayIsASpace`, the refinement of
  `BlockSpace`. `IInv` is `TypeOK` with the length of the file: it never gets to
  `BLK_NR_EXHAUST` blocks, but for the trailer of a panic, and it is known to the byte
  once it is closed, which is what makes the blocks that a reopen counts those of
  the array. Both are about the steps that begin and end with arrays whose bytes fit
  (`Fits`): there `Narrowed` makes the narrowing the identity, whatever the array was
  before. The file may be longer, or shorter, than its array.

For every number of blocks, any sizes of the root set, of the header and of a block
(`FileAssumption` and `ContentAssumption` of `File`: some root fits in the header,
and what is not a root set is not taken for one):

- `TrampolineApart`, `HeaderIsRight`, `FileTypes`, and `FileIsAStore`, the refinement
  of `FileStore`: a file that was closed opens with the root and the blocks it had;
  after a panic it is refused; after a crash between any two writes it is refused or
  opens with the root that was saved last, each block as it was saved or as it was
  written in place since. A file whose trampoline was left in free blocks maps to the
  mode `"broken"`, of which `FileStore` says little, until it is opened again. The
  invariant of the writes in progress is in two parts. `PartsAreRight`, until then: the
  sets and the trampoline have space in use, apart from each other; between two syncs
  the header points to the trampoline, so that no write of the sets gets to it; from
  `EndSets` on the blocks have what the root was synced with, and from `WriteTrampoline`
  on the trampoline has the root. `CloseIsRight`, always: from `WriteHeader` of a close
  on, the header has the end that the file really has. `LengthSpoils` takes care of
  every step that changes the length only, `WriteStep` of those that write one block in
  place, `BrokenStep` of those of a broken file; `TrampolineFailFacts` shows that a sync
  that throws leaves the trampoline where it was or in blocks that are all or in part
  free; `WriteTrailerKeeps` shows that what a close leaves is what `Opens` asks for.

For any tree of sets and descriptors (finitely many, nested in any way), any sizes of
records, headers and blocks (`SetsAssumption`), any order of the additions, and a user
with none of the habits that `Usage` names (`Usage = {}`, which the hypothesis of each
theorem says):

- `SetsTypes`, `SpaceHeld`, `NothingForgotten`: `TypeOK`, `SpaceIsHeld` and
  `NothingIsForgotten`;
- `StreamIsRight`: `StreamIsTheSet`, for blocks of any size. What is in a stream
  besides the records of its set is padding, but for the cells of `Leftover`, that the
  header left of its blocks: nothing fills them with zeros (`descriptor_set.cpp:535`,
  below);
- `SetsAreAStore`: the refinement of `DescriptorStore`.

They rest on `SetsInvHolds`. The invariant, `SetsInv`, is in parts that need one another:

- `TreeInv`: who is to be destroyed is so by one set; who exists is, by owners and by
  those who are to destroy, below the root; only sets of the tree have sets to destroy;
  who has something to destroy has cells to give back, so that it will be flushed. It is
  why a flush destroys what was erased, all of it and once: `GoneSets` says that the
  sets `destroy` reaches by its recursion (`Below`, by owners) are those that have
  nobody else to destroy them (`Gone`). The last part is what `"erase_nested"` breaks;
- `BlockInv`: nobody shares blocks, and what is in use is what somebody has;
- `CellInv`, of each set: the cells that are given are the header's, those of a pending
  removal or those of one descriptor (`Claimed`); a descriptor has no place exactly if
  it is to be added, and otherwise it has there, whole, the record that was written
  last (`Recorded`), even if it changed; free cells are padding (`Padded`); the checksum
  is the bag of what was written last. `SpaceIsHeld` alone is not inductive: a flush that
  writes over its free cells needs to know who has the others;
- `Unforgotten`: a descriptor with changes is pending; before anything is loaded also one
  that notified is. Without the second part `Modify`, that notifies once, would forget.

A flush breaks all of this halfway, and the proof follows it stage by stage:
`HeaderStage` (the stream may not have its header written yet: `CellMid`),
`DeallocatedStage` (who grew has no place: `PlaceInv`; nobody waits to be freed and some
to be destroyed: `TreeMid`), `DestroyedStage`, `AllocatedStage` (one descriptor after the
other, `AllPlaced`), `WrittenStage`, from which `SetsInv` holds again, `NotifiesStage`,
`ReleasedStage` and `HeaderUpdatedStage`; `SyncFacts` is all of them. What is above a
descriptor has a recursive definition: `AboveFacts` and `AboveLeast` say that it is the
least set with it and whoever is above its members, and no later lemma opens it.
`LaidStream` reads the records of a stream that has nothing pending; `ReopenFacts` is
that what is loaded from them is the tree that was there. For the refinement,
`OwnedIsShown` says that a set with nothing pending stores what it owns, and `SyncShows`,
again by stages, that a sync shows nothing else of the tree nor of other sets.

For every size of the two arrays, of a bitmap and of a block, whatever the allocator below
gives, whatever others have, and any bounds of the model (`SegmentBlockArrayAssumption`:
numbers fit, a block of the stream is not larger than a subblock):

- `StreamTypeCorrect`: `TypeOK`, that the array counts exactly the space of its segment;
- `RecordAlwaysTheSegment`: `RecordIsTheSegment`, from `SegmentIsReadBack` and from the
  fact that the extents of a segment are apart, which their words need;
- `SegmentIsARowOfBlocks`: the refinement of `BlockSpace`, until a grow throws.

The invariant, `StreamInv`, is that the extents are inside of the array below, apart from
each other (`Scattered`) and from what others have, and that an open array counts what they
hold. `TypeOK` compares a cardinality with a sum of sizes, which says nothing of who comes
after whom; the proof is about places. `PlacesApart` says that a segment of extents
that are apart has as many places as it has space, all different and inside of the array;
for subblocks it needs that `PlaceIn` goes through the bits of a bitmap from the highest to
the lowest, each once (`NthBitFacts`). The first extents have
the first places (`StartOf`): so has what remains of a cut (`CutStart`, which takes blocks
or bits from the end of the last extent) and of a shrink (`ShrunkStart`), and what a grow
begins with (`StartOfStart` puts them together). Then what a call keeps is said by `Content`
alone, and each action is one lemma: what is given back, and spoiled by others at once, has
no place of what remains; a realloc writes what it saved in the places that the old extent
had in order (`RewrittenIn`).

Only model-checked: liveness, that the prover does not do: that the calls of the allocator
end (`CallsEnd`). Every other property of the passing runs is a theorem.

## Divergences found

Each of these is a run that TLC ends with a counterexample, and was seen in the
program with a test written from it.

1. `dset_lost_changes`: a descriptor that was loaded never notifies its set.
   `set_owner` leaves `notified` set and a load does not acknowledge it. A changed
   descriptor is not written; a nested set that grows after a reopen makes a file
   that does not open again.
2. `dset_segments`: a release in a nested set changes its segment after its owner
   had the chance to know.
3. `descriptor_padding`: `resize_content_part` finds the future content at the end of
   the segment, which is not the end of the content if the space was rounded up. A
   shrink takes the padding for it, and an expansion leaves it where the new size
   does not reach.

Seen and not kept as runs:

- `IDMappingDescriptor::store` does not notify its set (`id_mapping.cpp:47`), so that
  names added after the first sync of a new file, or in a later session, are not found
  when it is opened again, although `File` stores them before each sync for the
  set not to "contain outdated descriptors" (`file.cpp:461-463`). `NamesSurvive` and
  `FileOpens` hold only where the record is not `Outdated`: a user who does not mark the
  descriptor of the names as modified, and nobody tells it to, loses the names or the
  file.
- Erasing a descriptor that has a name leaves the name (`descriptor_set.cpp:695` does not
  look), and the next open throws for it (`index.cpp:136`): a file closed so cannot be
  opened. It is the third case of `FileOpens`.
- `find` of an id that was erased answers with the erased descriptor if it was found
  before (`index.cpp:38`), where `index.h:39-40` says that it throws: `FindIsHonest`
  has the exception (`id \in left`).
- `add` takes a persistent id that is registered (`descriptor_set.cpp:639-641` ignores
  what `register_persistent_id` returns): two sets may then have the same id, which
  the next open refuses, and `find` gives one of them or one that was erased. It is what
  `reused` is for.
- Offsets of blocks are computed in `uint32_t` (`file_block_array.h:291-297`,
  `file_block_array.cpp:71`) and the size of the file is narrowed to one
  (`file_block_array.cpp:248`, where the assert of the cast only looks at the sign,
  `mem/casts.h:50-55`), but block numbers go up to 2^26 and the grow
  counts in 64 bits (line 48): an array of more than 4 GiB, 2^25 blocks of 128 bytes,
  reads and writes other blocks, and a release or a close cuts its file. Nothing refuses
  it (`Exhausts` looks at block numbers). The model has all of it; `Fits` is the
  condition of what is claimed.
- The limits of an io are relative to its first byte and not to the limits it had
  (`iobase.cpp:80`): they do not nest, and a program could lift them.
- `future_sg` is not deallocated (`descriptor.cpp:897`); after a resize that throws a
  descriptor can be destroyed but not synced (`chk_content_parts_consistency`).
- Assigning a persistent id to a descriptor that was written writes it twice
  (`descriptor_set.cpp:826`). The model shows it with `"assign_anytime"` in `Usage`:
  `StreamIsTheSet` is violated.
- A grow of a segment block array for which there is no space leaves it with more
  blocks than its segment has (`segment_block_array.cpp:38`): `GrowThrows`.
- A grow after a shrink, while there is slack, extends the file by too little
  (`file_block_array.cpp:48`): it is shorter than its array, and a memory based
  array cannot be closed then. `FileBlockArray` has it (`GrownFile`,
  `TruncateThrows`).
- The first blocks of a set are not filled with zeros when they are larger than the
  header of its stream (`descriptor_set.cpp:535`), what they always are in a file: if
  somebody had them before and no descriptor covers them, the checksum of the stream,
  that a load takes of all of it (line 191), is not the one in its header, and the set
  cannot be loaded. The model has it in `descriptor_set`:
  `StreamIsTheSet` allows `Old` in `Leftover` and nowhere else, and is violated in seven
  steps if it does not (`IsReadableBut(s, {})` in its place: a descriptor with content is
  erased, and the first block of the root is the one that it had).
- Erasing sets in sets leaves the blocks of the innermost allocated until a reopen
  (`descriptor_set.cpp:783-788`: `destroy` does not recurse in `to_destroy`). The model
  shows it with `"erase_nested"` in `Usage` and two nested sets, one in the other: a
  clear of the root and a sync violate `SpaceIsHeld`.
- `update_trampoline_space` deallocates the trampoline before the alloc that may
  throw (`file.cpp:606`, `623`): `trampoline_segm` names free blocks then, and a second
  close deallocates them again, or those of whoever got them. The model goes on from
  there (`failed`); without `~ failed` in it `TrampolineIsApart` fails.
- `add_name` accepts "/", "." and "..", and then no sync nor close succeeds
  (`id_mapping.cpp:109`).
- The room for the trampoline in the header is 30 bytes, besides its checksum, but it
  is compared with 32 (`file.cpp:621`); the default requirements do not get there.
- The size of the file is not compared with the one in the header
  (`file.cpp:272-289`); nothing protects the blocks of a file that is changed in
  place and not closed, as the messages of `file.cpp:328-336` tell the user: `FileStore`
  lets an open read blocks of before and of after the last save (`Write`), when the
  trailer of the last close is still there and the checksums of the sets allow.
- realloc gives up the last extents and the inline bytes before the alloc that may
  throw (`segment_allocator.cpp:438`), though "in all the cases the data is
  preserved" (`segment_allocator.h:131`). `SpaceAllocator` allows it
  (`ReallocThrows`).
- `in_use_segment_cnt` and the histogram of extents per segment are wrong after a
  realloc and after a reopen (`segment_allocator.cpp:764`); not in the model, the
  other counters are.
- The counters of the subblock map are not zero once it is empty
  (`subblock_free_map.cpp:87`).
- `panic_close` appends the trailer to a file that was not truncated
  (`file_block_array.cpp:392`); a file that panicked may open with other blocks.
- `assign_persistent_id` changes the key of a descriptor inside sets ordered by id
  (`descriptor_set.cpp:659`): with others pending it may be inserted twice.
- `move_out` of a set into a set below it loses both; `demos/tarlike.cpp` tells
  the user not to.

## Not modelled, and why

The byte order and the width of what is encoded, and the encodings of numbers in `io/`:
conversions, without state to interleave; a word is modelled by its fields. Opaque
descriptors, that copy what they do not know of, and the table of factories by type.
`VectorBlockArray`: tests only. `mem/`, `err/`, `log/`: no state. The fragmentation
estimates of the allocator are floating point. External references of descriptors,
that refuse an erase: C++ reference counts. In `DescriptorContent` a `realloc` that
shrinks is taken not to throw (it would need an alloc of subblocks to fail).

## Plan

Next, in this order:

1. The part of `BlockArray` that reads and writes pieces of blocks, and an
   `IOSegment` that crosses from the blocks to the inline bytes, under `IO`.
2. `SegmentBlockArray` composed with `SegmentAllocator`, in place of a choice of
   extents, and under `DescriptorSet`; `DescriptorContent` under it, so that a realloc
   that throws is seen by the set.
3. In `DescriptorSet`, a descriptor that throws while it is written, and the image of a
   crash between two writes of a sync, under `File`, in place of a choice of contents.
