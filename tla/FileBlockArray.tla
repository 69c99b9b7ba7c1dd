--------------------------- MODULE FileBlockArray ---------------------------
(***************************************************************************)
(* xoz/blk/file_block_array: a block array over a file, on disk or in      *)
(* memory. The file holds the blocks from byte 0 on (header included),     *)
(* maybe slack blocks, and after a close the trailer, that is shorter than *)
(* a block: on opening, whatever follows the last whole block.             *)
(*                                                                         *)
(* Block numbers are converted to bytes in uint32_t, but for the grow: from *)
(* 4 GiB on, that is before the block numbers are exhausted, they wrap.    *)
(***************************************************************************)
EXTENDS BlockArray

CONSTANTS
  BlkSz,       (* The bytes of a block.                                    *)
  U32,         (* 2^32: what an uint32_t wraps at.                         *)
  Data         (* What the user may write in a block.                      *)

ASSUME FileAssumption ==
  /\ BlkSz \in Nat \ {0, 1}
  /\ BlkNrExhaust < MaxBlkNr
  /\ U32 \in Nat \ {0} /\ U32 % BlkSz = 0
  /\ BeginBlkNr * BlkSz < U32

\* A block of zeros, and a block that holds bytes of a trailer.
Zeros == "zeros"
Junk == "junk"
Values == Data \cup {Zeros, Junk}

VARIABLES
  arr,          (* The pointers of BlockArray.                             *)
  file,         (* [sz, blk]: the size in bytes, and what it has at the    *)
                (* place of each block: zeros past its end.                *)
  trailer_sz,   (* The size of the trailer kept in memory.                 *)
  mode,         (* "open", "closed", "panicked"; "broken": it threw, and   *)
                (* its stream failed or its file is cut to less than a     *)
                (* header. What it does from then on is not modelled.      *)
  mem_based     (* is_mem_based(): the file is in memory.                  *)

vars == <<arr, file, trailer_sz, mode, mem_based>>

Larger(m, n) == IF m < n THEN n ELSE m

\* Mutant of Truncated: the file is only ever extended.
TruncatedNever(f, sz) == [f EXCEPT !.sz = Larger(@, sz)]

Truncated(f, sz) ==
  [sz |-> sz, blk |-> [b \in BlkNrs |-> IF b * BlkSz < sz THEN f.blk[b] ELSE Zeros]]

\* may_grow_file_due_seek_phy.
Extended(f, sz) == [f EXCEPT !.sz = Larger(@, sz)]

\* n bytes written at the end of the file.
Appended(f, n) ==
  [sz |-> f.sz + n,
   blk |-> [b \in BlkNrs |-> IF b * BlkSz < f.sz + n /\ (b + 1) * BlkSz > f.sz /\ n > 0
                             THEN Junk ELSE f.blk[b]]]

\* A file that create, or create_mem_based, has just written and opened.
Init ==
  /\ arr = NewArray(BeginBlkNr)
  /\ file = [sz |-> BeginBlkNr * BlkSz, blk |-> [b \in BlkNrs |-> Zeros]]
  /\ trailer_sz = 0
  /\ mode = "open"
  /\ mem_based \in BOOLEAN

-----------------------------------------------------------------------------

GrowInSlack(cnt) ==
  /\ mode = "open"
  /\ FitsInSlack(arr, cnt)
  /\ arr' = GrownInSlack(arr, cnt)
  /\ UNCHANGED <<file, trailer_sz, mode, mem_based>>

\* impl_grow_by_blocks(req_blk_cnt) takes past_end_blk_nr, that grow_by_blocks
\* has not moved yet, for the end of the file.
GrownFile(f, a, req_blk_cnt) == Extended(f, (a.past_end + req_blk_cnt) * BlkSz)

GrowInFile(cnt) ==
  /\ mode = "open"
  /\ ~ FitsInSlack(arr, cnt)
  /\ ~ Exhausts(arr, cnt)
  /\ file' = GrownFile(file, arr, Request(arr, cnt))
  /\ arr' = Grown(arr, cnt, Request(arr, cnt))
  /\ UNCHANGED <<trailer_sz, mode, mem_based>>

\* impl_shrink_by_blocks never shrinks the file: it returns 0.
Shrink(cnt) ==
  /\ mode = "open"
  /\ cnt <= BlkCntOf(arr)
  /\ arr' = Shrunk(arr, cnt, 0)
  /\ UNCHANGED <<file, trailer_sz, mode, mem_based>>

\* Mutant of NewFileSz: the header is not counted.
NewFileSzWithoutHeader == (BlkCntOf(arr) * BlkSz) % U32

\* The end of the blocks of the array, where impl_release_blocks truncates: a
\* shift of uint32_t. On disk, resize_file extends a file that is shorter; in
\* memory, the copy reads past the end and throws, which leaves the stream
\* unusable.
NewFileSz == (arr.past_end * BlkSz) % U32
CopyFails == mem_based /\ file.sz < NewFileSz

\* Once truncated, open_internal(is_reopening) refuses a file that has not
\* even the header.
ReopenFails == NewFileSz \div BlkSz < BeginBlkNr
TruncateFails == CopyFails \/ ReopenFails

ReleaseFile ==
  /\ mode = "open"
  /\ Slack(arr) > 0
  /\ ~ TruncateFails
  /\ file' = Truncated(file, NewFileSz)
  /\ arr' = Released(arr, Slack(arr))
  /\ UNCHANGED <<trailer_sz, mode, mem_based>>

\* write_trailer only sets the trailer in memory.
WriteTrailer(n) ==
  /\ mode = "open"
  /\ trailer_sz' = n
  /\ UNCHANGED <<arr, file, mode, mem_based>>

\* close() releases, even if there is no slack, and writes the trailer.
Close ==
  /\ mode = "open"
  /\ ~ TruncateFails
  /\ file' = Appended(Truncated(file, NewFileSz), trailer_sz)
  /\ arr' = Released(arr, Slack(arr))
  /\ mode' = "closed"
  /\ UNCHANGED <<trailer_sz, mem_based>>

\* release_blocks() or close() that throws.
TruncateThrows ==
  /\ mode = "open"
  /\ TruncateFails
  /\ file' = IF CopyFails THEN file ELSE Truncated(file, NewFileSz)
  /\ mode' = "broken"
  /\ UNCHANGED <<arr, trailer_sz, mem_based>>

PanicClose ==
  /\ mode = "open"
  /\ file' = Appended(file, trailer_sz)
  /\ mode' = "panicked"
  /\ UNCHANGED <<arr, trailer_sz, mem_based>>

\* A new object opens the file, unless open_internal refuses its size. The
\* size is then cast by assert_u32, that of a signed number checks the sign
\* only: a larger size wraps.
Open(from) ==
  /\ mode = from
  /\ file.sz \div BlkSz < BlkNrExhaust
  /\ (file.sz % U32) \div BlkSz >= BeginBlkNr
  /\ arr' = NewArray((file.sz % U32) \div BlkSz)
  /\ trailer_sz' = (file.sz % U32) % BlkSz
  /\ mode' = "open"
  /\ UNCHANGED <<file, mem_based>>

\* The block of the file where seek_write_blk and seek_read_blk of a block of
\* the array go: a shift of uint32_t.
SeekBlk(b) == ((b * BlkSz) % U32) \div BlkSz

\* impl_write of a whole block of the array; a memory stream cannot seek past
\* its end.
WriteFails(b) == mem_based /\ SeekBlk(b) * BlkSz > file.sz

WriteBlk(b, v) ==
  /\ mode = "open"
  /\ b \in BlksOfArray(arr)
  /\ ~ WriteFails(b)
  /\ file' = [Extended(file, (SeekBlk(b) + 1) * BlkSz) EXCEPT !.blk[SeekBlk(b)] = v]
  /\ UNCHANGED <<arr, trailer_sz, mode, mem_based>>

WriteThrows(b) ==
  /\ mode = "open"
  /\ b \in BlksOfArray(arr)
  /\ WriteFails(b)
  /\ mode' = "broken"
  /\ UNCHANGED <<arr, file, trailer_sz, mem_based>>

Next ==
  \/ \E cnt \in BlkCnts \ {0} : GrowInSlack(cnt) \/ GrowInFile(cnt) \/ Shrink(cnt)
  \/ \E n \in 0 .. BlkSz - 1 : WriteTrailer(n)
  \/ \E b \in BlkNrs : WriteThrows(b) \/ \E v \in Data : WriteBlk(b, v)
  \/ ReleaseFile \/ Close \/ TruncateThrows \/ PanicClose
  \/ Open("closed") \/ Open("panicked")

Spec == Init /\ [][Next]_vars

-----------------------------------------------------------------------------
(* Properties *)

\* The type invariant, and the asserts of block_array.cpp on the pointers.
TypeOK ==
  /\ arr \in Arrays
  /\ PointersOrdered(arr)
  /\ file \in [sz : 0 .. (MaxBlkNr + 1) * BlkSz, blk : [BlkNrs -> Values]]
  /\ trailer_sz \in 0 .. BlkSz - 1
  /\ mode \in {"open", "closed", "panicked", "broken"}
  /\ mem_based \in BOOLEAN

\* The bytes of the array are less than 2^32: no conversion wraps.
Fits(a) == a.past_end * BlkSz < U32

\* A file closed is exactly its blocks and its trailer, so that opening it
\* finds the array and the trailer that were closed: while an uint32_t can tell
\* the end of the array, however far it had got before it shrank.
ReopenFindsTheSame ==
  [][mode = "closed" /\ mode' = "open" /\ Fits(arr) =>
       arr'.past_end = arr.past_end /\ trailer_sz' = trailer_sz]_vars

(***************************************************************************)
(* To its user, the array is a row of blocks that keep their content, also *)
(* over a close and a reopen, as what is read of each. Only a panic may    *)
(* break that, or a call that begins or ends with more than 4 GiB: a block *)
(* past that is read and written where another one is.                     *)
(***************************************************************************)
ContentOf(b) == file.blk[SeekBlk(b)]

Space == INSTANCE BlockSpace WITH
  First <- BeginBlkNr,
  Limit <- BlkNrExhaust,
  past_end <- arr.past_end,
  content <- [b \in BlksOfArray(arr) |-> ContentOf(b)]

ImplementsBlockSpace ==
  /\ Space!Init
  /\ [][Fits(arr) /\ Fits(arr') => Space!Next \/ PanicClose \/ Open("panicked")]_<<arr.past_end, [b \in BlksOfArray(arr) |-> ContentOf(b)]>>
=============================================================================
