--------------------------------- MODULE IO ---------------------------------
(***************************************************************************)
(* xoz/io: a row of bytes with a cursor to read and another to write. Each *)
(* cursor moves between limits of its own, and where it goes is computed   *)
(* in uint32_t, that may overflow.                                         *)
(***************************************************************************)
EXTENDS Integers, Sequences

CONSTANTS
  U32Cnt,    (* 2^32: numbers go from 0 to U32Cnt - 1 and wrap around.     *)
  ChunkSz    (* TMP_BUF_SZ, 64 in the code: copies go by chunks.           *)

ASSUME IOAssumption ==
  /\ U32Cnt \in Nat \ {0}
  /\ ChunkSz \in Nat \ {0}

U32 == 0 .. U32Cnt - 1
Ways == {"beg", "end", "fwd", "bwd"}

\* uint32_t a + b.
PlusU32(a, b) == IF a + b < U32Cnt THEN a + b ELSE a + b - U32Cnt

Least(a, b) == IF a < b THEN a ELSE b

Cursors(src_sz) ==
  {c \in [at : U32, min : U32, end : U32] :
     c.min <= c.at /\ c.at <= c.end /\ c.end <= src_sz}

NewCursor(src_sz) == [at |-> 0, min |-> 0, end |-> src_sz]

Remain(c) == c.end - c.at

-----------------------------------------------------------------------------
(* Cursors *)

SeekBeg(c, pos) ==
  IF pos > c.end THEN c.end
  ELSE IF pos < c.min THEN c.min
  ELSE pos

\* Positions from the end are from the end of the bytes, not from the limit.
SeekEnd(src_sz, c, pos) ==
  IF src_sz < pos \/ src_sz - pos < c.min THEN c.min
  ELSE IF src_sz - pos > c.end THEN c.end
  ELSE src_sz - pos

SeekFwd(c, pos) ==
  LET at == PlusU32(c.at, pos)
  IN  IF at < pos \/ at > c.end THEN c.end ELSE at

SeekBwd(c, pos) == IF c.at - c.min < pos THEN c.min ELSE c.at - pos

calc_seek(src_sz, c, pos, way) ==
  CASE way = "beg" -> SeekBeg(c, pos)
    [] way = "end" -> SeekEnd(src_sz, c, pos)
    [] way = "fwd" -> SeekFwd(c, pos)
    [] way = "bwd" -> SeekBwd(c, pos)

Seek(src_sz, c, pos, way) == [c EXCEPT !.at = calc_seek(src_sz, c, pos, way)]

\* The limits are those asked for, cut to the bytes there are, whatever they
\* were before; the cursor is put inside.
Limit(src_sz, c, min_pos, new_sz) ==
  LET min == Least(min_pos, src_sz)
      end == IF new_sz <= src_sz - min THEN min + new_sz ELSE src_sz
      at == IF c.at < min THEN min ELSE IF c.at > end THEN end ELSE c.at
  IN  [at |-> at, min |-> min, end |-> end]

-----------------------------------------------------------------------------
(* An io is its bytes and its cursors *)

NewIO(bytes) ==
  [bytes |-> bytes, rd |-> NewCursor(Len(bytes)), wr |-> NewCursor(Len(bytes))]

SeekRd(io, pos, way) == [io EXCEPT !.rd = Seek(Len(io.bytes), @, pos, way)]
SeekWr(io, pos, way) == [io EXCEPT !.wr = Seek(Len(io.bytes), @, pos, way)]

LimitRd(io, min_pos, new_sz) == [io EXCEPT !.rd = Limit(Len(io.bytes), @, min_pos, new_sz)]
LimitWr(io, min_pos, new_sz) == [io EXCEPT !.wr = Limit(Len(io.bytes), @, min_pos, new_sz)]

CanRead(io, sz) == sz <= Remain(io.rd)
CanWrite(io, sz) == sz <= Remain(io.wr)

\* readall: the bytes read, and the io afterwards.
BytesRead(io, sz) == SubSeq(io.bytes, io.rd.at + 1, io.rd.at + sz)
AfterRead(io, sz) == [io EXCEPT !.rd.at = @ + sz]

\* writeall.
Patched(bytes, at, data) ==
  [i \in DOMAIN bytes |-> IF i \in at + 1 .. at + Len(data) THEN data[i - at] ELSE bytes[i]]

AfterWrite(io, data) ==
  [io EXCEPT !.bytes = Patched(io.bytes, io.wr.at, data), !.wr.at = @ + Len(data)]

-----------------------------------------------------------------------------
(* Copies *)

ChunkCnt(sz) == (sz + ChunkSz - 1) \div ChunkSz

\* The size of the k-th chunk of a copy, the last one being what remains.
ChunkOf(sz, k) == Least(ChunkSz, sz - (k - 1) * ChunkSz)

CopyChunk(io, sz) == AfterWrite(AfterRead(io, sz), BytesRead(io, sz))

copy_into_self_from_start(io, sz) ==
  LET copied[k \in 0 .. ChunkCnt(sz)] ==
        IF k = 0 THEN io ELSE CopyChunk(copied[k - 1], ChunkOf(sz, k))
  IN  copied[ChunkCnt(sz)]

SeekBoth(io, sz, way) == SeekWr(SeekRd(io, sz, way), sz, way)

copy_into_self_from_end(io, sz) ==
  LET CopyChunkBefore(was, n) == SeekBoth(CopyChunk(SeekBoth(was, n, "bwd"), n), n, "bwd")
      copied[k \in 0 .. ChunkCnt(sz)] ==
        IF k = 0 THEN SeekBoth(io, sz, "fwd")
        ELSE CopyChunkBefore(copied[k - 1], ChunkOf(sz, k))
  IN  SeekBoth(copied[ChunkCnt(sz)], sz, "fwd")

\* Mutant of MustCopyFromEnd: never.
NeverCopyFromEnd(io, sz) == FALSE

\* The bytes are written on bytes that are still to be read.
MustCopyFromEnd(io, sz) == io.rd.at < io.wr.at /\ io.wr.at < io.rd.at + sz

copy_into_self(io, sz) ==
  IF io.rd.at = io.wr.at THEN SeekBoth(io, sz, "fwd")
  ELSE IF MustCopyFromEnd(io, sz) THEN copy_into_self_from_end(io, sz)
  ELSE copy_into_self_from_start(io, sz)

\* copy_into another io: the bytes go from src to dst.
copy_into(src, dst, sz) ==
  LET copied[k \in 0 .. ChunkCnt(sz)] ==
        IF k = 0 THEN [src |-> src, dst |-> dst]
        ELSE LET n == ChunkOf(sz, k)
                 was == copied[k - 1]
             IN  [src |-> AfterRead(was.src, n),
                  dst |-> AfterWrite(was.dst, BytesRead(was.src, n))]
  IN  copied[ChunkCnt(sz)]
=============================================================================
