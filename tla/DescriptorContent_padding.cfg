CONSTANTS
  MaxBlkNr = 30
  MaxBlkCnt = 3
  SubblkCntPerBlk = 2
  SmallCntMax = 1
  JmpOffsetMax = 0
  LoBlkNrCnt = 4
  LoIsizeCnt = 3
  LoCsizeCnt = 4
  ExtTypeThreshold = 2
  U32Cnt = 16
  ChunkSz = 1
  Unit = 2
  MaxInline = 0
  MaxCsize = 4
  MaxIsize = 4
  MemCopyThreshold = 2
  Kinds <- MCKinds
  V1Szs = {0, 1, 2}
  V2Szs = {1, 2}
  V3Szs = {0, 1, 5}
  SeekPos = {0, 1, 15}
  WriteSzs = {1, 2}
  Copies <- MCCopies
SPECIFICATION Spec

PROPERTIES FutureIsKept
