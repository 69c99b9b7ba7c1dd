CONSTANTS
  MaxBlkNr = 13
  MaxBlkCnt = 3
  SubblkCntPerBlk = 3
  BeginBlkNr = 0
  BlkNrExhaust = 13
  BgBlkCnt = 2
  FgPerSubblk = 2
  FragThreshold = 1
  Data = {"a"}
  MaxWritten = 1
  MaxExtCnt = 3
  SmallCntMax = 1
  JmpOffsetMax = 0
  LoBlkNrCnt = 2
  Cnts = {1, 3, 12}
  Others <- MCOthers
CHECK_DEADLOCK FALSE
SPECIFICATION Spec
INVARIANTS TypeOK RecordIsTheSegment
PROPERTIES ImplementsBlockSpace
