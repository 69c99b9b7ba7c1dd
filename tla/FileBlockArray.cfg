CONSTANTS
  MaxBlkNr = 7
  MaxBlkCnt = 5
  SubblkCntPerBlk = 2
  BeginBlkNr = 1
  BlkNrExhaust = 6
  BlkSz = 3
  U32 = 12
  Data = {"a", "b"}
CHECK_DEADLOCK FALSE
SPECIFICATION Spec
INVARIANTS TypeOK
PROPERTIES ReopenFindsTheSame ImplementsBlockSpace
