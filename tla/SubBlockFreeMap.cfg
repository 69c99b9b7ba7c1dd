CONSTANTS
  MaxBlkNr = 2
  MaxBlkCnt = 4
  SubblkCntPerBlk = 3
  CounterMod = 3
SPECIFICATION SubSpec
INVARIANTS SubTypeOK BinsAgree SubblksConserved
