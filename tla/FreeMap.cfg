CONSTANTS
  MaxBlkNr = 5
  MaxBlkCnt = 6
  SubblkCntPerBlk = 2
  CoalescingEnabled = TRUE
  SplitAboveThreshold = 1
SPECIFICATION MapSpec
INVARIANTS MapTypeOK IndexesAgree BlocksConserved FullyCoalesced FailureIsJustified
PROPERTIES DoubleFreeDetected
