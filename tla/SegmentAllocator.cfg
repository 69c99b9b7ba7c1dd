CONSTANTS
  MaxBlkNr = 7
  MaxBlkCnt = 3
  SubblkCntPerBlk = 2
  CoalescingEnabled = TRUE
  SplitAboveThreshold = 1
  BeginBlkNr = 0
  BlkNrExhaust = 5
  Slots = {s1, s2}
  NoSegm = NoSegm
  BlkSz = 4
  Sizes = {0, 1, 6, 16}
  Reqs <- MCReqs
  MaxBlocked = 1
SPECIFICATION FairSpec
INVARIANTS TypeOK SpaceIsPartitioned StatsAgree
PROPERTIES RequirementsAreMet ImplementsSpaceAllocator ReleaseIsThorough CallsEnd
