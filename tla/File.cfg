CONSTANTS
  BlkSz = 2
  HeaderRoom = 1
  Sizes = {1, 2, 4}
  MaxExts = 1
  BlkNrExhaust = 5
  Data = {Blank, Written}
  Blank = Blank
  Unreadable = Unreadable
  MaxCalls = 7
SPECIFICATION Spec
CHECK_DEADLOCK FALSE
INVARIANTS TypeOK TrampolineIsApart HeaderTellsTheFile
PROPERTY ImplementsFileStore
