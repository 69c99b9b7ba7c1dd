SPECIFICATION Spec
CONSTANTS
  Plain = {p, q}
  Sets = {Root, s}
  Root = Root
  NoSet = NoSet
  Values = {"small", "large"}
  CellsOf <- CellsOf12
  WithContent = {p, q}
  HeaderCells = 2
  CellsPerBlk = 4
  Usage = {}
  Reopens = FALSE
  Releases = {FALSE, TRUE}
  MaxBlks = 16
  MaxCalls = 4
INVARIANT SegmentsAreStored
