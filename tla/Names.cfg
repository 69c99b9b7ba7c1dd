SPECIFICATION NamesSpec
CONSTANTS
  Dscs = {a, b, c}
  Sets = {root, nested}
  NoSet = NoSet
  Erased = Erased
  MaxId = 3
  NameList <- MCNameList
  TempNames <- MCTempNames
  Reserved <- MCReserved
  Configs = {TRUE, FALSE}
  MaxCalls = 5
INVARIANTS NamesTypeOK IdsAreUnique FindIsHonest FileOpens
PROPERTY NamesSurvive
SYMMETRY Symmetry
CHECK_DEADLOCK FALSE
