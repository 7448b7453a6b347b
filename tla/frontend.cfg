SPECIFICATION FrontendSpec
CONSTANTS
  Nil = Nil
  Sources <- MCSources
  ScanFiles <- MCScanFiles
  MaxUint64 = 1000
  Inputs <- MCInputs
  LowerCase <- MCLowerCase
  UpperCase <- MCUpperCase
  MaxDepth = 4
  PathCap = 3
  OptionPaths <- MCOptionPaths
  Layouts <- MCLayouts
  Subjects = {"lexer", "parser"}
INVARIANTS
  LexingIsExact
  
  ResultIsFaithful
  
  LocationsAreExact
CHECK_DEADLOCK FALSE
