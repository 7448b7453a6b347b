CONSTANTS
  p1 = p1
  p2 = p2
  Blank = Blank
  Procs = {p1, p2}
  Vals <- SomeVals
  MaxInt = 3
  Growths <- Steps
  MaxCalls = 7
  Strings <- SomeStrings
  Base = 4
  MaxInlined = 2
  MaxOps = 4
SPECIFICATION FairSpec
INVARIANTS LoadsReturnAppended IdsAgree
PROPERTIES CallsEnd LogSpec
