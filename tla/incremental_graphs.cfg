SPECIFICATION FairSpec
CONSTANTS
  a = a
  b = b
  c = c
  Queries <- ABC
  Programs <- Graphs
  Asked <- AskedAB
  Par = 1
  CanCancel = FALSE
  Evictions <- NoEvictions
  MaxEvicts = 0
INVARIANTS
  FatalIffCyclic
  
PROPERTIES
  RunsReturn
