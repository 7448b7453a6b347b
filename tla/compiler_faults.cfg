SPECIFICATION FairSpec
CONSTANTS
  a = a
  b = b
  c = c
  d = d
  DescProto = d
  Files <- ABD
  Explicit <- ExplicitA
  Par = 1
  Worlds <- FaultWorlds
  CanCancel = TRUE
INVARIANTS
  PermitsConserved
  CompleteAreClosed
  
PROPERTIES
  CompilationEnds
