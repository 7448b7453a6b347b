SPECIFICATION Spec
CONSTANTS
  a = a
  b = b
  c = c
  Queries <- ABC
  Programs <- Faulty
  Asked <- AskedAC
  Par = 1
  CanCancel = TRUE
  Evictions <- EvictOneB
  MaxEvicts = 1
INVARIANTS
  PermitsConserved
  NeverAborts
  MemoizedOnce
  
CHECK_DEADLOCK FALSE
