SPECIFICATION Spec
CONSTANTS
  a = a
  b = b
  c = c
  Queries <- AB
  Programs <- PairPrograms
  Asked <- AskedAB
  Par = 1
  CanCancel = FALSE
  Evictions <- EvictOneB
  MaxEvicts = 1
INVARIANTS
  CacheFresh
