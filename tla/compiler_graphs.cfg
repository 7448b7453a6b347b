SPECIFICATION Spec
CONSTANTS
  a = a
  b = b
  c = c
  d = d
  DescProto = d
  Files <- ABCD
  Explicit <- ExplicitAB
  Par = 2
  Worlds <- GraphWorlds
  CanCancel = FALSE
INVARIANTS
  CyclesNeverComplete
  FailuresHaveCause
  NoCircularWait
