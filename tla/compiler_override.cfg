SPECIFICATION Spec
CONSTANTS
  a = a
  b = b
  c = c
  d = d
  DescProto = d
  Files <- ABD
  Explicit <- ExplicitB
  Par = 2
  Worlds <- OverrideWorlds
  CanCancel = FALSE
INVARIANTS
  NoCircularWait
