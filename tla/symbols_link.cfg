SPECIFICATION Spec
CONSTANTS
  f1 = f1
  f2 = f2
  f3 = f3
  f4 = f4
  a1 = a1
  a2 = a2
  Files <- Four
  Names <- AllNames
  Tags = {1, 2}
  Descs <- LinkDescs
  Sources <- Linked
  Actors = {a1, a2}
  Reporters = {TRUE, FALSE}
  MaxOps = 3
INVARIANTS
  NamesUnique
  LinkedIsRegistered
  NoSpuriousErrors
