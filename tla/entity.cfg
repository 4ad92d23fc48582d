CONSTANTS
  None = None
  Types = {physics, render, sound}
  Comps = {c1, c2, c3, c4, c5}
  MaxDepth = 3
  Hash <- MCHash
SPECIFICATION Spec
SYMMETRY Same
INVARIANTS
  TypeOK
  OneOwner
  CastIsRight
PROPERTIES
  HandsOutStored
  DanglesByOwnClass
