CONSTANTS
  Conn = {c1, c2}
  Addr = {a1, a2}
  Vtab = {v1, v2}
  Channel = {h1, h2, h3}
  MaxCursors = 1
  Threaded = TRUE
  NULL = NULL
SYMMETRY Symmetry
SPECIFICATION Spec
INVARIANTS
  IInv
  TypeOK
  HeldIsWhole
  OneOwner
  LeaksAreEmpty
  OneChannel
PROPERTY
  SafeOnceWarm
