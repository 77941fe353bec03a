CONSTANTS
  x = x
  y = y
  NULL = NULL
  Obj <- MCObj
  Part = {p}
  Elem = {e}
  MaxFocus = 2
  MaxLen = 2
  MaxUnknown = 1
SYMMETRY MCSymmetry
SPECIFICATION Spec
INVARIANTS
  TypeOK
  NoNullBehindABit
  AbsentReadsDefault
  SizeIsExact
PROPERTY
  ImplementsMessageSpec
