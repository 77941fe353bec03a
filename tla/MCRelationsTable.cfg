CONSTANTS
  a = a
  b = b
  c = c
  NULL = NULL
  Id = {a, b, c}
  Relations <- MCRelations
  ConstraintLists <- MCConstraintLists
  MaxSubjects = 2
SPECIFICATION FairSpec
INVARIANTS
  IInv
  TypeOK
  ScanSound
  ScanComplete
  CurrentRowIsFresh
PROPERTIES
  ImplementsTableScan
  ScanGetsOn
  BlockedCallReturns
  ScanEnds
