CONSTANTS
  a = a
  b = b
  here = here
  there = there
  NULL = NULL
  Id = {a, b}
  Location = {here, there}
  Refs <- MCRefs
  ConstraintLists <- MCConstraintLists
SPECIFICATION Spec
INVARIANTS
  RegularTable
