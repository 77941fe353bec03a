CONSTANTS
  a = a
  b = b
  c = c
  foo = foo
  food = food
  std = std
  llvm = llvm
  p = p
  q = q
  NULL = NULL
  Id = {a, b, c}
  Name = {foo, food}
  Scope = {std, llvm}
  Text = {p, q}
  Symbols <- PropertySymbols
  FuzzyMatch <- PropertyFuzzyMatch
  ConstraintLists <- PropertyConstraintLists
SPECIFICATION Spec
INVARIANTS
  ColumnsMatchSchema
