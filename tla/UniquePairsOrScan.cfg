CONSTANTS
  Max = 15
  SymbolIds <- MCSymbolIds
  Pairs <- MCPairs
  MaxTerms = 2
SPECIFICATION Spec
INVARIANT
  PairsAreUnique
