CONSTANTS
  N = 9
  Twins = 1
  NULL = NULL
  Node <- MCNode
  Val <- MCVal
SPECIFICATION FairSpec
INVARIANTS TypeOK TreeShape ColorRules NoNullDereference PathMatches
PROPERTIES ImplementsOrderedSet CallReturns
