CONSTANTS
  N = 14
  Strides = {1}
  NULL = NULL
  Node <- MCNode
  Val <- MCVal
SPECIFICATION DrainSpec
INVARIANTS ColorRules PathMatches PathBound
