CONSTANTS
  N = 4
  Twins = 0
  NULL = NULL
  Node <- MCNode
  Val <- MCVal
  Cautious = FALSE
SPECIFICATION WalkSpec
PROPERTIES NextIsSuccessor
