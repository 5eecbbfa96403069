CONSTANTS
  N = 8
  Twins = 0
  NULL = NULL
  Node <- MCNode
  Val <- MCVal
  Cautious = TRUE
SPECIFICATION WalkSpec
INVARIANTS WalkSurvives
PROPERTIES RotationRuinsWalk
