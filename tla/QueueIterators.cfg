CONSTANTS
  Item = {a, b}
  NULL = NULL
  BufLen = 5
  SizeMod = 5
SPECIFICATION HeldSpec
INVARIANTS TypeOK RingInv HeldWalk
PROPERTIES ImplementsFifo RemoveReturns
