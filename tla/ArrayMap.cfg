CONSTANTS
  N = 6
  NULL = NULL
  BufLen = 4
  IntMax = 7
  Item <- MCItem
  KeyOf <- MCKeyOf
SPECIFICATION FairSpec
INVARIANTS TypeOK Sorted SearchWindow NoIntOverflow
PROPERTIES ImplementsMap CallReturns
