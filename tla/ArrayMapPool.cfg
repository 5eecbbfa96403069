CONSTANTS
  Object = {o1, o2, o3, o4}
  Key = {1, 2, 3, 4}
  NULL = NULL
  BufLen = 4
  IntMax = 7
SPECIFICATION FairSpec
INVARIANTS TypeOK PoolConserved LiveSorted SearchWindow NoIntOverflow
PROPERTIES ImplementsPool CallReturns
