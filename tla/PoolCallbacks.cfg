CONSTANTS
  Object = {o1, o2, o3}
  Key = {1, 2, 3, 4}
  NULL = NULL
  BufLen = 3
  IntMax = 5
SPECIFICATION NestSpec
PROPERTIES CallbacksHarmless
