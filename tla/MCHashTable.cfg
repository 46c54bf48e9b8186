SPECIFICATION Spec
CONSTANTS
  a = a
  b = b
  c = c
  Keys <- MCKeys
  Values = {v1, v2}
  Hash <- MCHash
  NumberOfBuckets = 3
  NULL = NULL
  Dangling = Dangling
INVARIANTS IndexExact WalkSafe
PROPERTIES WalkOnce ImplementsMap
\* After a fault the program is gone.
CHECK_DEADLOCK FALSE
