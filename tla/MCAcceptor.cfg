CONSTANTS
  Conns = {c1, c2, c3, c4}
  Parent = Parent
  Listen = Listen
SPECIFICATION Spec
INVARIANTS OneProcessEach MergedStay
PROPERTY Served
\* The parent stops at an error, and then the children may all have ended.
CHECK_DEADLOCK FALSE
