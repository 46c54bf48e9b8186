\* Two threads that record and delete.
CONSTANTS
  Threads = {t1, t2}
  Recorders = {t1, t2}
  Nodes = {n1, n2, n3}
  Entries = {e1, e2, e3}
  MaxXid = 3
  Null = Null
SPECIFICATION Spec
SYMMETRY Symmetry
PROPERTIES AppendsAtEnd
\* A recorder stops when all addresses are in use, or when it follows NULL.
CHECK_DEADLOCK FALSE
