\* One thread, eight ids, recorded and deleted in any order, until xid_latest
\* has reached the largest.
CONSTANTS
  Threads = {t1}
  Recorders = {t1}
  Nodes = {n1, n2, n3}
  Entries = {e1, e2, e3}
  MaxXid = 7
  Null = Null
SPECIFICATION Spec
SYMMETRY Symmetry
INVARIANTS FirstTryIsFree TableAgrees
PROPERTIES FreshUntilSaturated
\* A recorder stops when all addresses are in use, or when it follows NULL.
CHECK_DEADLOCK FALSE
