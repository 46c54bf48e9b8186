\* One thread records and deletes the ids 0 and 1 beside one that only generates:
\* rolls of the counter onto recorded ids, equal ids, entries freed on the list.
\* Three elements: a deletion of the first, the second and one farther on.
CONSTANTS
  Threads = {t1, t2}
  Recorders = {t1}
  Nodes = {n1, n2, n3}
  Entries = {e1, e2, e3}
  MaxXid = 1
  Null = Null
SPECIFICATION Spec
VIEW View
SYMMETRY Symmetry
INVARIANTS TypeOK ListIntact KeysListed DeleteFindsEntry
\* A recorder stops when all addresses are in use, or when it follows NULL.
CHECK_DEADLOCK FALSE
