\* What the program does today: two threads, nothing recorded.
CONSTANTS
  Threads = {t1, t2}
  Recorders = {}
  Nodes = {n1}
  Entries = {e1}
  MaxXid = 7
  Null = Null
SPECIFICATION Spec
SYMMETRY Symmetry
PROPERTIES FreshIds
