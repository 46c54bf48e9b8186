\* Four messages and five addresses: the dummy and one per message.
CONSTANTS
  Nodes = {n1, n2, n3, n4, n5}
  Msgs = {m1, m2, m3, m4}
  Null = Null
SPECIFICATION Spec
INVARIANTS TypeOK TailLive HoldsAll
\* A faulted or deleted queue does nothing more.
CHECK_DEADLOCK FALSE
