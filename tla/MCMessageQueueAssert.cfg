\* Two messages are enough to see what the first dequeue returns.
CONSTANTS
  Nodes = {n1, n2, n3}
  Msgs = {m1, m2}
  Null = Null
SPECIFICATION Spec
PROPERTIES LoopGetsMessage
CHECK_DEADLOCK FALSE
