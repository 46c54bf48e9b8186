CONSTANTS
  Calls <- MCCalls
  ArgValues = {0, 1}
  VendorBodies = {0, 8, 40000, 65528, 65530}
  RawActions <- MCRawActions
  MaxActions = 2
  Null = Null
SPECIFICATION Spec
INVARIANTS WritesFit BuiltIsAccepted SuccessMeansQueued
\* After a fault the program is gone.
CHECK_DEADLOCK FALSE
