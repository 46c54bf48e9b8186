CONSTANTS
  Messages <- MCMessages
  Null = Null
SPECIFICATION Spec
INVARIANTS AcceptedSizes LengthAnswered GoodListsFill BeyondOnlyIfMisfit FirstBadActionDecides
