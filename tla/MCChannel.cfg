CONSTANTS
  Objects = {o1, o2, o3}
  Addresses = {a1, a2, a3}
  Workers = {w1, w2}
  None = None
SPECIFICATION Spec
INVARIANTS OneHolder NoLeak DoubleFreeOnlyByApp AnsweredOnce DrainedBeforeFlush
SYMMETRY Symmetry
\* The process stops at undefined behaviour.
CHECK_DEADLOCK FALSE
