CONSTANTS
  N <- MCN
  TraceBound <- MCTraceBound
  StepBound <- MCStepBound
  Kinds = {"fall", "ret", "jmp", "jcc", "jccjmp", "ijmp"}
  NULL = NULL
SPECIFICATION Spec
INVARIANTS TypeOK TraceEquivalence FakeJumpsInLayoutOrder
CHECK_DEADLOCK FALSE
