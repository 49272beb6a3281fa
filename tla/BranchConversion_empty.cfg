CONSTANTS
  N <- MCN
  TraceBound <- MCTraceBound
  StepBound <- MCStepBound
  Kinds = {"fall", "ret", "jmp", "jcc", "empty"}
  NULL = NULL
SPECIFICATION Spec
INVARIANT TraceEquivalence
CHECK_DEADLOCK FALSE
